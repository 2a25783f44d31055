----------------------------- MODULE ControlProofs -----------------------------
(* Proofs about the control connections, for every set of modules and every limit *)
(* of the server: an action that is waited for has one connection and one process.*)

EXTENDS Control, FiniteSetTheorems, SequenceTheorems, TLAPS

Client ==
  [token : 0..MaxInvocations, asked : 0..MaxInvocations, answer : Answers,
   left : {Unset} \cup 0..PhaseTimeout \cup 0..PendingTimeout, close : Endings]

ActionRecord ==
  [instance : Instances, generation : Generations, left : {Unset} \cup 0..ActionTimeout]

Command ==
  [kind : {"action"}, instance : Instances, generation : Generations, id : Nat]
    \cup [kind : {"replace"}, instances : SUBSET Instances]

\* What ends, begins and answers an action.
EventRecord ==
  [kind : {"started", "ready", "removed"}, instance : Instances, generation : Generations]
    \cup [kind : {"delivery"}, instance : Instances, generation : Generations, id : Nat,
          succeeded : BOOLEAN, left : 0..ActionTimeout]
    \cup [kind : {"result"}, instance : Instances, generation : Generations, id : Nat,
          answer : {"accepted", "rejected"}]

ClientsTyped ==
  /\ arrived \in Nat /\ DOMAIN clients \subseteq 1..arrived
  /\ \A c \in DOMAIN clients : clients[c] \in Client
  /\ toserve \subseteq DOMAIN clients

\* The places of the server.
Places == Cardinality(DOMAIN clients) <= MaxClients /\ PendingCount <= MaxPending

ActionsTyped ==
  /\ next_id \in 1..MaxInvocations + 1
  /\ DOMAIN actions \subseteq 1..next_id - 1
  /\ \A id \in DOMAIN actions : actions[id] \in ActionRecord
  /\ \A id \in DOMAIN completed : completed[id] \in Answers

\* An id is used once, and an action is either waited for or complete.
IdsAreFresh ==
  /\ \A c \in DOMAIN clients : clients[c].token < next_id
  /\ \A id \in DOMAIN completed : id \notin DOMAIN actions /\ id < next_id /\ id \in Nat \ {0}

CoordinatorTyped ==
  /\ ready \subseteq Instances
  /\ known \in [Instances -> 0..MaxGeneration]

SupervisorTyped ==
  /\ commands \in Seq(Command) /\ Len(commands) <= MaxCommands
  /\ events \in Seq(EventRecord) /\ Len(events) <= MaxQueue
  /\ generation \in [Instances -> 0..MaxGeneration]
  /\ process \in [Instances -> {"absent", "starting", "running"}]
  /\ \A i \in Instances : process[i] # "absent" => generation[i] # 0

\* After the last advance nothing is waited for.
EndIsQuiet == quitting => DOMAIN actions = {} /\ phase \in {"serve", "done"}

\* The inductive invariant.
ControlInv ==
  /\ ClientsTyped /\ Places /\ ActionsTyped /\ IdsAreFresh
  /\ CoordinatorTyped /\ SupervisorTyped /\ EndIsQuiet
  /\ PendingActionsAreOwned /\ WaitsForSameProcess

--------------------------------------------------------------------------------
(* Counting connections.                                                         *)

LEMMA ClientsAreFinite ==
  ASSUME ClientsTyped, NEW S \in SUBSET DOMAIN clients
  PROVE  /\ IsFiniteSet(S) /\ Cardinality(S) \in Nat
         /\ Cardinality(S) <= Cardinality(DOMAIN clients)
         /\ IsFiniteSet(DOMAIN clients) /\ Cardinality(DOMAIN clients) \in Nat
<1>1. IsFiniteSet(1..arrived)
  BY FS_Interval DEF ClientsTyped
<1>2. IsFiniteSet(DOMAIN clients)
  BY <1>1, FS_Subset DEF ClientsTyped
<1> QED
  BY <1>2, FS_Subset, FS_CardinalityType

\* Fewer connections wait: the limit holds.
LEMMA FewerPending ==
  ASSUME ClientsTyped, PendingCount <= MaxPending,
         {c \in DOMAIN clients' : clients'[c].token # NoToken}
           \subseteq {c \in DOMAIN clients : clients[c].token # NoToken}
  PROVE  PendingCount' <= MaxPending
<1> DEFINE old == {c \in DOMAIN clients : clients[c].token # NoToken}
           new == {c \in DOMAIN clients' : clients'[c].token # NoToken}
<1>1. IsFiniteSet(old) /\ Cardinality(old) \in Nat
  BY ClientsAreFinite
<1>2. new \in SUBSET old
  OBVIOUS
<1> HIDE DEF old, new
<1>3. IsFiniteSet(new) /\ Cardinality(new) <= Cardinality(old) /\ Cardinality(new) \in Nat
  BY <1>1, <1>2, FS_Subset, FS_CardinalityType
<1>4. PendingCount = Cardinality(old) /\ PendingCount' = Cardinality(new)
  BY DEF PendingCount, Pending, old, new
<1> QED
  BY <1>1, <1>3, <1>4, ControlAssumption

--------------------------------------------------------------------------------
(* What steps have in common.                                                    *)

SameTokens ==
  /\ DOMAIN clients' = DOMAIN clients
  /\ \A c \in DOMAIN clients : clients'[c].token = clients[c].token

\* complete() for some of the actions: they leave pending_actions_, and nothing else does.
LEMMA CompleteTracks ==
  ASSUME ControlInv, NEW ids \in SUBSET DOMAIN actions, NEW answer \in Answers,
         Complete(ids, answer), SameTokens, next_id' = next_id
  PROVE  /\ ActionsTyped' /\ IdsAreFresh' /\ PendingActionsAreOwned'
         /\ DOMAIN actions' = DOMAIN actions \ ids
         /\ \A id \in DOMAIN actions' : actions'[id] = actions[id]
<1>1. /\ DOMAIN actions' = DOMAIN actions \ ids
      /\ \A id \in DOMAIN actions' : actions'[id] = actions[id]
  <2>1. actions' = Remove(actions, ids)
    BY DEF Complete
  <2> QED
    BY <2>1 DEF Remove
<1>2. /\ DOMAIN completed' = ids \cup DOMAIN completed
      /\ \A id \in ids : completed'[id] = answer
      /\ \A id \in DOMAIN completed \ ids : completed'[id] = completed[id]
  <2> DEFINE new == [id \in ids |-> answer]
  <2>1. completed' = Merged(new, completed)
    BY DEF Complete
  <2>2. DOMAIN new = ids /\ \A id \in ids : new[id] = answer
    OBVIOUS
  <2> HIDE DEF new
  <2> QED
    BY <2>1, <2>2 DEF Merged
<1>3. ActionsTyped'
  BY <1>1, <1>2 DEF ControlInv, ActionsTyped
<1>4. IdsAreFresh'
  BY <1>1, <1>2 DEF ControlInv, ActionsTyped, IdsAreFresh, SameTokens
<1>5. PendingActionsAreOwned'
  BY <1>1, <1>2 DEF ControlInv, PendingActionsAreOwned, Pending, SameTokens
<1> QED
  BY <1>1, <1>3, <1>4, <1>5

\* A step that leaves the ids of both sides alone, and what the actions wait for.
LEMMA LinksKept ==
  ASSUME ControlInv, SameTokens, next_id' = next_id, completed' = completed,
         DOMAIN actions' = DOMAIN actions,
         \A id \in DOMAIN actions : /\ actions'[id].instance = actions[id].instance
                                   /\ actions'[id].generation = actions[id].generation
  PROVE  IdsAreFresh' /\ PendingActionsAreOwned' /\ (UNCHANGED coordinator => WaitsForSameProcess')
<1>1. IdsAreFresh'
  BY DEF ControlInv, IdsAreFresh, SameTokens
<1>2. PendingActionsAreOwned'
  BY DEF ControlInv, PendingActionsAreOwned, Pending, SameTokens
<1>3. UNCHANGED coordinator => WaitsForSameProcess'
  BY DEF ControlInv, WaitsForSameProcess, coordinator
<1> QED
  BY <1>1, <1>2, <1>3

\* A visit of a connection that goes on waiting for what it waited for.
LEMMA VisitTyped ==
  ASSUME ControlInv, NEW c \in DOMAIN clients, NEW client \in Client,
         client.token = clients[c].token, clients' = [clients EXCEPT ![c] = client],
         arrived' = arrived, toserve' = toserve \ {c}
  PROVE  ClientsTyped' /\ Places' /\ SameTokens
<1>1. ClientsTyped' /\ SameTokens
  BY DEF ControlInv, ClientsTyped, SameTokens
<1>2. PendingCount' <= MaxPending
  BY <1>1, FewerPending DEF ControlInv, Places, SameTokens
<1> QED
  BY <1>1, <1>2 DEF ControlInv, Places, SameTokens

LEMMA UnchangedServer ==
  ASSUME ControlInv, UNCHANGED server
  PROVE  ClientsTyped' /\ Places' /\ SameTokens
  BY DEF ControlInv, ClientsTyped, Places, PendingCount, Pending, SameTokens, server

LEMMA UnchangedSupervisor ==
  ASSUME ControlInv, UNCHANGED supervisor
  PROVE  SupervisorTyped'
  BY DEF ControlInv, SupervisorTyped, supervisor

--------------------------------------------------------------------------------
(* The events of a frame.                                                        *)

\* What consuming an event leaves to be shown of the dispatcher and the coordinator.
Tracking ==
  ActionsTyped' /\ IdsAreFresh' /\ PendingActionsAreOwned' /\ CoordinatorTyped' /\ WaitsForSameProcess'
    /\ DOMAIN actions' \subseteq DOMAIN actions

LEMMA WaitingActions ==
  ASSUME NEW i, NEW generations
  PROVE  Waiting(i, generations) \in SUBSET DOMAIN actions
  BY DEF Waiting

LEMMA StartedTracks ==
  ASSUME ControlInv, NEW event \in EventRecord, SameTokens, next_id' = next_id, ConsumeStarted(event)
  PROVE  Tracking
<1> DEFINE ids == Waiting(event.instance, Generations \ {event.generation})
<1>1. event.instance \in Instances /\ event.generation \in Generations
  BY DEF EventRecord, ConsumeStarted
<1>2. "cancelled" \in Answers /\ ids \in SUBSET DOMAIN actions
  BY WaitingActions DEF Answers
<1>3. Complete(ids, "cancelled")
  BY DEF ConsumeStarted
<1> HIDE DEF ids
<1>4. /\ ActionsTyped' /\ IdsAreFresh' /\ PendingActionsAreOwned'
      /\ DOMAIN actions' = DOMAIN actions \ ids
      /\ \A id \in DOMAIN actions' : actions'[id] = actions[id]
  BY <1>2, <1>3, CompleteTracks
<1>5. known' = [known EXCEPT ![event.instance] = event.generation] /\ ready' = ready
  BY DEF ConsumeStarted
<1>6. CoordinatorTyped'
  BY <1>1, <1>5 DEF ControlInv, CoordinatorTyped, Generations
<1>7. WaitsForSameProcess'
  <2> SUFFICES ASSUME NEW id \in DOMAIN actions'
               PROVE  actions'[id].instance \in ready' /\ known'[actions'[id].instance] = actions'[id].generation
    BY DEF WaitsForSameProcess
  <2>1. /\ id \in DOMAIN actions /\ id \notin ids /\ actions'[id] = actions[id]
        /\ actions[id] \in ActionRecord
        /\ actions[id].instance \in ready /\ known[actions[id].instance] = actions[id].generation
    BY <1>4 DEF ControlInv, ActionsTyped, WaitsForSameProcess
  <2>2. CASE actions[id].instance = event.instance
    <3>1. actions[id].generation \in Generations
      BY <2>1 DEF ActionRecord
    <3>2. actions[id].generation = event.generation
      BY <2>1, <2>2, <3>1 DEF ids, Waiting
    <3> QED
      BY <1>1, <1>5, <2>1, <2>2, <3>2 DEF ControlInv, CoordinatorTyped
  <2>3. CASE actions[id].instance # event.instance
    BY <1>5, <2>1, <2>3 DEF ControlInv, CoordinatorTyped
  <2> QED
    BY <2>2, <2>3
<1> QED
  BY <1>4, <1>6, <1>7 DEF Tracking

LEMMA ReadyTracks ==
  ASSUME ControlInv, NEW event \in EventRecord, SameTokens, next_id' = next_id, ConsumeReady(event)
  PROVE  Tracking
<1>1. event.instance \in Instances /\ event.generation \in Generations
  BY DEF EventRecord, ConsumeReady
<1>2. UNCHANGED <<actions, completed>>
  BY DEF ConsumeReady
<1>3. IdsAreFresh' /\ PendingActionsAreOwned' /\ ActionsTyped'
  BY <1>2, LinksKept DEF ControlInv, ActionsTyped
<1>4. CASE UNCHANGED coordinator
  BY <1>2, <1>3, <1>4, LinksKept DEF Tracking, ControlInv, CoordinatorTyped, coordinator
<1>5. CASE /\ Matches(event)
           /\ ready' = ready \cup {event.instance}
           /\ known' = [known EXCEPT ![event.instance] = event.generation]
  <2>1. CoordinatorTyped'
    BY <1>1, <1>5 DEF ControlInv, CoordinatorTyped, Generations
  <2>2. \A id \in DOMAIN actions : actions[id].generation # 0
    BY DEF ControlInv, ActionsTyped, ActionRecord, Generations
  <2>3. WaitsForSameProcess'
    BY <1>1, <1>2, <1>5, <2>2 DEF ControlInv, WaitsForSameProcess, Matches, CoordinatorTyped
  <2> QED
    BY <1>2, <1>3, <2>1, <2>3 DEF Tracking
<1> QED
  BY <1>4, <1>5 DEF ConsumeReady

LEMMA RemovedTracks ==
  ASSUME ControlInv, NEW event \in EventRecord, SameTokens, next_id' = next_id, ConsumeRemoved(event)
  PROVE  Tracking
<1> DEFINE ids == Waiting(event.instance, {event.generation})
<1>1. event.instance \in Instances /\ event.generation \in Generations
  BY DEF EventRecord, ConsumeRemoved
<1>2. "cancelled" \in Answers /\ ids \in SUBSET DOMAIN actions
  BY WaitingActions DEF Answers
<1>3. Complete(ids, "cancelled")
  BY DEF ConsumeRemoved
<1> HIDE DEF ids
<1>4. /\ ActionsTyped' /\ IdsAreFresh' /\ PendingActionsAreOwned'
      /\ DOMAIN actions' = DOMAIN actions \ ids
      /\ \A id \in DOMAIN actions' : actions'[id] = actions[id]
  BY <1>2, <1>3, CompleteTracks
<1>5. CASE UNCHANGED coordinator
  BY <1>4, <1>5 DEF Tracking, ControlInv, CoordinatorTyped, WaitsForSameProcess, coordinator
<1>6. CASE /\ Matches(event)
           /\ ready' = ready \ {event.instance}
           /\ known' = [known EXCEPT ![event.instance] = 0]
  <2>1. CoordinatorTyped'
    BY <1>1, <1>6, ControlAssumption DEF ControlInv, CoordinatorTyped
  <2>2. ASSUME NEW id \in DOMAIN actions'
        PROVE  actions'[id].instance \in ready' /\ known'[actions'[id].instance] = actions'[id].generation
    <3>1. /\ id \in DOMAIN actions /\ id \notin ids /\ actions'[id] = actions[id]
          /\ actions[id] \in ActionRecord
          /\ actions[id].instance \in ready /\ known[actions[id].instance] = actions[id].generation
      BY <1>4, <2>2 DEF ControlInv, ActionsTyped, WaitsForSameProcess
    <3>2. actions[id].generation # 0
      BY <3>1 DEF ActionRecord, Generations
    <3>3. actions[id].instance # event.instance
      BY <1>6, <3>1, <3>2 DEF Matches, ids, Waiting
    <3> QED
      BY <1>6, <3>1, <3>3 DEF ControlInv, CoordinatorTyped
  <2> QED
    BY <1>4, <2>1, <2>2 DEF Tracking, WaitsForSameProcess
<1> QED
  BY <1>5, <1>6 DEF ConsumeRemoved

\* Deliveries and results are about one action.
LEMMA SingleTracks ==
  ASSUME ControlInv, NEW event \in EventRecord, SameTokens, next_id' = next_id,
         ConsumeDelivery(event) \/ ConsumeResult(event)
  PROVE  Tracking
<1>1. UNCHANGED coordinator
  BY DEF ConsumeDelivery, ConsumeResult
<1>2. CoordinatorTyped'
  BY <1>1 DEF ControlInv, CoordinatorTyped, coordinator
<1>3. ASSUME NEW answer \in Answers, event.id \in DOMAIN actions, Complete({event.id}, answer)
      PROVE  Tracking
  BY <1>1, <1>2, <1>3, CompleteTracks
     DEF Tracking, ControlInv, WaitsForSameProcess, coordinator
<1>4. CASE UNCHANGED <<actions, completed>>
  BY <1>1, <1>2, <1>4, LinksKept DEF Tracking, ControlInv, ActionsTyped
<1>5. CASE /\ event.kind = "delivery" /\ event.id \in DOMAIN actions
           /\ actions' = [actions EXCEPT ![event.id].left = event.left] /\ UNCHANGED completed
  <2>1. event.left \in 0..ActionTimeout
    BY <1>5 DEF EventRecord
  <2>2. /\ DOMAIN actions' = DOMAIN actions
        /\ \A id \in DOMAIN actions : /\ actions'[id].instance = actions[id].instance
                                      /\ actions'[id].generation = actions[id].generation
                                      /\ actions'[id] \in ActionRecord
    BY <1>5, <2>1 DEF ControlInv, ActionsTyped, ActionRecord
  <2>3. ActionsTyped'
    BY <1>5, <2>2 DEF ControlInv, ActionsTyped
  <2> QED
    BY <1>1, <1>2, <1>5, <2>2, <2>3, LinksKept DEF Tracking
<1>6. CASE ConsumeDelivery(event)
  <2>1. "undelivered" \in Answers
    BY DEF Answers
  <2> QED
    BY <1>3, <1>4, <1>5, <1>6, <2>1 DEF ConsumeDelivery, Concerns
<1>7. CASE ConsumeResult(event)
  <2>1. event.answer \in Answers
    BY <1>7 DEF EventRecord, Answers, ConsumeResult
  <2> QED
    BY <1>3, <1>4, <1>7, <2>1 DEF ConsumeResult, Concerns
<1> QED
  BY <1>6, <1>7

LEMMA ConsumePreserves == ControlInv /\ Consume => ControlInv'
<1> SUFFICES ASSUME ControlInv, Consume PROVE ControlInv'
  OBVIOUS
<1>1. /\ events # <<>> /\ events \in Seq(EventRecord) /\ events' = Tail(events)
      /\ UNCHANGED <<server, next_id, commands, process, generation, quitting>>
      /\ phase \in {"idle", "events"} /\ phase' = "events"
  BY DEF Consume, ControlInv, SupervisorTyped
<1>2. Head(events) \in EventRecord /\ Tail(events) \in Seq(EventRecord)
  BY <1>1, HeadTailProperties
<1>3. ClientsTyped' /\ Places' /\ SameTokens
  BY <1>1, UnchangedServer
<1>4. Tracking
  BY <1>1, <1>2, <1>3, StartedTracks, ReadyTracks, RemovedTracks, SingleTracks DEF Consume
<1>5. Len(Tail(events)) <= Len(events) /\ Len(events) \in Nat /\ Len(Tail(events)) \in Nat
  BY <1>1
<1>6. SupervisorTyped'
  BY <1>1, <1>2, <1>5, ControlAssumption DEF ControlInv, SupervisorTyped
<1>7. EndIsQuiet'
  BY <1>1 DEF ControlInv, EndIsQuiet
<1> QED
  BY <1>3, <1>4, <1>6, <1>7 DEF ControlInv, Tracking

--------------------------------------------------------------------------------
(* The server.                                                                   *)

LEMMA NewClientTyped == NewClient \in Client /\ NewClient.token = NoToken
<1>1. {"none", "sync"} \subseteq Answers /\ "no" \in Endings
  BY DEF Answers, Endings
<1>2. MaxInvocations \in Nat /\ PhaseTimeout \in Nat
  BY ControlAssumption
<1> QED
  BY <1>1, <1>2 DEF NewClient, Client, NoToken

LEMMA RespondedTyped ==
  ASSUME NEW client \in Client, NEW answer \in Answers
  PROVE  Responded(client, answer) \in Client /\ Responded(client, answer).token = NoToken
<1>1. 0 \in 0..MaxInvocations /\ PhaseTimeout \in {Unset} \cup 0..PhaseTimeout \cup 0..PendingTimeout
  BY ControlAssumption
<1>2. Responded(client, answer) = [client EXCEPT !.token = 0, !.answer = answer, !.left = PhaseTimeout]
  BY DEF Responded, NoToken
<1> QED
  BY <1>1, <1>2 DEF Client, NoToken

LEMMA ClosedTyped ==
  ASSUME NEW client \in Client, NEW ending \in Endings
  PROVE  [client EXCEPT !.close = ending] \in Client /\ [client EXCEPT !.close = ending].token = client.token
  BY DEF Client

LEMMA WrittenTyped ==
  ASSUME NEW client \in Client, NEW written \in Written(client)
  PROVE  written \in Client /\ written.token = client.token
<1>1. "closed" \in Endings
  BY DEF Endings
<1> QED
  BY <1>1, ClosedTyped DEF Written

\* complete() on every connection: who was answered waits for nothing.
LEMMA CompletedTyped ==
  ASSUME ControlInv, NEW answers, \A id \in DOMAIN answers : answers[id] \in Answers
  PROVE  /\ DOMAIN Completed(answers) = DOMAIN clients
         /\ \A c \in DOMAIN clients :
              /\ Completed(answers)[c] \in Client
              /\ Completed(answers)[c].token =
                   IF clients[c].token \in DOMAIN answers THEN NoToken ELSE clients[c].token
<1>1. \A c \in DOMAIN clients : clients[c] \in Client
  BY DEF ControlInv, ClientsTyped
<1>2. \A c \in DOMAIN clients : clients[c].token \in DOMAIN answers =>
        /\ Responded(clients[c], answers[clients[c].token]) \in Client
        /\ Responded(clients[c], answers[clients[c].token]).token = NoToken
  BY <1>1, RespondedTyped
<1> QED
  BY <1>1, <1>2 DEF Completed

\* The connections that a frame accepts take free places.
LEMMA AdmitTyped ==
  ASSUME ControlInv, NEW served, DOMAIN served = DOMAIN clients,
         \A c \in DOMAIN clients : served[c] \in Client /\ served[c].token \in {NoToken, clients[c].token},
         Admit(served)
  PROVE  /\ ClientsTyped' /\ Places'
         /\ DOMAIN clients \subseteq DOMAIN clients'
         /\ \A c \in DOMAIN clients : clients'[c] = served[c]
         /\ \A c \in DOMAIN clients' \ DOMAIN clients : clients'[c].token = NoToken
<1> DEFINE free == MaxClients - Cardinality(DOMAIN served)
<1>1. PICK k \in 0..FrameAccepts :
        LET admitted == IF k <= free THEN k ELSE free
        IN  /\ arrived' = arrived + admitted
            /\ clients' = Merged([c \in arrived + 1..arrived + admitted |-> NewClient], served)
            /\ toserve' = DOMAIN clients'
  BY DEF Admit
<1> DEFINE admitted == IF k <= free THEN k ELSE free
           new == arrived + 1..arrived + admitted
<1>2. /\ Cardinality(DOMAIN clients) \in Nat /\ IsFiniteSet(DOMAIN clients)
      /\ Cardinality(DOMAIN clients) <= MaxClients
      /\ arrived \in Nat /\ DOMAIN clients \subseteq 1..arrived
  BY ClientsAreFinite DEF ControlInv, Places, ClientsTyped
<1>3. admitted \in Nat /\ admitted <= MaxClients - Cardinality(DOMAIN clients)
  BY <1>2, ControlAssumption
<1>4. /\ arrived' = arrived + admitted /\ toserve' = DOMAIN clients'
      /\ clients' = Merged([c \in new |-> NewClient], served)
  BY <1>1
<1> HIDE DEF admitted
<1>5. new \cap DOMAIN clients = {}
  BY <1>2, <1>3
<1>6. /\ DOMAIN clients' = new \cup DOMAIN clients
      /\ \A c \in new : clients'[c] = NewClient
      /\ \A c \in DOMAIN clients : clients'[c] = served[c]
  BY <1>4, <1>5 DEF Merged
<1>7. ClientsTyped'
  <2>1. DOMAIN clients' \subseteq 1..arrived' /\ arrived' \in Nat
    BY <1>2, <1>3, <1>4, <1>6
  <2>2. \A c \in DOMAIN clients' : clients'[c] \in Client
    BY <1>6, NewClientTyped
  <2> QED
    BY <1>4, <2>1, <2>2 DEF ClientsTyped
<1>8. Cardinality(DOMAIN clients') <= MaxClients
  <2>1. IsFiniteSet(new) /\ Cardinality(new) = admitted
    <3>1. arrived + 1 \in Int /\ arrived + admitted \in Int
      BY <1>2, <1>3
    <3>2. /\ IsFiniteSet(new)
          /\ Cardinality(new) = IF arrived + 1 > arrived + admitted THEN 0
                                ELSE (arrived + admitted) - (arrived + 1) + 1
      BY <3>1, FS_Interval
    <3> QED
      BY <1>2, <1>3, <3>2
  <2> HIDE DEF new
  <2>2. Cardinality(DOMAIN clients') = Cardinality(new) + Cardinality(DOMAIN clients) - Cardinality({})
    BY <1>2, <1>5, <1>6, <2>1, FS_Union
  <2> QED
    BY <1>2, <1>3, <2>1, <2>2, FS_EmptySet, ControlAssumption
<1>9. PendingCount' <= MaxPending
  <2>1. \A c \in DOMAIN clients' : clients'[c].token # NoToken =>
          c \in DOMAIN clients /\ clients[c].token # NoToken
    BY <1>6, NewClientTyped
  <2>2. {c \in DOMAIN clients' : clients'[c].token # NoToken}
          \subseteq {c \in DOMAIN clients : clients[c].token # NoToken}
    BY <2>1
  <2> QED
    BY <2>2, FewerPending DEF ControlInv, Places
<1> QED
  BY <1>6, <1>7, <1>8, <1>9, NewClientTyped DEF Places

\* What has been answered is neither waited for nor owned any more.
LEMMA AnsweredLinks ==
  ASSUME ControlInv, NEW ids \in SUBSET DOMAIN actions, next_id' = next_id,
         DOMAIN completed' = {},
         DOMAIN actions' = DOMAIN actions \ ids,
         DOMAIN clients \subseteq DOMAIN clients',
         \A c \in DOMAIN clients :
           clients'[c].token = IF clients[c].token \in ids \cup DOMAIN completed THEN NoToken
                               ELSE clients[c].token,
         \A c \in DOMAIN clients' \ DOMAIN clients : clients'[c].token = NoToken
  PROVE  IdsAreFresh' /\ PendingActionsAreOwned'
<1>1. next_id \in Nat /\ next_id > 0
  BY ControlAssumption DEF ControlInv, ActionsTyped
<1>2. \A c \in DOMAIN clients' : clients'[c].token < next_id'
  BY <1>1 DEF ControlInv, IdsAreFresh, NoToken
<1>3. IdsAreFresh'
  BY <1>2 DEF IdsAreFresh
<1>4. ASSUME NEW id \in DOMAIN actions'
      PROVE  \E c \in DOMAIN clients' : clients'[c].token = id
  <2>1. id \in DOMAIN actions /\ id \notin ids /\ id \notin DOMAIN completed
    BY <1>4 DEF ControlInv, IdsAreFresh
  <2>2. PICK c \in DOMAIN clients : clients[c].token = id
    BY <2>1 DEF ControlInv, PendingActionsAreOwned
  <2> QED
    BY <2>1, <2>2
<1>5. ASSUME NEW c \in DOMAIN clients', clients'[c].token # NoToken
      PROVE  /\ clients'[c].token \in DOMAIN actions'
             /\ \A d \in DOMAIN clients' \ {c} : clients'[d].token # clients'[c].token
  <2>1. /\ c \in DOMAIN clients /\ clients'[c].token = clients[c].token
        /\ clients[c].token \notin ids \cup DOMAIN completed
    BY <1>5
  <2>2. /\ clients[c].token \in DOMAIN actions \cup DOMAIN completed
        /\ \A d \in DOMAIN clients \ {c} : clients[d].token # clients[c].token
    BY <1>5, <2>1 DEF ControlInv, PendingActionsAreOwned, Pending
  <2> QED
    BY <1>5, <2>1, <2>2
<1> QED
  BY <1>3, <1>4, <1>5 DEF PendingActionsAreOwned, Pending

LEMMA AnswerPreserves == ControlInv /\ Answer => ControlInv'
<1> SUFFICES ASSUME ControlInv, Answer PROVE ControlInv'
  OBVIOUS
<1> DEFINE overdue == {id \in DOMAIN actions : actions[id].left = 0}
           answers == Merged([id \in overdue |-> "timeout"], completed)
           served  == Completed(answers)
<1>1. /\ Admit(served) /\ actions' = Remove(actions, overdue) /\ completed' = <<>>
      /\ phase \in {"idle", "events"} /\ phase' = "serve"
      /\ UNCHANGED <<next_id, coordinator, supervisor, quitting>>
  BY DEF Answer
<1>2. DOMAIN answers = overdue \cup DOMAIN completed /\ \A id \in DOMAIN answers : answers[id] \in Answers
  <2>1. "timeout" \in Answers
    BY DEF Answers
  <2> QED
    BY <2>1 DEF Merged, ControlInv, ActionsTyped
<1>3. overdue \in SUBSET DOMAIN actions
  OBVIOUS
<1>4. DOMAIN actions' = DOMAIN actions \ overdue /\ \A id \in DOMAIN actions' : actions'[id] = actions[id]
  BY <1>1 DEF Remove
<1> HIDE DEF overdue, answers
<1>5. /\ DOMAIN served = DOMAIN clients
      /\ \A c \in DOMAIN clients :
           /\ served[c] \in Client
           /\ served[c].token = IF clients[c].token \in DOMAIN answers THEN NoToken ELSE clients[c].token
  BY <1>2, CompletedTyped
<1> HIDE DEF served
<1>6. /\ ClientsTyped' /\ Places'
      /\ DOMAIN clients \subseteq DOMAIN clients'
      /\ \A c \in DOMAIN clients : clients'[c] = served[c]
      /\ \A c \in DOMAIN clients' \ DOMAIN clients : clients'[c].token = NoToken
  BY <1>1, <1>5, AdmitTyped
<1>7. DOMAIN completed' = {}
  BY <1>1
<1>8. IdsAreFresh' /\ PendingActionsAreOwned'
  <2>1. \A c \in DOMAIN clients :
          clients'[c].token = IF clients[c].token \in overdue \cup DOMAIN completed THEN NoToken
                              ELSE clients[c].token
    BY <1>2, <1>5, <1>6
  <2>2. DOMAIN actions' = DOMAIN actions \ overdue
    BY <1>4
  <2> QED
    BY <1>1, <1>3, <1>6, <1>7, <2>1, <2>2, AnsweredLinks
<1>9. ActionsTyped' /\ WaitsForSameProcess' /\ CoordinatorTyped'
  BY <1>1, <1>4, <1>7 DEF ControlInv, ActionsTyped, WaitsForSameProcess, CoordinatorTyped, coordinator
<1>10. SupervisorTyped' /\ EndIsQuiet'
  BY <1>1, <1>4, UnchangedSupervisor DEF ControlInv, EndIsQuiet
<1> QED
  BY <1>6, <1>8, <1>9, <1>10 DEF ControlInv

LEMMA QuitPreserves == ControlInv /\ Quit => ControlInv'
<1> SUFFICES ASSUME ControlInv, Quit PROVE ControlInv'
  OBVIOUS
<1> DEFINE answers == Merged([id \in DOMAIN actions |-> "cancelled"], completed)
           served  == Completed(answers)
<1>1. /\ Admit(served) /\ actions' = <<>> /\ completed' = <<>>
      /\ phase' = "serve" /\ quitting' = TRUE
      /\ UNCHANGED <<next_id, coordinator, supervisor>>
  BY DEF Quit
<1>2. /\ DOMAIN answers = DOMAIN actions \cup DOMAIN completed
      /\ \A id \in DOMAIN answers : answers[id] \in Answers
  <2>1. "cancelled" \in Answers
    BY DEF Answers
  <2> QED
    BY <2>1 DEF Merged, ControlInv, ActionsTyped
<1> HIDE DEF answers
<1>3. /\ DOMAIN served = DOMAIN clients
      /\ \A c \in DOMAIN clients :
           /\ served[c] \in Client
           /\ served[c].token = IF clients[c].token \in DOMAIN answers THEN NoToken ELSE clients[c].token
  BY <1>2, CompletedTyped
<1> HIDE DEF served
<1>4. /\ ClientsTyped' /\ Places'
      /\ DOMAIN clients \subseteq DOMAIN clients'
      /\ \A c \in DOMAIN clients : clients'[c] = served[c]
      /\ \A c \in DOMAIN clients' \ DOMAIN clients : clients'[c].token = NoToken
  BY <1>1, <1>3, AdmitTyped
<1>5. DOMAIN completed' = {} /\ DOMAIN actions' = {} /\ DOMAIN actions \in SUBSET DOMAIN actions
  BY <1>1
<1>6. IdsAreFresh' /\ PendingActionsAreOwned'
  BY <1>1, <1>2, <1>3, <1>4, <1>5, AnsweredLinks
<1>7. ActionsTyped' /\ WaitsForSameProcess' /\ CoordinatorTyped'
  BY <1>1, <1>5 DEF ControlInv, ActionsTyped, WaitsForSameProcess, CoordinatorTyped, coordinator
<1>8. SupervisorTyped' /\ EndIsQuiet'
  BY <1>1, <1>5, UnchangedSupervisor DEF EndIsQuiet
<1> QED
  BY <1>4, <1>6, <1>7, <1>8 DEF ControlInv

--------------------------------------------------------------------------------
(* Requests.                                                                     *)

\* A visit that touches the connection only.
LEMMA VisitedPreserves ==
  ASSUME ControlInv, NEW c \in DOMAIN clients, NEW client \in Client,
         client.token = clients[c].token, Visited(c, client),
         toserve' = toserve \ {c}, UNCHANGED <<arrived, phase, quitting>>
  PROVE  ControlInv'
<1>1. /\ clients' = [clients EXCEPT ![c] = client]
      /\ UNCHANGED <<dispatcher, coordinator, supervisor>>
  BY DEF Visited
<1>2. ClientsTyped' /\ Places' /\ SameTokens
  BY <1>1, VisitTyped
<1>3. UNCHANGED <<actions, completed, next_id>>
  BY <1>1 DEF dispatcher
<1>4. IdsAreFresh' /\ PendingActionsAreOwned' /\ WaitsForSameProcess'
  BY <1>1, <1>2, <1>3, LinksKept
<1>5. ActionsTyped' /\ CoordinatorTyped' /\ EndIsQuiet'
  BY <1>1, <1>3 DEF ControlInv, ActionsTyped, CoordinatorTyped, EndIsQuiet, coordinator
<1> QED
  BY <1>1, <1>2, <1>4, <1>5, UnchangedSupervisor DEF ControlInv

\* restart() and reload: the actions they end, and the command they submit.
LEMMA RestartTracks ==
  ASSUME ControlInv, SameTokens, NEW c, NEW i \in Instances, ReadRestart(c, i)
  PROVE  Tracking /\ SupervisorTyped'
<1>1. "cancelled" \in Answers /\ Waiting(i, Generations) \in SUBSET DOMAIN actions
  BY WaitingActions DEF Answers
<1>2. /\ Complete(Waiting(i, Generations), "cancelled") /\ Len(commands) < MaxCommands
      /\ commands' = Append(commands, [kind |-> "replace", instances |-> {i}])
      /\ UNCHANGED <<next_id, coordinator, events, process, generation>>
  BY DEF ReadRestart
<1>3. /\ ActionsTyped' /\ IdsAreFresh' /\ PendingActionsAreOwned'
      /\ DOMAIN actions' \subseteq DOMAIN actions
      /\ \A id \in DOMAIN actions' : actions'[id] = actions[id]
  BY <1>1, <1>2, CompleteTracks
<1>4. CoordinatorTyped' /\ WaitsForSameProcess'
  BY <1>2, <1>3 DEF ControlInv, CoordinatorTyped, WaitsForSameProcess, coordinator
<1>5. [kind |-> "replace", instances |-> {i}] \in Command
  BY DEF Command
<1>6. /\ commands' \in Seq(Command) /\ Len(commands') = Len(commands) + 1
      /\ Len(commands) \in Nat
  BY <1>2, <1>5, AppendProperties, LenProperties DEF ControlInv, SupervisorTyped
<1>7. SupervisorTyped'
  BY <1>2, <1>6, ControlAssumption DEF ControlInv, SupervisorTyped
<1> QED
  BY <1>3, <1>4, <1>7 DEF Tracking

LEMMA ReloadedTracks ==
  ASSUME ControlInv, SameTokens, NEW replaced \in SUBSET Instances,
         NEW cancelled \in SUBSET DOMAIN actions, Reloaded(replaced, cancelled)
  PROVE  Tracking /\ SupervisorTyped'
<1> DEFINE ids == cancelled \cup Replaced(replaced)
<1>1. "cancelled" \in Answers /\ ids \in SUBSET DOMAIN actions
  <2>1. Replaced(replaced) \subseteq DOMAIN actions
    BY DEF Replaced, Waiting
  <2> QED
    BY <2>1 DEF Answers
<1>2. /\ Complete(ids, "cancelled") /\ Len(commands) < MaxCommands
      /\ commands' = IF replaced = {} THEN commands
                     ELSE Append(commands, [kind |-> "replace", instances |-> replaced])
      /\ ready' = ready \ replaced
      /\ UNCHANGED <<next_id, known, events, process, generation>>
  BY DEF Reloaded
<1> HIDE DEF ids
<1>3. /\ ActionsTyped' /\ IdsAreFresh' /\ PendingActionsAreOwned'
      /\ DOMAIN actions' = DOMAIN actions \ ids
      /\ \A id \in DOMAIN actions' : actions'[id] = actions[id]
  BY <1>1, <1>2, CompleteTracks
<1>4. WaitsForSameProcess'
  <2> SUFFICES ASSUME NEW id \in DOMAIN actions'
               PROVE  actions'[id].instance \in ready' /\ known'[actions'[id].instance] = actions'[id].generation
    BY DEF WaitsForSameProcess
  <2>1. /\ id \in DOMAIN actions /\ id \notin ids /\ actions'[id] = actions[id]
        /\ actions[id].instance \in ready /\ known[actions[id].instance] = actions[id].generation
    BY <1>3 DEF ControlInv, WaitsForSameProcess
  <2>2. actions[id].instance \notin replaced
    BY <2>1 DEF ids, Replaced, Waiting
  <2> QED
    BY <1>2, <2>1, <2>2
<1>5. CoordinatorTyped'
  BY <1>2 DEF ControlInv, CoordinatorTyped
<1>6. [kind |-> "replace", instances |-> replaced] \in Command
  BY DEF Command
<1>7. commands \in Seq(Command) /\ Len(commands) \in Nat /\ Len(commands) <= MaxCommands
  BY LenProperties DEF ControlInv, SupervisorTyped
<1>8. commands' \in Seq(Command) /\ Len(commands') <= MaxCommands
  <2>1. /\ Append(commands, [kind |-> "replace", instances |-> replaced]) \in Seq(Command)
        /\ Len(Append(commands, [kind |-> "replace", instances |-> replaced])) = Len(commands) + 1
    BY <1>6, <1>7, AppendProperties
  <2> QED
    BY <1>2, <1>7, <2>1, ControlAssumption
<1>9. SupervisorTyped'
  BY <1>2, <1>8 DEF ControlInv, SupervisorTyped
<1> QED
  BY <1>3, <1>4, <1>5, <1>9 DEF Tracking

\* action(): who asks waits for an id that nobody waited for.
LEMMA ReadActionPreserves ==
  ASSUME ControlInv, NEW c \in DOMAIN clients, NEW i \in Instances, ReadAction(c, i), Reading(c),
         ~quitting, toserve' = toserve \ {c}, UNCHANGED <<arrived, phase, quitting>>
  PROVE  ControlInv'
<1>1. /\ clients[c] \in Client /\ clients[c].token = NoToken
      /\ next_id \in Nat /\ next_id > 0 /\ next_id <= MaxInvocations /\ next_id' = next_id + 1
      /\ i \in ready /\ known[i] \in Generations /\ MaxInvocations \in Nat
  <2>1. clients[c] \in Client /\ clients[c].token = NoToken
    BY DEF ControlInv, ClientsTyped, Reading, Pending
  <2>2. MaxInvocations \in Nat /\ MaxGeneration \in Nat
    BY ControlAssumption
  <2>3. next_id \in Nat /\ next_id > 0 /\ next_id <= MaxInvocations /\ next_id' = next_id + 1
    BY <2>2 DEF ControlInv, ActionsTyped, ReadAction
  <2>4. i \in ready /\ known[i] \in 0..MaxGeneration /\ known[i] # 0
    BY DEF ControlInv, CoordinatorTyped, ReadAction
  <2>5. known[i] \in Generations
    BY <2>2, <2>4 DEF Generations
  <2> QED
    BY <2>1, <2>2, <2>3, <2>4, <2>5
<1>2. UNCHANGED <<completed, coordinator, events, process, generation>>
  BY DEF ReadAction
<1>3. SupervisorTyped' /\ CoordinatorTyped'
  <2> DEFINE command == [kind |-> "action", instance |-> i, generation |-> known[i], id |-> next_id]
  <2>1. command \in Command
    BY <1>1 DEF Command
  <2> HIDE DEF command
  <2>2. commands \in Seq(Command) /\ Len(commands) \in Nat /\ Len(commands) <= MaxCommands
    BY LenProperties DEF ControlInv, SupervisorTyped
  <2>3. Append(commands, command) \in Seq(Command) /\ Len(Append(commands, command)) = Len(commands) + 1
    BY <2>1, <2>2, AppendProperties
  <2>4. commands' = IF Len(commands) = MaxCommands THEN commands ELSE Append(commands, command)
    BY DEF ReadAction, command
  <2>5. commands' \in Seq(Command) /\ Len(commands') <= MaxCommands
    BY <2>2, <2>3, <2>4, ControlAssumption
  <2> QED
    BY <1>2, <2>5 DEF ControlInv, SupervisorTyped, CoordinatorTyped, coordinator
<1>4. CASE UNCHANGED actions /\ \E client \in Written(Responded(clients[c], "sync")) :
                                   clients' = [clients EXCEPT ![c] = client]
  <2>1. PICK client \in Written(Responded(clients[c], "sync")) :
          clients' = [clients EXCEPT ![c] = client]
    BY <1>4
  <2>2. "sync" \in Answers
    BY DEF Answers
  <2>3. client \in Client /\ client.token = clients[c].token
    BY <1>1, <2>2, RespondedTyped, WrittenTyped
  <2>4. ClientsTyped' /\ Places' /\ SameTokens
    BY <2>1, <2>3, VisitTyped
  <2>5. ActionsTyped'
    BY <1>1, <1>2, <1>4 DEF ControlInv, ActionsTyped
  <2>6. IdsAreFresh'
    BY <1>1, <1>2, <1>4, <2>4 DEF ControlInv, IdsAreFresh, SameTokens, Client, ClientsTyped
  <2>7. PendingActionsAreOwned' /\ WaitsForSameProcess' /\ EndIsQuiet'
    BY <1>2, <1>4, <2>4
       DEF ControlInv, PendingActionsAreOwned, Pending, SameTokens, WaitsForSameProcess, EndIsQuiet, coordinator
  <2> QED
    BY <1>3, <2>4, <2>5, <2>6, <2>7 DEF ControlInv
<1>5. CASE /\ ~TooManyPending
           /\ actions' = Put(actions, next_id, [instance |-> i, generation |-> known[i], left |-> Unset])
           /\ clients' = [clients EXCEPT ![c] = Deferred(@, next_id)]
  <2> DEFINE client == Deferred(clients[c], next_id)
             action == [instance |-> i, generation |-> known[i], left |-> Unset]
  <2>1. client \in Client /\ client.token = next_id
    <3>1. next_id \in 0..MaxInvocations /\ PendingTimeout \in {Unset} \cup 0..PhaseTimeout \cup 0..PendingTimeout
      BY <1>1, ControlAssumption
    <3>2. client = [clients[c] EXCEPT !.token = next_id, !.asked = next_id, !.left = PendingTimeout]
      BY DEF Deferred
    <3> QED
      BY <1>1, <3>1, <3>2 DEF Client
  <2>2. action \in ActionRecord
    BY <1>1 DEF ActionRecord
  <2>3. /\ DOMAIN actions' = DOMAIN actions \cup {next_id} /\ actions'[next_id] = action
        /\ \A id \in DOMAIN actions \ {next_id} : actions'[id] = actions[id]
    BY <1>5 DEF Put, Merged
  <2>4. next_id \notin DOMAIN actions
    BY <1>1 DEF ControlInv, ActionsTyped
  <2> HIDE DEF action, client
  <2>5. /\ DOMAIN clients' = DOMAIN clients /\ clients'[c] = client
        /\ \A d \in DOMAIN clients \ {c} : clients'[d] = clients[d]
    BY <1>5 DEF client
  <2>6. ClientsTyped'
    BY <2>1, <2>5 DEF ControlInv, ClientsTyped
  <2>7. PendingCount' <= MaxPending
    <3> DEFINE old == {d \in DOMAIN clients : clients[d].token # NoToken}
               new == {d \in DOMAIN clients' : clients'[d].token # NoToken}
    <3>1. IsFiniteSet(old) /\ Cardinality(old) \in Nat
      BY ClientsAreFinite DEF ControlInv
    <3>2. new = old \cup {c} /\ c \notin old
      BY <1>1, <2>1, <2>5 DEF NoToken
    <3> HIDE DEF old, new
    <3>3. Cardinality(new) = Cardinality(old) + 1
      BY <3>1, <3>2, FS_AddElement
    <3>4. PendingCount = Cardinality(old) /\ PendingCount' = Cardinality(new)
      BY DEF PendingCount, Pending, old, new
    <3> QED
      BY <1>5, <3>1, <3>3, <3>4, ControlAssumption DEF TooManyPending
  <2>8. Places'
    BY <2>5, <2>7 DEF ControlInv, Places
  <2>9. ActionsTyped'
    BY <1>1, <1>2, <2>2, <2>3 DEF ControlInv, ActionsTyped
  <2>10. IdsAreFresh'
    <3>1. \A d \in DOMAIN clients' : clients'[d].token < next_id'
      BY <1>1, <2>1, <2>5 DEF ControlInv, IdsAreFresh, ClientsTyped, Client
    <3>2. \A id \in DOMAIN completed : id # next_id
      BY <1>1 DEF ControlInv, IdsAreFresh
    <3> QED
      BY <1>1, <1>2, <2>3, <3>1, <3>2 DEF ControlInv, IdsAreFresh
  <2>11. PendingActionsAreOwned'
    <3>1. \A d \in DOMAIN clients : clients[d].token # next_id
      BY <1>1 DEF ControlInv, IdsAreFresh, ClientsTyped, Client
    <3>2. \A id \in DOMAIN actions' : \E d \in DOMAIN clients' : clients'[d].token = id
      <4> SUFFICES ASSUME NEW id \in DOMAIN actions' PROVE \E d \in DOMAIN clients' : clients'[d].token = id
        OBVIOUS
      <4>1. CASE id = next_id
        BY <2>1, <2>5, <4>1
      <4>2. CASE id \in DOMAIN actions
        <5>1. PICK d \in DOMAIN clients : clients[d].token = id
          BY <4>2 DEF ControlInv, PendingActionsAreOwned
        <5>2. d # c
          BY <1>1, <4>2, <5>1 DEF ControlInv, ActionsTyped, NoToken
        <5> QED
          BY <2>5, <5>1, <5>2
      <4> QED
        BY <2>3, <4>1, <4>2
    <3>3. ASSUME NEW d \in DOMAIN clients', clients'[d].token # NoToken
          PROVE  /\ clients'[d].token \in DOMAIN actions' \cup DOMAIN completed'
                 /\ \A e \in DOMAIN clients' \ {d} : clients'[e].token # clients'[d].token
      <4>1. CASE d = c
        BY <2>1, <2>3, <2>5, <3>1, <4>1
      <4>2. CASE d # c
        BY <1>1, <1>2, <2>1, <2>3, <2>5, <3>1, <3>3, <4>2 DEF ControlInv, PendingActionsAreOwned, Pending
      <4> QED
        BY <4>1, <4>2
    <3> QED
      BY <3>2, <3>3 DEF PendingActionsAreOwned, Pending
  <2>12. WaitsForSameProcess' /\ EndIsQuiet'
    BY <1>1, <1>2, <2>3 DEF ControlInv, WaitsForSameProcess, EndIsQuiet, coordinator, action
  <2> QED
    BY <1>3, <2>6, <2>8, <2>9, <2>10, <2>11, <2>12 DEF ControlInv
<1> QED
  BY <1>4, <1>5 DEF ReadAction

LEMMA ServePreserves == ControlInv /\ Serve => ControlInv'
<1> SUFFICES ASSUME ControlInv, Serve PROVE ControlInv'
  OBVIOUS
<1>1. PICK c \in toserve :
        /\ ServeLate(c) \/ ServePending(c) \/ ServeAnswering(c) \/ ServeReading(c)
        /\ toserve' = toserve \ {c}
  BY DEF Serve
<1>2. /\ UNCHANGED <<arrived, phase, quitting>> /\ c \in DOMAIN clients /\ clients[c] \in Client
  BY DEF Serve, ControlInv, ClientsTyped
<1>3. {"closed", "late"} \subseteq Endings /\ "sync" \in Answers
  BY DEF Endings, Answers
<1>4. ASSUME NEW ending \in {"closed", "late"}, Closing(c, ending) PROVE ControlInv'
  <2>1. /\ [clients[c] EXCEPT !.close = ending] \in Client
        /\ [clients[c] EXCEPT !.close = ending].token = clients[c].token
    BY <1>2, <1>3, ClosedTyped
  <2> QED
    BY <1>1, <1>2, <1>4, <2>1, VisitedPreserves DEF Closing
<1>5. ASSUME Visited(c, clients[c]) PROVE ControlInv'
  BY <1>1, <1>2, <1>5, VisitedPreserves
<1>6. ASSUME NEW client \in Written(clients[c]), Visited(c, client) PROVE ControlInv'
  BY <1>1, <1>2, <1>6, WrittenTyped, VisitedPreserves
<1>7. ASSUME Reading(c), NEW client \in Written(Responded(clients[c], "sync"))
      PROVE  client \in Client /\ client.token = clients[c].token
  BY <1>2, <1>3, <1>7, RespondedTyped, WrittenTyped DEF Reading, Pending
<1>8. ASSUME Reading(c), ReadSync(c) PROVE ControlInv'
  BY <1>1, <1>2, <1>7, <1>8, VisitedPreserves DEF ReadSync
<1>9. ASSUME Reading(c), ~quitting, Tracking, SupervisorTyped',
             \E client \in Written(Responded(clients[c], "sync")) : clients' = [clients EXCEPT ![c] = client]
      PROVE  ControlInv'
  <2>1. PICK client \in Written(Responded(clients[c], "sync")) : clients' = [clients EXCEPT ![c] = client]
    BY <1>9
  <2>2. ClientsTyped' /\ Places'
    BY <1>1, <1>2, <1>7, <1>9, <2>1, VisitTyped
  <2> QED
    BY <1>2, <1>9, <2>2 DEF ControlInv, Tracking, EndIsQuiet
<1>10. ASSUME Reading(c),
              \E client \in Written(Responded(clients[c], "sync")) : clients' = [clients EXCEPT ![c] = client]
       PROVE  SameTokens
  BY <1>1, <1>2, <1>7, <1>10, VisitTyped
<1>11. ASSUME Reading(c), ~quitting, NEW i \in Instances, ReadRestart(c, i) PROVE ControlInv'
  <2>1. \E client \in Written(Responded(clients[c], "sync")) : clients' = [clients EXCEPT ![c] = client]
    BY <1>11 DEF ReadRestart
  <2> QED
    BY <1>9, <1>10, <1>11, <2>1, RestartTracks
<1>12. ASSUME Reading(c), ~quitting, ReadReload(c) PROVE ControlInv'
  <2>1. \E client \in Written(Responded(clients[c], "sync")) : clients' = [clients EXCEPT ![c] = client]
    BY <1>12 DEF ReadReload
  <2>2. DOMAIN actions \in SUBSET DOMAIN actions
    OBVIOUS
  <2>3. PICK replaced \in SUBSET Instances : Reloaded(replaced, DOMAIN actions)
    BY <1>12 DEF ReadReload
  <2>4. Tracking /\ SupervisorTyped'
    BY <1>10, <1>12, <2>1, <2>2, <2>3, ReloadedTracks
  <2> QED
    BY <1>9, <1>12, <2>1, <2>4
<1>13. CASE ServeLate(c)
  BY <1>4, <1>13 DEF ServeLate
<1>14. CASE ServePending(c)
  BY <1>4, <1>5, <1>14 DEF ServePending
<1>15. CASE ServeAnswering(c)
  BY <1>6, <1>15 DEF ServeAnswering
<1>16. CASE ServeReading(c)
  BY <1>1, <1>2, <1>4, <1>5, <1>8, <1>11, <1>12, <1>16, ReadActionPreserves DEF ServeReading, ReadPart
<1> QED
  BY <1>1, <1>13, <1>14, <1>15, <1>16

--------------------------------------------------------------------------------
(* The end of a frame, and what happens between two.                             *)

LEMMA EndAdvancePreserves == ControlInv /\ EndAdvance => ControlInv'
<1> SUFFICES ASSUME ControlInv, EndAdvance PROVE ControlInv'
  OBVIOUS
<1> DEFINE closed == {c \in DOMAIN clients : clients[c].close # "no"}
<1>1. /\ actions' = Remove(actions, TokensOf(closed))
      /\ clients' = IF quitting THEN <<>> ELSE Remove(clients, closed)
      /\ phase' = IF quitting THEN "done" ELSE "idle"
      /\ toserve = {} /\ toserve' = toserve
      /\ UNCHANGED <<arrived, completed, next_id, coordinator, supervisor, quitting>>
  BY DEF EndAdvance
<1>2. DOMAIN actions' = DOMAIN actions \ TokensOf(closed) /\ \A id \in DOMAIN actions' : actions'[id] = actions[id]
  BY <1>1 DEF Remove
<1>3. /\ DOMAIN clients' = IF quitting THEN {} ELSE DOMAIN clients \ closed
      /\ \A c \in DOMAIN clients' : clients'[c] = clients[c]
  BY <1>1 DEF Remove
<1>4. \A c \in DOMAIN clients : c \in closed => clients[c].token \in TokensOf(closed)
  BY DEF TokensOf
<1>5. \A token \in TokensOf(closed) : \E c \in closed : clients[c].token = token
  BY DEF TokensOf
<1> HIDE DEF closed
<1>6. ClientsTyped'
  BY <1>1, <1>3 DEF ControlInv, ClientsTyped
<1>7. Places'
  <2>1. DOMAIN clients' \in SUBSET DOMAIN clients
    BY <1>3
  <2>2. Cardinality(DOMAIN clients') <= Cardinality(DOMAIN clients) /\ Cardinality(DOMAIN clients') \in Nat
        /\ Cardinality(DOMAIN clients) \in Nat
    BY <2>1, ClientsAreFinite DEF ControlInv
  <2>3. PendingCount' <= MaxPending
    BY <1>3, <2>1, FewerPending DEF ControlInv, Places
  <2> QED
    BY <2>2, <2>3, ControlAssumption DEF ControlInv, Places
<1>8. ActionsTyped' /\ IdsAreFresh' /\ CoordinatorTyped' /\ WaitsForSameProcess'
  BY <1>1, <1>2, <1>3
     DEF ControlInv, ActionsTyped, IdsAreFresh, CoordinatorTyped, WaitsForSameProcess, coordinator
<1>9. PendingActionsAreOwned'
  <2>1. CASE quitting
    BY <1>2, <1>3, <2>1 DEF ControlInv, EndIsQuiet, PendingActionsAreOwned
  <2>2. CASE ~quitting
    <3>1. ASSUME NEW id \in DOMAIN actions'
          PROVE  \E c \in DOMAIN clients' : clients'[c].token = id
      <4>1. PICK c \in DOMAIN clients : clients[c].token = id
        BY <1>2, <3>1 DEF ControlInv, PendingActionsAreOwned
      <4>2. c \notin closed
        BY <1>2, <1>4, <3>1, <4>1
      <4> QED
        BY <1>3, <2>2, <4>1, <4>2
    <3>2. ASSUME NEW c \in DOMAIN clients', clients'[c].token # NoToken
          PROVE  /\ clients'[c].token \in DOMAIN actions' \cup DOMAIN completed'
                 /\ \A d \in DOMAIN clients' \ {c} : clients'[d].token # clients'[c].token
      <4>1. /\ c \in DOMAIN clients /\ c \notin closed /\ clients'[c].token = clients[c].token
            /\ clients[c].token \in DOMAIN actions \cup DOMAIN completed
            /\ \A d \in DOMAIN clients \ {c} : clients[d].token # clients[c].token
        BY <1>3, <2>2, <3>2 DEF ControlInv, PendingActionsAreOwned, Pending
      <4>2. clients[c].token \notin TokensOf(closed)
        <5>1. \A d \in closed : d \in DOMAIN clients
          BY DEF closed
        <5> QED
          BY <1>5, <4>1, <5>1
      <4> QED
        BY <1>1, <1>2, <1>3, <4>1, <4>2
    <3> QED
      BY <3>1, <3>2 DEF PendingActionsAreOwned, Pending
  <2> QED
    BY <2>1, <2>2
<1>10. EndIsQuiet'
  BY <1>1, <1>2 DEF ControlInv, EndIsQuiet
<1> QED
  BY <1>1, <1>6, <1>7, <1>8, <1>9, <1>10, UnchangedSupervisor DEF ControlInv

LEMMA AutomaticReloadPreserves == ControlInv /\ AutomaticReload => ControlInv'
<1> SUFFICES ASSUME ControlInv, AutomaticReload PROVE ControlInv'
  OBVIOUS
<1>1. ClientsTyped' /\ Places' /\ SameTokens
  BY UnchangedServer DEF AutomaticReload
<1>2. PICK replaced \in SUBSET Instances : Reloaded(replaced, {})
  BY DEF AutomaticReload
<1>3. Tracking /\ SupervisorTyped'
  BY <1>1, <1>2, ReloadedTracks
<1> QED
  BY <1>1, <1>3 DEF AutomaticReload, ControlInv, Tracking, EndIsQuiet

LEMMA TickPreserves == ControlInv /\ Tick => ControlInv'
<1> SUFFICES ASSUME ControlInv, Tick PROVE ControlInv'
  OBVIOUS
<1>1. \A left \in {Unset} \cup 0..ActionTimeout : Passed(left) \in {Unset} \cup 0..ActionTimeout
  BY ControlAssumption DEF Passed, Unset
<1>2. \A left \in {Unset} \cup 0..PhaseTimeout \cup 0..PendingTimeout :
        Passed(left) \in {Unset} \cup 0..PhaseTimeout \cup 0..PendingTimeout
  BY ControlAssumption DEF Passed, Unset
<1>3. \A left \in 0..ActionTimeout : Passed(left) \in 0..ActionTimeout
  BY ControlAssumption DEF Passed
<1>4. /\ clients' = [c \in DOMAIN clients |-> [clients[c] EXCEPT !.left = Passed(@)]]
      /\ actions' = [id \in DOMAIN actions |-> [actions[id] EXCEPT !.left = Passed(@)]]
      /\ events' = [k \in DOMAIN events |->
                      IF events[k].kind = "delivery" THEN [events[k] EXCEPT !.left = Passed(@)]
                      ELSE events[k]]
      /\ UNCHANGED <<arrived, toserve, completed, next_id, coordinator, commands, process,
                     generation, phase, quitting>>
  BY DEF Tick
<1>5. ClientsTyped' /\ SameTokens
  <2>1. \A client \in Client : /\ [client EXCEPT !.left = Passed(@)] \in Client
                              /\ [client EXCEPT !.left = Passed(@)].token = client.token
    BY <1>2 DEF Client
  <2> QED
    BY <1>4, <2>1 DEF ControlInv, ClientsTyped, SameTokens
<1>6. Places'
  BY <1>5, FewerPending DEF ControlInv, Places, SameTokens
<1>7. /\ ActionsTyped' /\ DOMAIN actions' = DOMAIN actions
      /\ \A id \in DOMAIN actions : /\ actions'[id].instance = actions[id].instance
                                    /\ actions'[id].generation = actions[id].generation
  <2>1. \A action \in ActionRecord :
          /\ [action EXCEPT !.left = Passed(@)] \in ActionRecord
          /\ [action EXCEPT !.left = Passed(@)].instance = action.instance
          /\ [action EXCEPT !.left = Passed(@)].generation = action.generation
    BY <1>1 DEF ActionRecord
  <2> QED
    BY <1>4, <2>1 DEF ControlInv, ActionsTyped
<1>8. IdsAreFresh' /\ PendingActionsAreOwned' /\ WaitsForSameProcess'
  BY <1>4, <1>5, <1>7, LinksKept
<1>9. CoordinatorTyped' /\ EndIsQuiet'
  BY <1>4, <1>7 DEF ControlInv, CoordinatorTyped, EndIsQuiet, coordinator
<1>10. SupervisorTyped'
  <2> DEFINE aged(event) == IF event.kind = "delivery" THEN [event EXCEPT !.left = Passed(@)] ELSE event
  <2>1. \A event \in EventRecord : aged(event) \in EventRecord
    BY <1>3 DEF EventRecord
  <2>2. events \in Seq(EventRecord) /\ Len(events) \in Nat /\ DOMAIN events = 1..Len(events)
    BY LenProperties DEF ControlInv, SupervisorTyped
  <2>3. \A k \in 1..Len(events) : events[k] \in EventRecord
    BY <2>2, ElementOfSeq
  <2> HIDE DEF aged
  <2>4. events' = [k \in 1..Len(events) |-> aged(events[k])]
    BY <1>4, <2>2 DEF aged
  <2>5. events' \in [1..Len(events) -> EventRecord]
    BY <2>1, <2>3, <2>4
  <2>6. events' \in Seq(EventRecord) /\ Len(events') = Len(events)
    BY <2>2, <2>5
  <2> QED
    BY <1>4, <2>6 DEF ControlInv, SupervisorTyped
<1> QED
  BY <1>5, <1>6, <1>7, <1>8, <1>9, <1>10 DEF ControlInv

--------------------------------------------------------------------------------
(* The supervisor.                                                               *)

LEMMA EmitPreserves ==
  ASSUME ControlInv, NEW new \in Seq(EventRecord), Emit(new),
         commands' \in Seq(Command), Len(commands') <= MaxCommands,
         generation' \in [Instances -> 0..MaxGeneration],
         process' \in [Instances -> {"absent", "starting", "running"}],
         \A i \in Instances : process'[i] # "absent" => generation'[i] # 0
  PROVE  ControlInv'
<1>1. /\ Len(events) + Len(new) <= MaxQueue /\ events' = events \o new
      /\ UNCHANGED <<server, dispatcher, coordinator, phase, quitting>>
  BY DEF Emit
<1>2. SupervisorTyped'
  BY <1>1, ConcatProperties DEF ControlInv, SupervisorTyped
<1>3. ClientsTyped' /\ Places' /\ SameTokens
  BY <1>1, UnchangedServer
<1>4. UNCHANGED <<actions, completed, next_id>>
  BY <1>1 DEF dispatcher
<1>5. IdsAreFresh' /\ PendingActionsAreOwned' /\ WaitsForSameProcess'
  BY <1>1, <1>3, <1>4, LinksKept
<1>6. ActionsTyped' /\ CoordinatorTyped' /\ EndIsQuiet'
  BY <1>1, <1>4 DEF ControlInv, ActionsTyped, CoordinatorTyped, EndIsQuiet, coordinator
<1> QED
  BY <1>2, <1>3, <1>5, <1>6 DEF ControlInv

LEMMA SupervisorState ==
  ASSUME ControlInv
  PROVE  /\ commands \in Seq(Command) /\ Len(commands) \in Nat /\ Len(commands) <= MaxCommands
         /\ generation \in [Instances -> 0..MaxGeneration]
         /\ process \in [Instances -> {"absent", "starting", "running"}]
         /\ \A i \in Instances : process[i] # "absent" => generation[i] # 0
         /\ MaxGeneration \in Nat
  BY LenProperties, ControlAssumption DEF ControlInv, SupervisorTyped

\* The queue without its first command, and with what is left of it in its place.
LEMMA CommandTaken ==
  ASSUME ControlInv, commands # <<>>
  PROVE  /\ Head(commands) \in Command
         /\ Tail(commands) \in Seq(Command) /\ Len(Tail(commands)) <= MaxCommands
         /\ \A command \in Command : /\ <<command>> \o Tail(commands) \in Seq(Command)
                                     /\ Len(<<command>> \o Tail(commands)) <= MaxCommands
<1>1. Head(commands) \in Command /\ Tail(commands) \in Seq(Command) /\ Len(Tail(commands)) = Len(commands) - 1
  BY SupervisorState, HeadTailProperties
<1>2. ASSUME NEW command \in Command
      PROVE  /\ <<command>> \o Tail(commands) \in Seq(Command)
             /\ Len(<<command>> \o Tail(commands)) = Len(commands)
  <2>1. <<command>> \in Seq(Command) /\ Len(<<command>>) = 1
    OBVIOUS
  <2> QED
    BY <1>1, <2>1, SupervisorState, ConcatProperties
<1> QED
  BY <1>1, <1>2, SupervisorState, ControlAssumption

LEMMA EventTyped ==
  ASSUME ControlInv, NEW i \in Instances, process[i] # "absent",
         NEW kind \in {"started", "ready", "removed"}
  PROVE  Event(kind, i) \in EventRecord
<1>1. generation[i] \in Generations
  BY SupervisorState DEF Generations
<1> QED
  BY <1>1 DEF Event, EventRecord

LEMMA EventsTyped ==
  /\ \A first \in EventRecord : <<first>> \in Seq(EventRecord)
  /\ \A first, second \in EventRecord : <<first, second>> \in Seq(EventRecord)
  OBVIOUS

LEMMA GoneTyped ==
  ASSUME ControlInv, NEW i \in Instances
  PROVE  Gone(i) \in Seq(EventRecord)
<1>1. CASE process[i] = "absent"
  BY <1>1, EmptySeq DEF Gone
<1>2. CASE process[i] # "absent"
  <2>1. Event("removed", i) \in EventRecord
    BY <1>2, EventTyped
  <2>2. <<Event("removed", i)>> \in Seq(EventRecord)
    BY <2>1
  <2> QED
    BY <1>2, <2>2 DEF Gone
<1> QED
  BY <1>1, <1>2

LEMMA HandleActionPreserves == ControlInv /\ HandleAction => ControlInv'
<1> SUFFICES ASSUME ControlInv, HandleAction PROVE ControlInv'
  OBVIOUS
<1> DEFINE command == Head(commands)
           i == command.instance
<1>1. commands # <<>> /\ command.kind = "action" /\ commands' = Tail(commands) /\ UNCHANGED generation
  BY DEF HandleAction
<1>2. command \in Command /\ commands' \in Seq(Command) /\ Len(commands') <= MaxCommands
  BY <1>1, CommandTaken
<1>3. command.instance \in Instances /\ command.generation \in Generations /\ command.id \in Nat
  BY <1>1, <1>2 DEF Command
<1>4. \A succeeded \in BOOLEAN : Delivery(command, succeeded) \in EventRecord
  BY <1>3, ControlAssumption DEF Delivery, EventRecord
<1>5. CASE process[i] = "running" /\ generation[i] = command.generation
  <2>1. Event("removed", i) \in EventRecord
    BY <1>3, <1>5, EventTyped
  <2>2. /\ <<Delivery(command, TRUE)>> \in Seq(EventRecord)
        /\ <<Delivery(command, FALSE), Event("removed", i)>> \in Seq(EventRecord)
    BY <1>4, <2>1, EventsTyped
  <2>3. \/ Emit(<<Delivery(command, TRUE)>>) /\ UNCHANGED process
        \/ /\ Emit(<<Delivery(command, FALSE), Event("removed", i)>>)
           /\ process' = [process EXCEPT ![i] = "absent"]
    BY <1>5 DEF HandleAction
  <2>4. /\ process' \in [Instances -> {"absent", "starting", "running"}]
        /\ \A k \in Instances : process'[k] # "absent" => process[k] # "absent"
    BY <2>3, SupervisorState
  <2> QED
    BY <1>1, <1>2, <2>2, <2>3, <2>4, SupervisorState, EmitPreserves
<1>6. CASE ~(process[i] = "running" /\ generation[i] = command.generation)
  <2>1. <<Delivery(command, FALSE)>> \in Seq(EventRecord)
    BY <1>4, EventsTyped
  <2>2. Emit(<<Delivery(command, FALSE)>>) /\ UNCHANGED process
    BY <1>6 DEF HandleAction
  <2> QED
    BY <1>1, <1>2, <2>1, <2>2, SupervisorState, EmitPreserves
<1> QED
  BY <1>5, <1>6

LEMMA HandleReplacePreserves == ControlInv /\ HandleReplace => ControlInv'
<1> SUFFICES ASSUME ControlInv, HandleReplace PROVE ControlInv'
  OBVIOUS
<1> DEFINE replaced == Head(commands).instances
<1>1. /\ commands # <<>> /\ Head(commands).kind = "replace" /\ UNCHANGED generation
  BY DEF HandleReplace
<1>2. Head(commands) \in Command
  BY <1>1, CommandTaken
<1>3. replaced \in SUBSET Instances
  BY <1>1, <1>2 DEF Command
<1>4. PICK i \in replaced :
        /\ Emit(Gone(i))
        /\ process' = [process EXCEPT ![i] = "absent"]
        /\ commands' = IF replaced = {i} THEN Tail(commands)
                       ELSE <<[kind |-> "replace", instances |-> replaced \ {i}]>> \o Tail(commands)
  BY DEF HandleReplace
<1> HIDE DEF replaced
<1>5. [kind |-> "replace", instances |-> replaced \ {i}] \in Command
  BY <1>3 DEF Command
<1>6. commands' \in Seq(Command) /\ Len(commands') <= MaxCommands
  BY <1>1, <1>4, <1>5, CommandTaken
<1>7. /\ process' \in [Instances -> {"absent", "starting", "running"}]
      /\ \A k \in Instances : process'[k] # "absent" => process[k] # "absent"
  BY <1>4, SupervisorState
<1>8. Gone(i) \in Seq(EventRecord)
  BY <1>3, <1>4, GoneTyped
<1> QED
  BY <1>1, <1>4, <1>6, <1>7, <1>8, SupervisorState, EmitPreserves

LEMMA ProcessPreserves ==
  ASSUME ControlInv, NEW i \in Instances,
         ProcessStarts(i) \/ ProcessReady(i) \/ ProcessEnds(i) \/ ProcessAnswers(i)
  PROVE  ControlInv'
<1>1. commands' = commands
  BY DEF ProcessStarts, ProcessReady, ProcessEnds, ProcessAnswers
<1>2. CASE ProcessStarts(i)
  <2> DEFINE event == [Event("started", i) EXCEPT !.generation = @ + 1]
  <2>1. generation[i] + 1 \in 1..MaxGeneration
    BY <1>2, SupervisorState DEF ProcessStarts
  <2>2. event = [kind |-> "started", instance |-> i, generation |-> generation[i] + 1]
    BY DEF Event
  <2>3. event \in EventRecord
    BY <2>1, <2>2 DEF EventRecord, Generations
  <2>4. Emit(<<event>>) /\ process' = [process EXCEPT ![i] = "starting"]
        /\ generation' = [generation EXCEPT ![i] = @ + 1]
    BY <1>2 DEF ProcessStarts
  <2> HIDE DEF event
  <2>5. <<event>> \in Seq(EventRecord)
    BY <2>3
  <2>6. /\ generation' \in [Instances -> 0..MaxGeneration]
        /\ process' \in [Instances -> {"absent", "starting", "running"}]
        /\ \A k \in Instances : process'[k] # "absent" => generation'[k] # 0
    BY <2>1, <2>4, SupervisorState
  <2> QED
    BY <1>1, <2>4, <2>5, <2>6, SupervisorState, EmitPreserves
<1>3. CASE ProcessReady(i)
  <2>1. /\ process[i] = "starting" /\ process' = [process EXCEPT ![i] = "running"]
        /\ Emit(<<Event("ready", i)>>) /\ UNCHANGED generation
    BY <1>3 DEF ProcessReady
  <2>2. Event("ready", i) \in EventRecord
    BY <2>1, EventTyped
  <2>3. <<Event("ready", i)>> \in Seq(EventRecord)
    BY <2>2
  <2>4. /\ process' \in [Instances -> {"absent", "starting", "running"}]
        /\ \A k \in Instances : process'[k] # "absent" => generation'[k] # 0
    BY <2>1, SupervisorState
  <2> QED
    BY <1>1, <2>1, <2>3, <2>4, SupervisorState, EmitPreserves
<1>4. CASE ProcessEnds(i)
  <2>1. process' = [process EXCEPT ![i] = "absent"] /\ Emit(Gone(i)) /\ UNCHANGED generation
    BY <1>4 DEF ProcessEnds
  <2>2. /\ process' \in [Instances -> {"absent", "starting", "running"}]
        /\ \A k \in Instances : process'[k] # "absent" => generation'[k] # 0
    BY <2>1, SupervisorState
  <2> QED
    BY <1>1, <2>1, <2>2, GoneTyped, SupervisorState, EmitPreserves
<1>5. CASE ProcessAnswers(i)
  <2>1. PICK id \in DOMAIN actions, answer \in {"accepted", "rejected"} :
          Emit(<<[kind |-> "result", instance |-> i, generation |-> generation[i],
                  id |-> id, answer |-> answer]>>)
    BY <1>5 DEF ProcessAnswers
  <2>2. id \in Nat /\ generation[i] \in Generations
    BY <1>5, SupervisorState DEF ControlInv, ActionsTyped, ProcessAnswers, Generations
  <2>3. [kind |-> "result", instance |-> i, generation |-> generation[i], id |-> id, answer |-> answer]
          \in EventRecord
    BY <2>2 DEF EventRecord
  <2>4. <<[kind |-> "result", instance |-> i, generation |-> generation[i], id |-> id, answer |-> answer]>>
          \in Seq(EventRecord)
    BY <2>3
  <2>5. UNCHANGED <<process, generation>>
    BY <1>5 DEF ProcessAnswers
  <2> QED
    BY <1>1, <2>1, <2>4, <2>5, SupervisorState, EmitPreserves
<1> QED
  BY <1>2, <1>3, <1>4, <1>5

--------------------------------------------------------------------------------
(* The specification.                                                            *)

LEMMA ControlInvInitially == Init => ControlInv
<1> SUFFICES ASSUME Init PROVE ControlInv
  OBVIOUS
<1>1. DOMAIN clients = {} /\ DOMAIN actions = {} /\ DOMAIN completed = {}
  BY DEF Init
<1>2. ClientsTyped /\ ActionsTyped /\ IdsAreFresh /\ EndIsQuiet
  BY <1>1, ControlAssumption DEF Init, ClientsTyped, ActionsTyped, IdsAreFresh, EndIsQuiet
<1>3. PendingActionsAreOwned /\ WaitsForSameProcess
  BY <1>1 DEF PendingActionsAreOwned, WaitsForSameProcess
<1>4. CoordinatorTyped /\ SupervisorTyped
  BY EmptySeq, ControlAssumption DEF Init, CoordinatorTyped, SupervisorTyped
<1>5. Places
  <2>1. {c \in DOMAIN clients : clients[c].token # NoToken} = {}
    BY <1>1
  <2> QED
    BY <1>1, <2>1, FS_EmptySet, ControlAssumption DEF Places, PendingCount, Pending
<1> QED
  BY <1>2, <1>3, <1>4, <1>5 DEF ControlInv

LEMMA ControlInvInductive == ControlInv /\ [Next]_vars => ControlInv'
<1> SUFFICES ASSUME ControlInv, [Next]_vars PROVE ControlInv'
  OBVIOUS
<1>1. CASE Frame
  BY <1>1, ConsumePreserves, AnswerPreserves, ServePreserves, EndAdvancePreserves DEF Frame
<1>2. CASE Supervisor
  BY <1>2, HandleActionPreserves, HandleReplacePreserves, ProcessPreserves DEF Supervisor
<1>3. CASE UNCHANGED vars
  <2>1. /\ UNCHANGED <<server, supervisor, coordinator, actions, completed, next_id, phase, quitting>>
    BY <1>3 DEF vars, dispatcher
  <2>2. ClientsTyped' /\ Places' /\ SameTokens
    BY <2>1, UnchangedServer
  <2>3. IdsAreFresh' /\ PendingActionsAreOwned' /\ WaitsForSameProcess'
    BY <2>1, <2>2, LinksKept
  <2>4. ActionsTyped' /\ CoordinatorTyped' /\ EndIsQuiet'
    BY <2>1 DEF ControlInv, ActionsTyped, CoordinatorTyped, EndIsQuiet, coordinator
  <2> QED
    BY <2>1, <2>2, <2>3, <2>4, UnchangedSupervisor DEF ControlInv
<1> QED
  BY <1>1, <1>2, <1>3, AutomaticReloadPreserves, QuitPreserves, TickPreserves DEF Next, Finished

(* Whoever disconnects, answers, restarts, is reloaded or ends, and however the    *)
(* steps of connections, dispatcher and supervisor fall: an action that is waited  *)
(* for has exactly one connection to be answered on, and a process that is the one *)
(* it was given to (ControlDispatcher, IpcServer).                                 *)
THEOREM ActionsAreAlwaysTracked == Spec => []ActionsAreTracked
<1>1. ControlInv => ActionsAreTracked
  <2> SUFFICES ASSUME ControlInv PROVE TypeOK
    BY DEF ControlInv, ActionsAreTracked
  <2> QED
    BY DEF ControlInv, TypeOK, ClientsTyped, Places, ActionsTyped, CoordinatorTyped, SupervisorTyped,
           Client, ActionRecord
<1> QED
  BY <1>1, ControlInvInitially, ControlInvInductive, PTL DEF Spec

--------------------------------------------------------------------------------
(* What becomes of an action, and what is said of it.                            *)

InvocationRecord ==
  [to : Instances \X Generations, age : 0..PendingTimeout, handed : {Unset} \cup 0..PendingTimeout,
   said : SUBSET ((Instances \X Nat) \X {"accepted", "rejected"})]

InvocationsTyped ==
  /\ DOMAIN invocations \subseteq 1..next_id - 1
  /\ \A id \in DOMAIN invocations : invocations[id] \in InvocationRecord

Given(id) == invocations[id].handed # Unset

Submits(n, id) == commands[n].kind = "action" /\ commands[n].id = id
Submitted(id) == \E n \in DOMAIN commands : Submits(n, id)

Delivers(n, id) == events[n].kind = "delivery" /\ events[n].id = id
Succeeds(n, id) == Delivers(n, id) /\ events[n].succeeded
Replies(n, id) ==
  /\ events[n].kind = "result" /\ events[n].id = id
  /\ invocations[id].to = <<events[n].instance, events[n].generation>>

\* The module's deadline for an action that it was given, unless it has passed.
Within(left, handed, age) == left = 0 \/ left <= handed + ActionTimeout - age
InTime(id, left) == Within(left, invocations[id].handed, invocations[id].age)

\* An answer about an action that a connection may have been given.
Telling == {"accepted", "rejected", "timeout", "undelivered"}
Justified(id, answer) ==
  /\ answer \in {"accepted", "rejected"} => <<invocations[id].to, answer>> \in invocations[id].said
  /\ answer = "timeout" => Given(id)
  /\ answer = "undelivered" => ~Given(id) /\ ~Submitted(id)

\* An id is submitted once, and what speaks of it comes after.
IdsAreKnown ==
  /\ \A n \in DOMAIN commands : commands[n].kind = "action" => commands[n].id < next_id
  /\ \A n \in DOMAIN events : events[n].kind \in {"delivery", "result"} => events[n].id < next_id
  /\ \A m, n \in DOMAIN commands :
       m # n /\ commands[m].kind = "action" /\ commands[n].kind = "action"
         => commands[m].id # commands[n].id

ClientsAreTold ==
  \A c \in DOMAIN clients :
    /\ Pending(c) => clients[c].asked = clients[c].token /\ clients[c].token \in DOMAIN invocations
    /\ clients[c].answer \in Telling
         => clients[c].asked \in DOMAIN invocations /\ Justified(clients[c].asked, clients[c].answer)

CompletionsAreTrue ==
  \A id \in DOMAIN completed \cap DOMAIN invocations : Justified(id, completed[id])

ActionsAreAsSubmitted ==
  \A id \in DOMAIN actions :
    /\ id \in DOMAIN invocations
    /\ invocations[id].to = <<actions[id].instance, actions[id].generation>>
    /\ actions[id].left # Unset => Given(id) /\ InTime(id, actions[id].left)

CommandsAreNew ==
  \A n \in DOMAIN commands : \A id \in DOMAIN invocations :
    Submits(n, id)
      => ~Given(id) /\ invocations[id].to = <<commands[n].instance, commands[n].generation>>

DeliveriesAreTrue ==
  \A n \in DOMAIN events : \A id \in DOMAIN invocations :
    Delivers(n, id)
      => /\ ~Submitted(id)
         /\ invocations[id].to = <<events[n].instance, events[n].generation>>
         /\ events[n].succeeded => Given(id) /\ InTime(id, events[n].left)
         /\ ~events[n].succeeded => ~Given(id)

\* What a process says too early is consumed before the action counts as delivered.
RepliesAreSaid ==
  \A n \in DOMAIN events : \A id \in DOMAIN invocations :
    Replies(n, id)
      => \/ <<invocations[id].to, events[n].answer>> \in invocations[id].said
         \/ /\ id \in DOMAIN actions => actions[id].left = Unset
            /\ \A m \in DOMAIN events : m < n => ~Succeeds(m, id)

\* An action that was given to its process is known to be, or will be by the next frame.
GivenIsReported ==
  \A id \in DOMAIN actions :
    Given(id) => actions[id].left # Unset \/ \E n \in DOMAIN events : Succeeds(n, id)

\* The deadline of a connection runs from the moment its action was submitted.
WaitsAreTimed ==
  \A c \in DOMAIN clients :
    Pending(c) =>
      LET action == invocations[clients[c].token]
      IN  /\ phase = "serve" \/ clients[c].token \in DOMAIN actions
               => clients[c].left # Unset /\ action.age + clients[c].left = PendingTimeout
          /\ phase = "serve" /\ clients[c].left = 0
               => action.handed = Unset \/ action.handed + ActionTimeout > PendingTimeout

HonestInv ==
  /\ InvocationsTyped /\ IdsAreKnown /\ ClientsAreTold /\ CompletionsAreTrue /\ ActionsAreAsSubmitted
  /\ CommandsAreNew /\ DeliveriesAreTrue /\ RepliesAreSaid /\ GivenIsReported /\ WaitsAreTimed

--------------------------------------------------------------------------------
(* Steps that leave what is known of the actions alone.                          *)

\* Answers that are not about an action say nothing.
LEMMA NothingTold == Telling \cap {"none", "sync", "cancelled"} = {} /\ Telling \subseteq Answers
  BY DEF Telling, Answers

LEMMA CompletedIs ==
  ASSUME NEW ids, NEW answer, Complete(ids, answer)
  PROVE  /\ DOMAIN actions' = DOMAIN actions \ ids
         /\ \A id \in DOMAIN actions' : actions'[id] = actions[id]
         /\ \A id \in DOMAIN completed' :
              \/ id \in ids /\ completed'[id] = answer
              \/ id \in DOMAIN completed /\ completed'[id] = completed[id]
<1> DEFINE new == [id \in ids |-> answer]
<1>1. actions' = Remove(actions, ids) /\ completed' = Merged(new, completed)
  BY DEF Complete
<1>2. DOMAIN new = ids /\ \A id \in ids : new[id] = answer
  OBVIOUS
<1> HIDE DEF new
<1> QED
  BY <1>1, <1>2 DEF Remove, Merged

\* Connections that are as they were, or are told nothing about an action.
SameToldOrNothing ==
  \A c \in DOMAIN clients' :
    \/ /\ c \in DOMAIN clients
       /\ clients'[c].token = clients[c].token /\ clients'[c].asked = clients[c].asked
       /\ clients'[c].answer = clients[c].answer /\ clients'[c].left = clients[c].left
    \/ clients'[c].token = NoToken /\ clients'[c].answer \notin Telling

LEMMA ClientsStayTold ==
  ASSUME HonestInv, SameToldOrNothing, UNCHANGED invocations,
         \A id : Submitted(id)' => Submitted(id),
         phase' # "serve" \/ phase = "serve", DOMAIN actions' \subseteq DOMAIN actions
  PROVE  ClientsAreTold' /\ WaitsAreTimed'
<1>1. ASSUME NEW c \in DOMAIN clients', clients'[c].token # NoToken
      PROVE  /\ clients'[c].asked = clients'[c].token /\ clients'[c].token \in DOMAIN invocations
             /\ phase' = "serve" \/ clients'[c].token \in DOMAIN actions'
                  => /\ clients'[c].left # Unset
                     /\ invocations[clients'[c].token].age + clients'[c].left = PendingTimeout
             /\ phase' = "serve" /\ clients'[c].left = 0
                  => \/ invocations[clients'[c].token].handed = Unset
                     \/ invocations[clients'[c].token].handed + ActionTimeout > PendingTimeout
  BY <1>1 DEF HonestInv, SameToldOrNothing, ClientsAreTold, WaitsAreTimed, Pending
<1>2. ASSUME NEW c \in DOMAIN clients', NEW asked, asked = clients'[c].asked,
             NEW answer \in Telling, answer = clients'[c].answer
      PROVE  asked \in DOMAIN invocations /\ Justified(asked, answer)'
  <2>1. asked \in DOMAIN invocations /\ Justified(asked, answer)
    BY <1>2 DEF HonestInv, SameToldOrNothing, ClientsAreTold
  <2> QED
    BY <2>1 DEF Justified, Given
<1>3. ClientsAreTold'
  BY <1>1, <1>2 DEF ClientsAreTold, Pending, Justified, Given, Submitted, Submits
<1>4. WaitsAreTimed'
  BY <1>1 DEF WaitsAreTimed, Pending
<1> QED
  BY <1>3, <1>4

\* Actions that end, and commands and connections that are not about an action.
LEMMA QuietKeepsHonest ==
  ASSUME HonestInv, ClientsAreTold', WaitsAreTimed', UNCHANGED <<invocations, events, next_id>>,
         DOMAIN actions' \subseteq DOMAIN actions, \A id \in DOMAIN actions' : actions'[id] = actions[id],
         \A id \in DOMAIN completed' :
           completed'[id] = "cancelled" \/ (id \in DOMAIN completed /\ completed'[id] = completed[id]),
         \A n \in DOMAIN commands' :
           commands'[n].kind = "replace" \/ (n \in DOMAIN commands /\ commands'[n] = commands[n])
  PROVE  HonestInv'
<1>1. \A id : Submitted(id)' => Submitted(id)
  BY DEF Submitted, Submits
<1>2. InvocationsTyped' /\ IdsAreKnown'
  BY DEF HonestInv, InvocationsTyped, IdsAreKnown
<1>3. CompletionsAreTrue'
  <2>1. ASSUME NEW id \in DOMAIN completed', id \in DOMAIN invocations, NEW answer, answer = completed'[id]
        PROVE  Justified(id, answer)'
    <3>1. CASE answer = "cancelled"
      BY <3>1 DEF Justified
    <3>2. CASE id \in DOMAIN completed /\ completed'[id] = completed[id]
      <4>1. Justified(id, answer)
        BY <2>1, <3>2 DEF HonestInv, CompletionsAreTrue
      <4> QED
        BY <1>1, <4>1 DEF Justified, Given
    <3> QED
      BY <2>1, <3>1, <3>2
  <2> QED
    BY <2>1 DEF CompletionsAreTrue, Justified, Given, Submitted, Submits
<1>4. ActionsAreAsSubmitted'
  BY DEF HonestInv, ActionsAreAsSubmitted, Given, InTime
<1>5. CommandsAreNew'
  BY DEF HonestInv, CommandsAreNew, Given, Submits
<1>6. DeliveriesAreTrue'
  <2>1. ASSUME NEW n \in DOMAIN events, NEW id \in DOMAIN invocations, Delivers(n, id)
        PROVE  /\ ~Submitted(id)'
               /\ invocations[id].to = <<events[n].instance, events[n].generation>>
               /\ events[n].succeeded => Given(id) /\ InTime(id, events[n].left)
               /\ ~events[n].succeeded => ~Given(id)
    BY <1>1, <2>1 DEF HonestInv, DeliveriesAreTrue
  <2> QED
    BY <2>1 DEF DeliveriesAreTrue, Delivers, Given, InTime, Submitted, Submits
<1>7. RepliesAreSaid' /\ GivenIsReported'
  BY DEF HonestInv, RepliesAreSaid, GivenIsReported, Replies, Succeeds, Delivers, Given
<1> QED
  BY <1>2, <1>3, <1>4, <1>5, <1>6, <1>7 DEF HonestInv

--------------------------------------------------------------------------------
(* Requests, for what is said of the actions.                                    *)

\* restart() and reload cancel.
LEMMA CancelsQuietly ==
  ASSUME NEW ids, Complete(ids, "cancelled")
  PROVE  /\ DOMAIN actions' \subseteq DOMAIN actions
         /\ \A id \in DOMAIN actions' : actions'[id] = actions[id]
         /\ \A id \in DOMAIN completed' :
              completed'[id] = "cancelled" \/ (id \in DOMAIN completed /\ completed'[id] = completed[id])
<1> DEFINE new == [id \in ids |-> "cancelled"]
<1>1. actions' = Remove(actions, ids) /\ completed' = Merged(new, completed)
  BY DEF Complete
<1>2. DOMAIN new = ids /\ \A id \in ids : new[id] = "cancelled"
  OBVIOUS
<1> HIDE DEF new
<1> QED
  BY <1>1, <1>2 DEF Remove, Merged

LEMMA AppendsQuietly ==
  ASSUME ControlInv, NEW command, command.kind = "replace", commands' = Append(commands, command)
  PROVE  \A n \in DOMAIN commands' :
           commands'[n].kind = "replace" \/ (n \in DOMAIN commands /\ commands'[n] = commands[n])
<1>1. commands \in Seq(Command) /\ Len(commands) \in Nat /\ DOMAIN commands = 1..Len(commands)
  BY SupervisorState
<1>2. /\ DOMAIN commands' = 1..(Len(commands) + 1) /\ commands'[Len(commands) + 1] = command
      /\ \A n \in DOMAIN commands : commands'[n] = commands[n]
  BY <1>1
<1> QED
  BY <1>1, <1>2

LEMMA ReloadedQuietly ==
  ASSUME ControlInv, NEW replaced, NEW cancelled, Reloaded(replaced, cancelled)
  PROVE  /\ UNCHANGED <<invocations, events, next_id>>
         /\ DOMAIN actions' \subseteq DOMAIN actions
         /\ \A id \in DOMAIN actions' : actions'[id] = actions[id]
         /\ \A id \in DOMAIN completed' :
              completed'[id] = "cancelled" \/ (id \in DOMAIN completed /\ completed'[id] = completed[id])
         /\ \A n \in DOMAIN commands' :
              commands'[n].kind = "replace" \/ (n \in DOMAIN commands /\ commands'[n] = commands[n])
<1>1. PICK ids : Complete(ids, "cancelled")
  BY DEF Reloaded
<1>2. PICK command : /\ command = [kind |-> "replace", instances |-> replaced]
                     /\ commands' = IF replaced = {} THEN commands ELSE Append(commands, command)
  BY DEF Reloaded
<1> QED
  BY <1>1, <1>2, CancelsQuietly, AppendsQuietly DEF Reloaded

\* The visits of a connection that are not about an action.
LEMMA VisitsTellNothing ==
  ASSUME ControlInv, NEW c \in DOMAIN clients, NEW client, clients' = [clients EXCEPT ![c] = client],
         \/ \E ending : client = [clients[c] EXCEPT !.close = ending]
         \/ client = clients[c]
         \/ client \in Written(clients[c])
         \/ client \in Written(Responded(clients[c], "sync"))
  PROVE  SameToldOrNothing
<1>1. clients[c] \in Client
  BY DEF ControlInv, ClientsTyped
<1>2. \/ /\ client.token = clients[c].token /\ client.asked = clients[c].asked
         /\ client.answer = clients[c].answer /\ client.left = clients[c].left
      \/ client.token = NoToken /\ client.answer = "sync"
  BY <1>1 DEF Written, Responded, Client
<1>3. "sync" \notin Telling
  BY DEF Telling
<1> QED
  BY <1>2, <1>3 DEF SameToldOrNothing

LEMMA VisitedKeepsHonest ==
  ASSUME ControlInv, HonestInv, SameToldOrNothing, UNCHANGED <<invocations, events, next_id, phase>>,
         DOMAIN actions' \subseteq DOMAIN actions, \A id \in DOMAIN actions' : actions'[id] = actions[id],
         \A id \in DOMAIN completed' :
           completed'[id] = "cancelled" \/ (id \in DOMAIN completed /\ completed'[id] = completed[id]),
         \A n \in DOMAIN commands' :
           commands'[n].kind = "replace" \/ (n \in DOMAIN commands /\ commands'[n] = commands[n])
  PROVE  HonestInv'
<1>1. \A id : Submitted(id)' => Submitted(id)
  BY DEF Submitted, Submits
<1>2. ClientsAreTold' /\ WaitsAreTimed'
  BY <1>1, ClientsStayTold
<1> QED
  BY <1>2, QuietKeepsHonest

\* action(): a command with an id of its own, and a connection whose deadline begins.
LEMMA SubmittedIs ==
  ASSUME ControlInv, HonestInv, NEW c, NEW i, ReadAction(c, i)
  PROVE  /\ next_id' = next_id + 1 /\ next_id \in Nat \ {0}
         /\ \A n \in DOMAIN commands' :
              \/ n \in DOMAIN commands /\ commands'[n] = commands[n]
              \/ /\ n \notin DOMAIN commands /\ n = Len(commands) + 1
                 /\ commands'[n] = [kind |-> "action", instance |-> i, generation |-> known[i],
                                    id |-> next_id]
<1>1. next_id' = next_id + 1 /\ next_id \in Nat \ {0}
  BY ControlAssumption DEF ReadAction, ControlInv, ActionsTyped
<1>2. commands \in Seq(Command) /\ Len(commands) \in Nat /\ DOMAIN commands = 1..Len(commands)
  BY SupervisorState
<1>3. PICK command : /\ command = [kind |-> "action", instance |-> i, generation |-> known[i],
                                   id |-> next_id]
                     /\ \/ commands' = commands \/ commands' = Append(commands, command)
  BY DEF ReadAction
<1>4. CASE commands' = Append(commands, command)
  <2>1. /\ DOMAIN commands' = 1..(Len(commands) + 1) /\ commands'[Len(commands) + 1] = command
        /\ \A n \in DOMAIN commands : commands'[n] = commands[n]
    BY <1>2, <1>4
  <2>2. \A n \in DOMAIN commands' : n \in DOMAIN commands \/ (n \notin DOMAIN commands /\ n = Len(commands) + 1)
    BY <1>2, <2>1
  <2> QED
    BY <1>1, <1>3, <2>1, <2>2
<1> QED
  BY <1>1, <1>3, <1>4

LEMMA ReadActionKeepsHonest ==
  ASSUME ControlInv, HonestInv, NEW c \in DOMAIN clients, NEW i \in Instances, ReadAction(c, i), Reading(c),
         phase' = phase
  PROVE  HonestInv'
<1>1. /\ next_id' = next_id + 1 /\ next_id \in Nat \ {0}
      /\ \A n \in DOMAIN commands' :
           \/ n \in DOMAIN commands /\ commands'[n] = commands[n]
           \/ /\ n \notin DOMAIN commands /\ n = Len(commands) + 1
              /\ commands'[n] = [kind |-> "action", instance |-> i, generation |-> known[i],
                                 id |-> next_id]
  BY SubmittedIs
<1>2. UNCHANGED <<completed, events, phase>>
  BY DEF ReadAction
<1>3. /\ DOMAIN invocations \subseteq 1..next_id - 1 /\ DOMAIN actions \subseteq 1..next_id - 1
      /\ \A id \in DOMAIN invocations : id # next_id
      /\ \A id \in DOMAIN actions : id # next_id
      /\ \A n \in DOMAIN events : events[n].kind \in {"delivery", "result"} => events[n].id # next_id
      /\ \A d \in DOMAIN clients : clients[d].token # next_id
  <2>1. DOMAIN invocations \subseteq 1..next_id - 1 /\ DOMAIN actions \subseteq 1..next_id - 1
    BY DEF HonestInv, InvocationsTyped, ControlInv, ActionsTyped
  <2>2. \A n \in DOMAIN events : events[n].kind \in {"delivery", "result"} => events[n].id < next_id
    BY DEF HonestInv, IdsAreKnown
  <2>3. events \in Seq(EventRecord) /\ \A n \in DOMAIN events : events[n] \in EventRecord
    BY DEF ControlInv, SupervisorTyped
  <2>4. \A n \in DOMAIN events : events[n].kind \in {"delivery", "result"} => events[n].id # next_id
    BY <1>1, <2>2
  <2>5. \A d \in DOMAIN clients : clients[d].token # next_id
    BY <1>1 DEF ControlInv, IdsAreFresh
  <2> QED
    BY <1>1, <2>1, <2>4, <2>5
<1>4. \A id : id # next_id => (Submitted(id)' => Submitted(id))
  BY <1>1 DEF Submitted, Submits
<1>5. IdsAreKnown'
  <2>1. \A n \in DOMAIN commands' : commands'[n].kind = "action" => commands'[n].id < next_id'
    <3>1. \A n \in DOMAIN commands : commands[n].kind = "action" => commands[n] \in Command /\ commands[n].id < next_id
      BY SupervisorState DEF HonestInv, IdsAreKnown
    <3>2. \A n \in DOMAIN commands : commands[n].kind = "action" => commands[n].id \in Nat
      BY <3>1 DEF Command
    <3> QED
      BY <1>1, <3>1, <3>2
  <2>2. \A n \in DOMAIN events : events[n].kind \in {"delivery", "result"} => events[n].id < next_id'
    <3>1. \A n \in DOMAIN events : events[n] \in EventRecord
      BY DEF ControlInv, SupervisorTyped
    <3>2. \A n \in DOMAIN events : events[n].kind \in {"delivery", "result"} => events[n].id \in Nat
      BY <3>1 DEF EventRecord
    <3> QED
      BY <1>1, <3>2 DEF HonestInv, IdsAreKnown
  <2>3. ASSUME NEW m \in DOMAIN commands', NEW n \in DOMAIN commands', m # n,
               commands'[m].kind = "action", commands'[n].kind = "action"
        PROVE  commands'[m].id # commands'[n].id
    <3>1. \A k \in DOMAIN commands : commands[k].kind = "action" => commands[k].id # next_id
      BY <1>1 DEF HonestInv, IdsAreKnown
    <3> QED
      BY <1>1, <2>3, <3>1 DEF HonestInv, IdsAreKnown
  <2> QED
    BY <1>2, <2>1, <2>2, <2>3 DEF IdsAreKnown
<1>6. CASE /\ \E client \in Written(Responded(clients[c], "sync")) : clients' = [clients EXCEPT ![c] = client]
           /\ UNCHANGED <<actions, invocations>>
  <2>1. SameToldOrNothing
    BY <1>6, VisitsTellNothing
  <2>2. \A id \in DOMAIN invocations : Submitted(id)' => Submitted(id)
    BY <1>3, <1>4
  <2>3. ASSUME NEW d \in DOMAIN clients', NEW asked, asked = clients'[d].asked,
               NEW answer \in Telling, answer = clients'[d].answer
        PROVE  asked \in DOMAIN invocations /\ Justified(asked, answer)'
    <3>1. asked \in DOMAIN invocations /\ Justified(asked, answer)
      BY <2>1, <2>3 DEF HonestInv, SameToldOrNothing, ClientsAreTold
    <3> QED
      BY <1>6, <2>2, <3>1 DEF Justified, Given
  <2>4. \A d \in DOMAIN clients' : clients'[d].token # NoToken
          => clients'[d].asked = clients'[d].token /\ clients'[d].token \in DOMAIN invocations
    BY <2>1 DEF HonestInv, SameToldOrNothing, ClientsAreTold, Pending
  <2>5. ClientsAreTold'
    BY <1>6, <2>3, <2>4 DEF ClientsAreTold, Pending, Justified, Given, Submitted, Submits
  <2>6. WaitsAreTimed'
    BY <1>2, <1>6, <2>1 DEF HonestInv, SameToldOrNothing, WaitsAreTimed, Pending
  <2>7. CompletionsAreTrue'
    <3>1. ASSUME NEW id \in DOMAIN completed, id \in DOMAIN invocations, NEW answer, answer = completed[id]
          PROVE  Justified(id, answer)'
      BY <1>6, <2>2, <3>1 DEF HonestInv, CompletionsAreTrue, Justified, Given
    <3> QED
      BY <1>2, <1>6, <3>1 DEF CompletionsAreTrue, Justified, Given, Submitted, Submits
  <2>8. CommandsAreNew'
    <3>1. \A n \in DOMAIN commands' : \A id \in DOMAIN invocations :
            Submits(n, id)' => n \in DOMAIN commands /\ commands'[n] = commands[n]
      BY <1>1, <1>3 DEF Submits
    <3> QED
      BY <1>6, <3>1 DEF HonestInv, CommandsAreNew, Given, Submits
  <2>9. DeliveriesAreTrue'
    <3>1. ASSUME NEW n \in DOMAIN events, NEW id \in DOMAIN invocations, Delivers(n, id)
          PROVE  /\ ~Submitted(id)'
                 /\ invocations[id].to = <<events[n].instance, events[n].generation>>
                 /\ events[n].succeeded => Given(id) /\ InTime(id, events[n].left)
                 /\ ~events[n].succeeded => ~Given(id)
      BY <2>2, <3>1 DEF HonestInv, DeliveriesAreTrue
    <3> QED
      BY <1>2, <1>6, <3>1 DEF DeliveriesAreTrue, Delivers, Given, InTime, Submitted, Submits
  <2>10. InvocationsTyped' /\ ActionsAreAsSubmitted' /\ RepliesAreSaid' /\ GivenIsReported'
    BY <1>1, <1>2, <1>6
       DEF HonestInv, InvocationsTyped, ActionsAreAsSubmitted, RepliesAreSaid, GivenIsReported, Replies,
           Succeeds, Delivers, Given, InTime
  <2> QED
    BY <1>5, <2>5, <2>6, <2>7, <2>8, <2>9, <2>10 DEF HonestInv
<1>7. CASE /\ invocations' = Put(invocations, next_id, NewInvocation(i))
           /\ actions' = Put(actions, next_id, [instance |-> i, generation |-> known[i], left |-> Unset])
           /\ clients' = [clients EXCEPT ![c] = Deferred(@, next_id)]
  <2> DEFINE new == [to |-> <<i, known[i]>>, age |-> 0, handed |-> Unset, said |-> {}]
             client == Deferred(clients[c], next_id)
  <2>1. /\ DOMAIN invocations' = DOMAIN invocations \cup {next_id} /\ invocations'[next_id] = new
        /\ \A id \in DOMAIN invocations : invocations'[id] = invocations[id]
        /\ DOMAIN actions' = DOMAIN actions \cup {next_id}
        /\ actions'[next_id] = [instance |-> i, generation |-> known[i], left |-> Unset]
        /\ \A id \in DOMAIN actions : actions'[id] = actions[id]
    BY <1>3, <1>7 DEF Put, Merged, NewInvocation
  <2>2. /\ clients[c] \in Client /\ clients[c].answer = "none" /\ clients[c].token = NoToken
        /\ known[i] \in Generations
    <3>1. clients[c] \in Client /\ known[i] \in 0..MaxGeneration
      BY DEF ControlInv, ClientsTyped, CoordinatorTyped
    <3> QED
      BY <3>1, ControlAssumption DEF Reading, Pending, ReadAction, Generations
  <2>3. /\ client.token = next_id /\ client.asked = next_id /\ client.answer = "none"
        /\ client.left = PendingTimeout
    BY <2>2 DEF Deferred, Client
  <2>4. new \in InvocationRecord
    BY <2>2, ControlAssumption DEF InvocationRecord
  <2>5. new.handed = Unset /\ new.age = 0 /\ new.to = <<i, known[i]>> /\ new.said = {}
    OBVIOUS
  <2> HIDE DEF new
  <2>6. /\ DOMAIN clients' = DOMAIN clients /\ clients'[c] = client
        /\ \A d \in DOMAIN clients \ {c} : clients'[d] = clients[d]
    BY <1>7
  <2> HIDE DEF client
  <2>7. \A id \in DOMAIN invocations : (Submitted(id)' => Submitted(id)) /\ (Given(id)' = Given(id))
    BY <1>3, <1>4, <2>1 DEF Given
  <2>8. InvocationsTyped'
    BY <1>1, <1>3, <2>1, <2>4 DEF HonestInv, InvocationsTyped
  <2>9. ASSUME NEW d \in DOMAIN clients', NEW asked, asked = clients'[d].asked,
               NEW answer \in Telling, answer = clients'[d].answer
        PROVE  asked \in DOMAIN invocations' /\ Justified(asked, answer)'
    <3>1. d # c
      BY <2>3, <2>6, <2>9 DEF Telling
    <3>2. asked \in DOMAIN invocations /\ Justified(asked, answer)
      BY <2>6, <2>9, <3>1 DEF HonestInv, ClientsAreTold
    <3> QED
      BY <2>1, <2>7, <3>2 DEF Justified
  <2>10. \A d \in DOMAIN clients' : clients'[d].token # NoToken
           => clients'[d].asked = clients'[d].token /\ clients'[d].token \in DOMAIN invocations'
    BY <2>1, <2>3, <2>6 DEF HonestInv, ClientsAreTold, Pending
  <2>11. ClientsAreTold'
    BY <2>9, <2>10 DEF ClientsAreTold, Pending, Justified, Given, Submitted, Submits
  <2>12. CompletionsAreTrue'
    <3>1. \A id \in DOMAIN completed : id # next_id
      BY <1>1 DEF ControlInv, IdsAreFresh
    <3>2. ASSUME NEW id \in DOMAIN completed, id \in DOMAIN invocations, NEW answer, answer = completed[id]
          PROVE  Justified(id, answer)'
      BY <2>1, <2>7, <3>2 DEF HonestInv, CompletionsAreTrue, Justified
    <3> QED
      BY <1>2, <2>1, <3>1, <3>2 DEF CompletionsAreTrue, Justified, Given, Submitted, Submits
  <2>13. ActionsAreAsSubmitted'
    BY <1>3, <2>1, <2>5 DEF HonestInv, ActionsAreAsSubmitted, Given, InTime
  <2>14. CommandsAreNew'
    <3>1. \A n \in DOMAIN commands : commands[n].kind = "action" => commands[n].id # next_id
      BY <1>1 DEF HonestInv, IdsAreKnown
    <3>2. ASSUME NEW n \in DOMAIN commands', NEW id \in DOMAIN invocations', Submits(n, id)'
          PROVE  /\ ~Given(id)'
                 /\ invocations'[id].to = <<commands'[n].instance, commands'[n].generation>>
      <4>1. CASE n \in DOMAIN commands /\ commands'[n] = commands[n]
        <5>1. Submits(n, id)
          BY <3>2, <4>1 DEF Submits
        <5>2. id \in DOMAIN invocations
          BY <2>1, <3>1, <3>2, <4>1, <5>1 DEF Submits
        <5> QED
          BY <2>1, <2>7, <4>1, <5>1, <5>2 DEF HonestInv, CommandsAreNew
      <4>2. CASE commands'[n] = [kind |-> "action", instance |-> i, generation |-> known[i], id |-> next_id]
        <5>1. id = next_id
          BY <3>2, <4>2 DEF Submits
        <5> QED
          BY <2>1, <2>5, <4>2, <5>1 DEF Given
      <4> QED
        BY <1>1, <4>1, <4>2
    <3> QED
      BY <3>2 DEF CommandsAreNew, Given, Submits
  <2>15. DeliveriesAreTrue'
    <3>1. ASSUME NEW n \in DOMAIN events, NEW id \in DOMAIN invocations', Delivers(n, id)
          PROVE  /\ ~Submitted(id)'
                 /\ invocations'[id].to = <<events[n].instance, events[n].generation>>
                 /\ events[n].succeeded => Given(id)' /\ InTime(id, events[n].left)'
                 /\ ~events[n].succeeded => ~Given(id)'
      <4>1. id \in DOMAIN invocations
        BY <1>3, <2>1, <3>1 DEF Delivers
      <4>2. /\ ~Submitted(id)
            /\ invocations[id].to = <<events[n].instance, events[n].generation>>
            /\ events[n].succeeded => Given(id) /\ InTime(id, events[n].left)
            /\ ~events[n].succeeded => ~Given(id)
        BY <3>1, <4>1 DEF HonestInv, DeliveriesAreTrue
      <4>3. InTime(id, events[n].left) => InTime(id, events[n].left)'
        BY <1>2, <2>1, <4>1 DEF InTime
      <4> QED
        BY <2>1, <2>7, <4>1, <4>2, <4>3
    <3> QED
      BY <1>2, <3>1 DEF DeliveriesAreTrue, Delivers, Given, InTime, Submitted, Submits
  <2>16. RepliesAreSaid'
    <3>1. ASSUME NEW n \in DOMAIN events, NEW id, id = next_id
          PROVE  ~Replies(n, id)'
      <4>1. \A m \in DOMAIN events : events[m].kind = "result" => events[m].id # next_id
        BY <1>3
      <4> QED
        BY <1>2, <3>1, <4>1 DEF Replies
    <3> QED
      BY <1>2, <1>3, <2>1, <3>1 DEF HonestInv, RepliesAreSaid, Replies, Succeeds, Delivers
  <2>17. GivenIsReported'
    <3>1. \A id \in DOMAIN actions : id \in DOMAIN invocations
      BY DEF HonestInv, ActionsAreAsSubmitted
    <3> QED
      BY <1>2, <2>1, <2>5, <3>1 DEF HonestInv, GivenIsReported, Succeeds, Delivers, Given
  <2>18. WaitsAreTimed'
    <3>1. ASSUME NEW d \in DOMAIN clients', clients'[d].token # NoToken
          PROVE  /\ phase = "serve" \/ clients'[d].token \in DOMAIN actions'
                      => /\ clients'[d].left # Unset
                         /\ invocations'[clients'[d].token].age + clients'[d].left = PendingTimeout
                 /\ phase = "serve" /\ clients'[d].left = 0
                      => \/ invocations'[clients'[d].token].handed = Unset
                         \/ invocations'[clients'[d].token].handed + ActionTimeout > PendingTimeout
      <4>1. CASE d = c
        <5>1. PendingTimeout # Unset /\ 0 + PendingTimeout = PendingTimeout
          BY ControlAssumption DEF Unset
        <5> QED
          BY <2>1, <2>3, <2>5, <2>6, <4>1, <5>1
      <4>2. CASE d # c
        <5>1. clients'[d] = clients[d] /\ clients[d].token \in DOMAIN invocations /\ clients[d].token # next_id
          BY <1>3, <2>6, <3>1, <4>2 DEF HonestInv, ClientsAreTold, Pending
        <5> QED
          BY <2>1, <2>6, <3>1, <4>2, <5>1 DEF HonestInv, WaitsAreTimed, Pending
      <4> QED
        BY <4>1, <4>2
    <3> QED
      BY <1>2, <3>1 DEF WaitsAreTimed, Pending
  <2> QED
    BY <1>5, <2>8, <2>11, <2>12, <2>13, <2>14, <2>15, <2>16, <2>17, <2>18 DEF HonestInv
<1> QED
  BY <1>6, <1>7 DEF ReadAction

LEMMA VisitKeepsHonest ==
  ASSUME ControlInv, HonestInv, NEW c \in DOMAIN clients, NEW client, Visited(c, client), phase' = phase,
         \/ \E ending : client = [clients[c] EXCEPT !.close = ending]
         \/ client = clients[c]
         \/ client \in Written(clients[c])
         \/ client \in Written(Responded(clients[c], "sync"))
  PROVE  HonestInv'
<1>1. clients' = [clients EXCEPT ![c] = client]
  BY DEF Visited
<1>2. UNCHANGED <<actions, completed, next_id, commands, events, invocations>>
  BY DEF Visited, dispatcher, supervisor
<1>3. SameToldOrNothing
  BY <1>1, VisitsTellNothing
<1> QED
  BY <1>2, <1>3, VisitedKeepsHonest

LEMMA ReadRestartKeepsHonest ==
  ASSUME ControlInv, HonestInv, NEW c \in DOMAIN clients, NEW i, ReadRestart(c, i), phase' = phase
  PROVE  HonestInv'
<1>1. /\ commands' = Append(commands, [kind |-> "replace", instances |-> {i}])
      /\ Complete(Waiting(i, Generations), "cancelled")
      /\ UNCHANGED <<next_id, events, invocations>>
  BY DEF ReadRestart
<1>2. PICK client \in Written(Responded(clients[c], "sync")) : clients' = [clients EXCEPT ![c] = client]
  BY DEF ReadRestart
<1>3. SameToldOrNothing
  BY <1>2, VisitsTellNothing
<1>4. PICK command : command = [kind |-> "replace", instances |-> {i}] /\ commands' = Append(commands, command)
  BY <1>1
<1>5. \A n \in DOMAIN commands' :
        commands'[n].kind = "replace" \/ (n \in DOMAIN commands /\ commands'[n] = commands[n])
  BY <1>4, AppendsQuietly
<1>6. PICK ids : Complete(ids, "cancelled")
  BY <1>1
<1>7. /\ DOMAIN actions' \subseteq DOMAIN actions
      /\ \A id \in DOMAIN actions' : actions'[id] = actions[id]
      /\ \A id \in DOMAIN completed' :
           completed'[id] = "cancelled" \/ (id \in DOMAIN completed /\ completed'[id] = completed[id])
  BY <1>6, CancelsQuietly
<1> QED
  BY <1>1, <1>3, <1>5, <1>7, VisitedKeepsHonest

LEMMA ReadReloadKeepsHonest ==
  ASSUME ControlInv, HonestInv, NEW c \in DOMAIN clients, ReadReload(c), phase' = phase
  PROVE  HonestInv'
<1>1. PICK replaced, cancelled : Reloaded(replaced, cancelled)
  BY DEF ReadReload
<1>2. PICK client \in Written(Responded(clients[c], "sync")) : clients' = [clients EXCEPT ![c] = client]
  BY DEF ReadReload
<1>3. SameToldOrNothing
  BY <1>2, VisitsTellNothing
<1>4. /\ UNCHANGED <<invocations, events, next_id>>
      /\ DOMAIN actions' \subseteq DOMAIN actions
      /\ \A id \in DOMAIN actions' : actions'[id] = actions[id]
      /\ \A id \in DOMAIN completed' :
           completed'[id] = "cancelled" \/ (id \in DOMAIN completed /\ completed'[id] = completed[id])
      /\ \A n \in DOMAIN commands' :
           commands'[n].kind = "replace" \/ (n \in DOMAIN commands /\ commands'[n] = commands[n])
  BY <1>1, ReloadedQuietly
<1> QED
  BY <1>3, <1>4, VisitedKeepsHonest

LEMMA ServeKeepsHonest == ControlInv /\ HonestInv /\ Serve => HonestInv'
<1> SUFFICES ASSUME ControlInv, HonestInv, Serve PROVE HonestInv'
  OBVIOUS
<1>1. PICK c \in toserve : ServeLate(c) \/ ServePending(c) \/ ServeAnswering(c) \/ ServeReading(c)
  BY DEF Serve
<1>2. c \in DOMAIN clients /\ phase' = phase
  BY DEF Serve, ControlInv, ClientsTyped
<1>3. ASSUME NEW ending, Closing(c, ending) PROVE HonestInv'
  <2>1. PICK client : client = [clients[c] EXCEPT !.close = ending] /\ Visited(c, client)
    BY <1>3 DEF Closing
  <2> QED
    BY <1>2, <2>1, VisitKeepsHonest
<1>4. ASSUME Visited(c, clients[c]) PROVE HonestInv'
  <2>1. PICK client : client = clients[c] /\ Visited(c, client)
    BY <1>4
  <2> QED
    BY <1>2, <2>1, VisitKeepsHonest
<1>5. ASSUME NEW client \in Written(clients[c]), Visited(c, client) PROVE HonestInv'
  BY <1>2, <1>5, VisitKeepsHonest
<1>6. ASSUME NEW client \in Written(Responded(clients[c], "sync")), Visited(c, client) PROVE HonestInv'
  BY <1>2, <1>6, VisitKeepsHonest
<1>7. CASE ServeLate(c)
  BY <1>3, <1>7 DEF ServeLate
<1>8. CASE ServePending(c)
  BY <1>3, <1>4, <1>8 DEF ServePending
<1>9. CASE ServeAnswering(c)
  BY <1>5, <1>9 DEF ServeAnswering
<1>10. CASE ServeReading(c)
  <2>1. Reading(c)
    BY <1>10 DEF ServeReading
  <2>2. CASE ReadPart(c)
    BY <1>3, <1>4, <2>2 DEF ReadPart
  <2>3. CASE ReadSync(c)
    BY <1>6, <2>3 DEF ReadSync
  <2>4. ASSUME NEW i \in Instances, ReadAction(c, i) \/ ReadRestart(c, i) PROVE HonestInv'
    BY <1>2, <2>1, <2>4, ReadActionKeepsHonest, ReadRestartKeepsHonest
  <2>5. CASE ReadReload(c)
    BY <1>2, <2>5, ReadReloadKeepsHonest
  <2> QED
    BY <1>10, <2>2, <2>3, <2>4, <2>5 DEF ServeReading
<1> QED
  BY <1>1, <1>7, <1>8, <1>9, <1>10

LEMMA AutomaticReloadKeepsHonest == ControlInv /\ HonestInv /\ AutomaticReload => HonestInv'
<1> SUFFICES ASSUME ControlInv, HonestInv, AutomaticReload PROVE HonestInv'
  OBVIOUS
<1>1. PICK replaced, cancelled : Reloaded(replaced, cancelled)
  BY DEF AutomaticReload
<1>2. clients' = clients /\ phase' = phase
  BY DEF AutomaticReload, server
<1>3. SameToldOrNothing
  BY <1>2 DEF SameToldOrNothing
<1>4. /\ UNCHANGED <<invocations, events, next_id>>
      /\ DOMAIN actions' \subseteq DOMAIN actions
      /\ \A id \in DOMAIN actions' : actions'[id] = actions[id]
      /\ \A id \in DOMAIN completed' :
           completed'[id] = "cancelled" \/ (id \in DOMAIN completed /\ completed'[id] = completed[id])
      /\ \A n \in DOMAIN commands' :
           commands'[n].kind = "replace" \/ (n \in DOMAIN commands /\ commands'[n] = commands[n])
  BY <1>1, ReloadedQuietly
<1> QED
  BY <1>2, <1>3, <1>4, VisitedKeepsHonest

--------------------------------------------------------------------------------
(* The events of a frame, for what is said of the actions.                       *)

\* A delivery starts the deadline of an action that waits; whatever else happens to
\* an action completes it, and a process's answer only once it has the action.
LEMMA ConsumedIs ==
  ASSUME ControlInv, HonestInv, NEW e,
         \/ ConsumeStarted(e) \/ ConsumeReady(e) \/ ConsumeRemoved(e)
         \/ ConsumeDelivery(e) \/ ConsumeResult(e)
  PROVE  /\ DOMAIN actions' \subseteq DOMAIN actions
         /\ \A id \in DOMAIN actions' :
              \/ actions'[id] = actions[id]
              \/ /\ e.kind = "delivery" /\ e.id = id /\ e.succeeded
                 /\ actions'[id] = [actions[id] EXCEPT !.left = e.left]
         /\ \A id \in DOMAIN actions' :
              e.kind = "delivery" /\ e.succeeded /\ Concerns(e, id) /\ e.id = id /\ actions[id].left = Unset
                => actions'[id] = [actions[id] EXCEPT !.left = e.left]
         /\ \A id \in DOMAIN completed' :
              \/ id \in DOMAIN completed /\ completed'[id] = completed[id]
              \/ completed'[id] = "cancelled"
              \/ /\ e.kind = "delivery" /\ e.id = id /\ ~e.succeeded
                 /\ completed'[id] = "undelivered"
              \/ /\ e.kind = "result" /\ e.id = id /\ Concerns(e, id) /\ actions[id].left # Unset
                 /\ completed'[id] = e.answer
<1>1. ASSUME NEW ids, Complete(ids, "cancelled"), e.kind # "delivery" PROVE
         /\ DOMAIN actions' \subseteq DOMAIN actions
         /\ \A id \in DOMAIN actions' : actions'[id] = actions[id]
         /\ \A id \in DOMAIN completed' :
              completed'[id] = "cancelled" \/ (id \in DOMAIN completed /\ completed'[id] = completed[id])
  BY <1>1, CancelsQuietly
<1>2. CASE ConsumeStarted(e)
  <2>1. PICK ids : Complete(ids, "cancelled")
    BY <1>2 DEF ConsumeStarted
  <2> QED
    BY <1>1, <1>2, <2>1 DEF ConsumeStarted
<1>3. CASE ConsumeRemoved(e)
  <2>1. PICK ids : Complete(ids, "cancelled")
    BY <1>3 DEF ConsumeRemoved
  <2> QED
    BY <1>1, <1>3, <2>1 DEF ConsumeRemoved
<1>4. CASE ConsumeReady(e)
  BY <1>4 DEF ConsumeReady
<1>5. CASE e.kind \in {"delivery", "result"} /\ UNCHANGED <<actions, completed>>
           /\ ~(e.kind = "delivery" /\ Concerns(e, e.id) /\ actions[e.id].left = Unset)
  BY <1>5
<1>6. CASE /\ e.kind = "delivery" /\ e.succeeded /\ Concerns(e, e.id)
           /\ actions' = [actions EXCEPT ![e.id].left = e.left] /\ UNCHANGED completed
  BY <1>6 DEF Concerns
<1>7. ASSUME NEW answer, NEW ids, ids = {e.id}, Complete(ids, answer)
      PROVE  /\ DOMAIN actions' = DOMAIN actions \ {e.id}
             /\ \A id \in DOMAIN actions' : actions'[id] = actions[id]
             /\ \A id \in DOMAIN completed' :
                  \/ id = e.id /\ completed'[id] = answer
                  \/ id \in DOMAIN completed /\ completed'[id] = completed[id]
  <2> DEFINE new == [id \in ids |-> answer]
  <2>1. actions' = Remove(actions, ids) /\ completed' = Merged(new, completed)
    BY <1>7 DEF Complete
  <2>2. DOMAIN new = ids /\ \A id \in ids : new[id] = answer
    OBVIOUS
  <2> HIDE DEF new
  <2> QED
    BY <1>7, <2>1, <2>2 DEF Remove, Merged
<1>8. CASE e.kind = "delivery" /\ ~e.succeeded /\ Complete({e.id}, "undelivered")
  <2>1. PICK answer, ids : answer = "undelivered" /\ ids = {e.id} /\ Complete(ids, answer)
    BY <1>8
  <2> QED
    BY <1>7, <1>8, <2>1
<1>9. CASE e.kind = "result" /\ Concerns(e, e.id) /\ actions[e.id].left # Unset /\ Complete({e.id}, e.answer)
  <2>1. PICK answer, ids : answer = e.answer /\ ids = {e.id} /\ Complete(ids, answer)
    BY <1>9
  <2> QED
    BY <1>7, <1>9, <2>1
<1>10. CASE ConsumeDelivery(e)
  BY <1>5, <1>6, <1>8, <1>10 DEF ConsumeDelivery, Delivered
<1>11. CASE ConsumeResult(e)
  BY <1>5, <1>9, <1>11 DEF ConsumeResult, Delivered
<1> QED
  BY <1>2, <1>3, <1>4, <1>10, <1>11

\* The queue without its first event.
LEMMA EventTaken ==
  ASSUME ControlInv, events # <<>>, events' = Tail(events)
  PROVE  /\ 1 \in DOMAIN events /\ Head(events) = events[1] /\ events[1] \in EventRecord
         /\ \A n \in DOMAIN events' : n \in Nat /\ n + 1 \in DOMAIN events /\ events'[n] = events[n + 1]
         /\ \A n \in DOMAIN events : n = 1 \/ (n - 1 \in DOMAIN events' /\ events'[n - 1] = events[n])
<1>1. events \in Seq(EventRecord) /\ Len(events) \in Nat /\ Len(events) > 0 /\ DOMAIN events = 1..Len(events)
  BY LenProperties, EmptySeq DEF ControlInv, SupervisorTyped
<1>2. events[1] \in EventRecord /\ Head(events) = events[1]
  BY <1>1
<1>3. Tail(events) \in Seq(EventRecord) /\ Len(Tail(events)) = Len(events) - 1
      /\ \A n \in 1..(Len(events) - 1) : Tail(events)[n] = events[n + 1]
  BY <1>1, HeadTailProperties
<1>4. DOMAIN events' = 1..(Len(events) - 1)
  BY <1>3, LenProperties
<1> QED
  BY <1>1, <1>2, <1>3, <1>4

LEMMA ConsumeKeepsHonest == ControlInv /\ HonestInv /\ Consume => HonestInv'
<1> SUFFICES ASSUME ControlInv, HonestInv, Consume PROVE HonestInv'
  OBVIOUS
<1>1. /\ events # <<>> /\ events' = Tail(events) /\ phase' = "events"
      /\ UNCHANGED <<clients, next_id, commands, invocations>>
  BY DEF Consume, server
<1>2. PICK e : /\ e = Head(events)
               /\ \/ ConsumeStarted(e) \/ ConsumeReady(e) \/ ConsumeRemoved(e)
                  \/ ConsumeDelivery(e) \/ ConsumeResult(e)
  BY DEF Consume
<1>3. /\ 1 \in DOMAIN events /\ e = events[1] /\ e \in EventRecord
      /\ \A n \in DOMAIN events' : n \in Nat /\ n + 1 \in DOMAIN events /\ events'[n] = events[n + 1]
      /\ \A n \in DOMAIN events : n = 1 \/ (n - 1 \in DOMAIN events' /\ events'[n - 1] = events[n])
  BY <1>1, <1>2, EventTaken
<1>4. /\ DOMAIN actions' \subseteq DOMAIN actions
      /\ \A id \in DOMAIN actions' :
           \/ actions'[id] = actions[id]
           \/ /\ e.kind = "delivery" /\ e.id = id /\ e.succeeded
              /\ actions'[id] = [actions[id] EXCEPT !.left = e.left]
      /\ \A id \in DOMAIN actions' :
           e.kind = "delivery" /\ e.succeeded /\ Concerns(e, id) /\ e.id = id /\ actions[id].left = Unset
             => actions'[id] = [actions[id] EXCEPT !.left = e.left]
      /\ \A id \in DOMAIN completed' :
           \/ id \in DOMAIN completed /\ completed'[id] = completed[id]
           \/ completed'[id] = "cancelled"
           \/ /\ e.kind = "delivery" /\ e.id = id /\ ~e.succeeded
              /\ completed'[id] = "undelivered"
           \/ /\ e.kind = "result" /\ e.id = id /\ Concerns(e, id) /\ actions[id].left # Unset
              /\ completed'[id] = e.answer
  BY <1>2, ConsumedIs
<1>5. \A id \in DOMAIN actions : /\ actions[id] \in ActionRecord /\ id \in DOMAIN invocations
                                 /\ invocations[id].to = <<actions[id].instance, actions[id].generation>>
                                 /\ actions[id].left # Unset => Given(id) /\ InTime(id, actions[id].left)
  BY DEF ControlInv, ActionsTyped, HonestInv, ActionsAreAsSubmitted
<1>6. \A id : Submitted(id)' = Submitted(id) /\ Given(id)' = Given(id)
  BY <1>1 DEF Submitted, Submits, Given
<1>7. ClientsAreTold' /\ WaitsAreTimed'
  <2>1. SameToldOrNothing
    BY <1>1 DEF SameToldOrNothing
  <2>2. \A id : Submitted(id)' => Submitted(id)
    BY <1>1 DEF Submitted, Submits
  <2> QED
    BY <1>1, <1>4, <2>1, <2>2, ClientsStayTold
<1>8. InvocationsTyped' /\ IdsAreKnown' /\ CommandsAreNew'
  BY <1>1, <1>3 DEF HonestInv, InvocationsTyped, IdsAreKnown, CommandsAreNew, Given, Submits
<1>9. e.kind = "delivery" => \A id \in DOMAIN invocations : e.id = id =>
        /\ ~Submitted(id)
        /\ invocations[id].to = <<e.instance, e.generation>>
        /\ e.succeeded => Given(id) /\ InTime(id, e.left)
        /\ ~e.succeeded => ~Given(id)
  BY <1>3 DEF HonestInv, DeliveriesAreTrue, Delivers
<1>10. CompletionsAreTrue'
  <2>1. ASSUME NEW id \in DOMAIN completed', id \in DOMAIN invocations, NEW answer, answer = completed'[id]
        PROVE  Justified(id, answer)'
    <3>1. CASE id \in DOMAIN completed /\ completed'[id] = completed[id]
      <4>1. Justified(id, answer)
        BY <2>1, <3>1 DEF HonestInv, CompletionsAreTrue
      <4> QED
        BY <1>1, <1>6, <4>1 DEF Justified
    <3>2. CASE answer = "cancelled"
      BY <3>2 DEF Justified
    <3>3. CASE e.kind = "delivery" /\ e.id = id /\ ~e.succeeded /\ answer = "undelivered"
      BY <1>6, <1>9, <2>1, <3>3 DEF Justified
    <3>4. CASE e.kind = "result" /\ e.id = id /\ Concerns(e, id) /\ actions[id].left # Unset /\ answer = e.answer
      <4>1. id \in DOMAIN actions /\ invocations[id].to = <<e.instance, e.generation>>
        BY <1>5, <3>4 DEF Concerns
      <4>2. Replies(1, id)
        BY <1>3, <3>4, <4>1 DEF Replies
      <4>3. <<invocations[id].to, answer>> \in invocations[id].said
        BY <1>3, <2>1, <3>4, <4>1, <4>2 DEF HonestInv, RepliesAreSaid
      <4>4. answer \in {"accepted", "rejected"}
        BY <1>3, <3>4 DEF EventRecord
      <4> QED
        BY <1>1, <4>3, <4>4 DEF Justified
    <3> QED
      BY <1>4, <2>1, <3>1, <3>2, <3>3, <3>4
  <2> QED
    BY <1>1, <2>1 DEF CompletionsAreTrue, Justified, Given, Submitted, Submits
<1>11. ActionsAreAsSubmitted'
  <2>1. ASSUME NEW id \in DOMAIN actions'
        PROVE  /\ id \in DOMAIN invocations
               /\ invocations[id].to = <<actions'[id].instance, actions'[id].generation>>
               /\ actions'[id].left # Unset => Given(id) /\ InTime(id, actions'[id].left)
    <3>1. CASE actions'[id] = actions[id]
      BY <1>4, <1>5, <2>1, <3>1
    <3>2. CASE /\ e.kind = "delivery" /\ e.id = id /\ e.succeeded
               /\ actions'[id] = [actions[id] EXCEPT !.left = e.left]
      <4>1. /\ actions'[id].instance = actions[id].instance /\ actions'[id].left = e.left
            /\ actions'[id].generation = actions[id].generation
        BY <1>4, <1>5, <2>1, <3>2 DEF ActionRecord
      <4> QED
        BY <1>4, <1>5, <1>9, <2>1, <3>2, <4>1
    <3> QED
      BY <1>4, <2>1, <3>1, <3>2
  <2> QED
    BY <1>1, <2>1 DEF ActionsAreAsSubmitted, Given, InTime
<1>0. UNCHANGED <<commands, invocations>>
  BY <1>1
<1>12. DeliveriesAreTrue'
  <2>1. ASSUME NEW n \in DOMAIN events', NEW id \in DOMAIN invocations,
               events'[n].kind = "delivery", events'[n].id = id
        PROVE  /\ ~Submitted(id)
               /\ invocations[id].to = <<events'[n].instance, events'[n].generation>>
               /\ events'[n].succeeded => Given(id) /\ InTime(id, events'[n].left)
               /\ ~events'[n].succeeded => ~Given(id)
    <3>1. Delivers(n + 1, id) /\ n + 1 \in DOMAIN events /\ events'[n] = events[n + 1]
      BY <1>3, <2>1 DEF Delivers
    <3> QED
      BY <3>1, <2>1 DEF HonestInv, DeliveriesAreTrue
  <2> QED
    BY <1>0, <2>1 DEF DeliveriesAreTrue, Delivers, Given, InTime, Submitted, Submits
<1>13. RepliesAreSaid'
  <2>1. ASSUME NEW n \in DOMAIN events', NEW id \in DOMAIN invocations, events'[n].kind = "result",
               events'[n].id = id, invocations[id].to = <<events'[n].instance, events'[n].generation>>,
               <<invocations[id].to, events'[n].answer>> \notin invocations[id].said
        PROVE  /\ id \in DOMAIN actions' => actions'[id].left = Unset
               /\ \A m \in DOMAIN events' :
                    m < n => ~(events'[m].kind = "delivery" /\ events'[m].id = id /\ events'[m].succeeded)
    <3>1. Replies(n + 1, id) /\ n \in Nat /\ n + 1 \in DOMAIN events /\ events'[n] = events[n + 1]
      BY <1>3, <2>1 DEF Replies
    <3>2. /\ id \in DOMAIN actions => actions[id].left = Unset
          /\ \A m \in DOMAIN events : m < n + 1 => ~Succeeds(m, id)
      BY <2>1, <3>1 DEF HonestInv, RepliesAreSaid
    <3>3. ASSUME NEW m \in DOMAIN events', m < n
          PROVE  ~(events'[m].kind = "delivery" /\ events'[m].id = id /\ events'[m].succeeded)
      <4>1. m \in Nat /\ m + 1 \in DOMAIN events /\ events'[m] = events[m + 1] /\ m + 1 < n + 1
        BY <1>3, <3>1, <3>3
      <4>2. ~Succeeds(m + 1, id)
        BY <3>2, <4>1
      <4> QED
        BY <4>1, <4>2 DEF Succeeds, Delivers
    <3>4. n # 0
      <4>1. events \in Seq(EventRecord)
        BY DEF ControlInv, SupervisorTyped
      <4>2. DOMAIN events' \subseteq Nat \ {0}
        BY <1>1, <4>1, HeadTailProperties, LenProperties
      <4> QED
        BY <4>2
    <3>5. ~(e.kind = "delivery" /\ e.id = id /\ e.succeeded)
      BY <1>3, <3>1, <3>2, <3>4 DEF Succeeds, Delivers
    <3> QED
      BY <1>4, <3>2, <3>3, <3>5
  <2> QED
    BY <1>0, <2>1 DEF RepliesAreSaid, Replies, Succeeds, Delivers
<1>14. GivenIsReported'
  <2>1. ASSUME NEW id \in DOMAIN actions', Given(id), actions'[id].left = Unset
        PROVE  \E n \in DOMAIN events' :
                 events'[n].kind = "delivery" /\ events'[n].id = id /\ events'[n].succeeded
    <3>1. actions[id] \in ActionRecord
      BY <1>4, <1>5, <2>1
    <3>2. e.kind = "delivery" => e.left # Unset
      BY <1>3, ControlAssumption DEF EventRecord, Unset
    <3>3. ~(e.kind = "delivery" /\ actions'[id] = [actions[id] EXCEPT !.left = e.left])
      BY <2>1, <3>1, <3>2 DEF ActionRecord
    <3>4. actions'[id] = actions[id] /\ actions[id].left = Unset
      BY <1>4, <2>1, <3>3
    <3>5. PICK n \in DOMAIN events : Succeeds(n, id)
      BY <1>4, <2>1, <3>4 DEF HonestInv, GivenIsReported
    <3>6. n # 1
      <4> SUFFICES ASSUME n = 1 PROVE FALSE
        OBVIOUS
      <4>1. e.kind = "delivery" /\ e.id = id /\ e.succeeded
        BY <1>3, <3>5 DEF Succeeds, Delivers
      <4>2. Concerns(e, id)
        BY <1>4, <1>5, <1>9, <2>1, <4>1 DEF Concerns
      <4> QED
        BY <1>4, <2>1, <3>3, <3>4, <4>1, <4>2
    <3> QED
      BY <1>3, <3>5, <3>6 DEF Succeeds, Delivers
  <2> QED
    BY <1>1, <2>1 DEF GivenIsReported, Given, Succeeds, Delivers
<1> QED
  BY <1>7, <1>8, <1>10, <1>11, <1>12, <1>13, <1>14 DEF HonestInv

--------------------------------------------------------------------------------
(* The answers of a frame, for what is said of the actions.                      *)

LEMMA AdmittedIs ==
  ASSUME NEW served, DOMAIN served = DOMAIN clients, Admit(served)
  PROVE  \A c \in DOMAIN clients' \ DOMAIN clients : clients'[c] = NewClient
<1>1. PICK admitted : clients' = Merged([c \in arrived + 1..arrived + admitted |-> NewClient], served)
  BY DEF Admit
<1>2. PICK new : /\ \A c \in DOMAIN new : new[c] = NewClient
                 /\ clients' = Merged(new, served)
  BY <1>1
<1> QED
  BY <1>2 DEF Merged

\* Connections are told what is true of the action they wait for, or nothing.
LEMMA AnsweredKeepsHonest ==
  ASSUME ControlInv, HonestInv, UNCHANGED <<next_id, commands, events, invocations>>, phase' = "serve",
         NEW answers, Admit(Completed(answers)),
         \A id \in DOMAIN answers : /\ id # NoToken /\ answers[id] \in Answers
                                    /\ id \in DOMAIN invocations => Justified(id, answers[id]),
         DOMAIN completed' = {}, DOMAIN actions' \subseteq DOMAIN actions,
         \A id \in DOMAIN actions' : actions'[id] = actions[id],
         \A c \in DOMAIN clients :
           Pending(c) /\ clients[c].token \notin DOMAIN answers
             => /\ clients[c].token \in DOMAIN actions
                /\ clients[c].left = 0
                     => \/ invocations[clients[c].token].handed = Unset
                        \/ invocations[clients[c].token].handed + ActionTimeout > PendingTimeout
  PROVE  HonestInv'
<1>1. PICK served : served = Completed(answers) /\ Admit(served)
  OBVIOUS
<1>2. /\ DOMAIN served = DOMAIN clients
      /\ \A c \in DOMAIN clients :
           /\ served[c] \in Client
           /\ served[c].token = IF clients[c].token \in DOMAIN answers THEN NoToken ELSE clients[c].token
  BY <1>1, CompletedTyped
<1>3. /\ \A c \in DOMAIN clients : clients'[c] = served[c]
      /\ \A c \in DOMAIN clients' \ DOMAIN clients : clients'[c] = NewClient
  BY <1>1, <1>2, AdmitTyped, AdmittedIs
<1>4. \A c \in DOMAIN clients :
        IF clients[c].token \in DOMAIN answers
        THEN /\ clients'[c].answer = answers[clients[c].token] /\ clients'[c].asked = clients[c].asked
             /\ clients'[c].token = NoToken
        ELSE clients'[c] = clients[c]
  <2>1. \A c \in DOMAIN clients : clients[c] \in Client
    BY DEF ControlInv, ClientsTyped
  <2> QED
    BY <1>1, <1>3, <2>1 DEF Completed, Responded, Client
<1>5. NewClient.token = NoToken /\ NewClient.answer \notin Telling
  BY DEF NewClient, Telling
<1>6. \A id : Submitted(id)' = Submitted(id) /\ Given(id)' = Given(id)
  BY DEF Submitted, Submits, Given
<1>7. ASSUME NEW c \in DOMAIN clients', clients'[c].token # NoToken
      PROVE  c \in DOMAIN clients /\ clients'[c] = clients[c] /\ clients[c].token \notin DOMAIN answers
  BY <1>3, <1>4, <1>5, <1>7
<1>8. ClientsAreTold'
  <2>1. ASSUME NEW c \in DOMAIN clients', NEW asked, asked = clients'[c].asked,
               NEW answer \in Telling, answer = clients'[c].answer
        PROVE  asked \in DOMAIN invocations /\ Justified(asked, answer)'
    <3>1. c \in DOMAIN clients
      BY <1>3, <1>5, <2>1
    <3>2. CASE clients[c].token \in DOMAIN answers
      <4>1. answer = answers[clients[c].token] /\ asked = clients[c].token /\ asked \in DOMAIN invocations
        BY <1>4, <2>1, <3>1, <3>2 DEF HonestInv, ClientsAreTold, Pending
      <4>2. Justified(asked, answer)
        BY <3>2, <4>1
      <4> QED
        BY <1>6, <4>1, <4>2 DEF Justified
    <3>3. CASE clients[c].token \notin DOMAIN answers
      <4>1. asked \in DOMAIN invocations /\ Justified(asked, answer)
        BY <1>4, <2>1, <3>1, <3>3 DEF HonestInv, ClientsAreTold
      <4> QED
        BY <1>6, <4>1 DEF Justified
    <3> QED
      BY <3>2, <3>3
  <2>2. \A c \in DOMAIN clients' : clients'[c].token # NoToken
          => clients'[c].asked = clients'[c].token /\ clients'[c].token \in DOMAIN invocations
    BY <1>7 DEF HonestInv, ClientsAreTold, Pending
  <2> QED
    BY <2>1, <2>2 DEF ClientsAreTold, Pending, Justified, Given, Submitted, Submits
<1>9. WaitsAreTimed'
  <2>1. ASSUME NEW c \in DOMAIN clients', clients'[c].token # NoToken
        PROVE  /\ clients'[c].left # Unset
               /\ invocations[clients'[c].token].age + clients'[c].left = PendingTimeout
               /\ clients'[c].left = 0
                    => \/ invocations[clients'[c].token].handed = Unset
                       \/ invocations[clients'[c].token].handed + ActionTimeout > PendingTimeout
    BY <1>7, <2>1 DEF HonestInv, WaitsAreTimed, Pending
  <2> QED
    BY <2>1 DEF WaitsAreTimed, Pending
<1>10. InvocationsTyped' /\ IdsAreKnown' /\ CommandsAreNew' /\ CompletionsAreTrue'
  BY DEF HonestInv, InvocationsTyped, IdsAreKnown, CommandsAreNew, CompletionsAreTrue, Given, Submits
<1>11. ActionsAreAsSubmitted' /\ RepliesAreSaid' /\ GivenIsReported'
  BY DEF HonestInv, ActionsAreAsSubmitted, RepliesAreSaid, GivenIsReported, Given, InTime, Replies,
         Succeeds, Delivers
<1>12. DeliveriesAreTrue'
  <2>1. ASSUME NEW n \in DOMAIN events, NEW id \in DOMAIN invocations, Delivers(n, id)
        PROVE  /\ ~Submitted(id)
               /\ invocations[id].to = <<events[n].instance, events[n].generation>>
               /\ events[n].succeeded => Given(id) /\ InTime(id, events[n].left)
               /\ ~events[n].succeeded => ~Given(id)
    BY <2>1 DEF HonestInv, DeliveriesAreTrue
  <2> QED
    BY <2>1 DEF DeliveriesAreTrue, Delivers, Given, InTime, Submitted, Submits
<1> QED
  BY <1>8, <1>9, <1>10, <1>11, <1>12 DEF HonestInv

LEMMA AnswerKeepsHonest == ControlInv /\ HonestInv /\ Answer => HonestInv'
<1> SUFFICES ASSUME ControlInv, HonestInv, Answer PROVE HonestInv'
  OBVIOUS
<1>1. PICK overdue : /\ overdue = {id \in DOMAIN actions : actions[id].left = 0}
                     /\ Admit(Completed(Merged([id \in overdue |-> "timeout"], completed)))
                     /\ actions' = Remove(actions, overdue)
  BY DEF Answer
<1>2. PICK timeouts : timeouts = [id \in overdue |-> "timeout"] /\ Admit(Completed(Merged(timeouts, completed)))
  BY <1>1
<1>3. DOMAIN timeouts = overdue /\ \A id \in overdue : timeouts[id] = "timeout"
  BY <1>2
<1>4. PICK answers : answers = Merged(timeouts, completed) /\ Admit(Completed(answers))
  BY <1>2
<1>5. /\ DOMAIN answers = overdue \cup DOMAIN completed
      /\ \A id \in overdue : answers[id] = "timeout"
      /\ \A id \in DOMAIN completed \ overdue : answers[id] = completed[id]
  BY <1>3, <1>4 DEF Merged
<1>6. /\ UNCHANGED <<next_id, commands, events, invocations>> /\ phase' = "serve"
      /\ events = <<>> /\ DOMAIN completed' = {}
  BY DEF Answer, supervisor
<1>7. DOMAIN actions' = DOMAIN actions \ overdue /\ \A id \in DOMAIN actions' : actions'[id] = actions[id]
  BY <1>1 DEF Remove
<1>8. \A id \in DOMAIN actions :
        /\ id \in DOMAIN invocations /\ id \in Nat \ {0} /\ actions[id].left \in {Unset} \cup 0..ActionTimeout
        /\ actions[id].left # Unset => Given(id) /\ InTime(id, actions[id].left)
        /\ Given(id) => actions[id].left # Unset
  <2>1. \A id \in DOMAIN actions : id \in Nat \ {0} /\ actions[id].left \in {Unset} \cup 0..ActionTimeout
    BY DEF ControlInv, ActionsTyped, ActionRecord
  <2>2. \A id \in DOMAIN actions : Given(id) => actions[id].left # Unset
    BY <1>6 DEF HonestInv, GivenIsReported
  <2> QED
    BY <2>1, <2>2 DEF HonestInv, ActionsAreAsSubmitted
<1>9. ASSUME NEW id \in DOMAIN answers
      PROVE  /\ id # NoToken /\ answers[id] \in Answers
             /\ id \in DOMAIN invocations => Justified(id, answers[id])
  <2>1. CASE id \in overdue
    <3>1. id \in DOMAIN actions /\ Given(id)
      BY <1>1, <1>8, <2>1 DEF Unset
    <3>2. PICK answer : answer = "timeout"
      OBVIOUS
    <3>3. answer \in Answers /\ Justified(id, answer)
      BY <3>1, <3>2 DEF Answers, Justified
    <3> QED
      BY <1>5, <1>8, <2>1, <3>1, <3>2, <3>3 DEF NoToken
  <2>2. CASE id \in DOMAIN completed \ overdue
    <3>1. answers[id] = completed[id] /\ id # NoToken /\ completed[id] \in Answers
      BY <1>5, <2>2 DEF ControlInv, IdsAreFresh, ActionsTyped, NoToken
    <3>2. id \in DOMAIN invocations => Justified(id, completed[id])
      BY <2>2 DEF HonestInv, CompletionsAreTrue
    <3> QED
      BY <3>1, <3>2
  <2> QED
    BY <1>5, <2>1, <2>2
<1>10. ASSUME NEW c \in DOMAIN clients, Pending(c), clients[c].token \notin DOMAIN answers
       PROVE  /\ clients[c].token \in DOMAIN actions
              /\ clients[c].left = 0
                   => \/ invocations[clients[c].token].handed = Unset
                      \/ invocations[clients[c].token].handed + ActionTimeout > PendingTimeout
  <2>1. clients[c].token \in DOMAIN actions \ overdue
    BY <1>5, <1>10 DEF ControlInv, PendingActionsAreOwned
  <2>2. PICK id : id = clients[c].token
    OBVIOUS
  <2>3. /\ id \in DOMAIN actions /\ actions[id].left # 0 /\ id \in DOMAIN invocations
        /\ invocations[id] \in InvocationRecord
    BY <1>1, <1>8, <2>1, <2>2 DEF HonestInv, InvocationsTyped
  <2>4. ASSUME clients[c].left = 0, Given(id)
        PROVE  invocations[id].handed + ActionTimeout > PendingTimeout
    <3>1. invocations[id].age + clients[c].left = PendingTimeout
      BY <1>10, <2>2, <2>3 DEF HonestInv, WaitsAreTimed
    <3>2. actions[id].left \in 1..ActionTimeout /\ InTime(id, actions[id].left)
      BY <1>8, <2>3, <2>4, ControlAssumption DEF Unset
    <3>3. /\ invocations[id].age \in Nat /\ invocations[id].handed \in Nat
          /\ actions[id].left <= invocations[id].handed + ActionTimeout - invocations[id].age
      BY <2>3, <2>4, <3>2 DEF InvocationRecord, Given, InTime, Within
    <3> QED
      BY <2>4, <3>1, <3>2, <3>3, ControlAssumption
  <2> QED
    BY <2>1, <2>2, <2>4 DEF Given
<1> QED
  BY <1>4, <1>6, <1>7, <1>9, <1>10, AnsweredKeepsHonest

LEMMA QuitKeepsHonest == ControlInv /\ HonestInv /\ Quit => HonestInv'
<1> SUFFICES ASSUME ControlInv, HonestInv, Quit PROVE HonestInv'
  OBVIOUS
<1>1. PICK cancelled : /\ cancelled = [id \in DOMAIN actions |-> "cancelled"]
                       /\ Admit(Completed(Merged(cancelled, completed)))
  BY DEF Quit
<1>2. DOMAIN cancelled = DOMAIN actions /\ \A id \in DOMAIN actions : cancelled[id] = "cancelled"
  BY <1>1
<1>3. PICK answers : answers = Merged(cancelled, completed) /\ Admit(Completed(answers))
  BY <1>1
<1>4. /\ DOMAIN answers = DOMAIN actions \cup DOMAIN completed
      /\ \A id \in DOMAIN actions : answers[id] = "cancelled"
      /\ \A id \in DOMAIN completed \ DOMAIN actions : answers[id] = completed[id]
  BY <1>2, <1>3 DEF Merged
<1>5. /\ UNCHANGED <<next_id, commands, events, invocations>> /\ phase' = "serve"
      /\ DOMAIN actions' = {} /\ DOMAIN completed' = {}
  BY DEF Quit, supervisor
<1>6. ASSUME NEW id \in DOMAIN answers
      PROVE  /\ id # NoToken /\ answers[id] \in Answers
             /\ id \in DOMAIN invocations => Justified(id, answers[id])
  <2>1. CASE id \in DOMAIN actions
    <3>1. PICK answer : answer = "cancelled"
      OBVIOUS
    <3>2. answer \in Answers /\ Justified(id, answer)
      BY <3>1 DEF Answers, Justified
    <3>3. id # NoToken
      BY <2>1 DEF ControlInv, ActionsTyped, NoToken
    <3> QED
      BY <1>4, <2>1, <3>1, <3>2, <3>3
  <2>2. CASE id \in DOMAIN completed \ DOMAIN actions
    <3>1. answers[id] = completed[id] /\ id # NoToken /\ completed[id] \in Answers
      BY <1>4, <2>2 DEF ControlInv, IdsAreFresh, ActionsTyped, NoToken
    <3>2. id \in DOMAIN invocations => Justified(id, completed[id])
      BY <2>2 DEF HonestInv, CompletionsAreTrue
    <3> QED
      BY <3>1, <3>2
  <2> QED
    BY <1>4, <2>1, <2>2
<1>7. \A c \in DOMAIN clients : Pending(c) => clients[c].token \in DOMAIN answers
  BY <1>4 DEF ControlInv, PendingActionsAreOwned
<1> QED
  BY <1>3, <1>5, <1>6, <1>7, AnsweredKeepsHonest

--------------------------------------------------------------------------------
(* The end of a frame and the time between two, for what is said of the actions. *)

LEMMA EndAdvanceKeepsHonest == ControlInv /\ HonestInv /\ EndAdvance => HonestInv'
<1> SUFFICES ASSUME ControlInv, HonestInv, EndAdvance PROVE HonestInv'
  OBVIOUS
<1>1. PICK closed : /\ actions' = Remove(actions, TokensOf(closed))
                    /\ clients' = IF quitting THEN <<>> ELSE Remove(clients, closed)
  BY DEF EndAdvance
<1>2. /\ UNCHANGED <<completed, next_id, commands, events>> /\ phase' # "serve"
      /\ invocations' = Remove(invocations, DOMAIN invocations \ {clients'[c].asked : c \in DOMAIN clients'})
  BY DEF EndAdvance, supervisor
<1>3. /\ DOMAIN actions' \subseteq DOMAIN actions /\ \A id \in DOMAIN actions' : actions'[id] = actions[id]
      /\ DOMAIN clients' \subseteq DOMAIN clients /\ \A c \in DOMAIN clients' : clients'[c] = clients[c]
  BY <1>1 DEF Remove
<1>4. /\ DOMAIN invocations' = {id \in DOMAIN invocations : \E c \in DOMAIN clients' : clients'[c].asked = id}
      /\ \A id \in DOMAIN invocations' : invocations'[id] = invocations[id]
  <2>1. PICK asked : /\ asked = {clients'[c].asked : c \in DOMAIN clients'}
                     /\ invocations' = Remove(invocations, DOMAIN invocations \ asked)
    BY <1>2
  <2>2. DOMAIN invocations' = DOMAIN invocations \cap asked
        /\ \A id \in DOMAIN invocations' : invocations'[id] = invocations[id]
    BY <2>1 DEF Remove
  <2> QED
    BY <2>1, <2>2
<1>5. \A id \in DOMAIN invocations' : Given(id)' = Given(id)
  BY <1>4 DEF Given
<1>6. ClientsAreTold'
  <2>1. ASSUME NEW c \in DOMAIN clients', NEW asked, asked = clients'[c].asked,
               NEW answer \in Telling, answer = clients'[c].answer
        PROVE  asked \in DOMAIN invocations' /\ Justified(asked, answer)'
    <3>1. asked \in DOMAIN invocations /\ Justified(asked, answer)
      BY <1>3, <2>1 DEF HonestInv, ClientsAreTold
    <3>2. asked \in DOMAIN invocations' /\ invocations'[asked] = invocations[asked]
      BY <1>4, <2>1, <3>1
    <3> QED
      BY <1>2, <1>5, <3>1, <3>2 DEF Justified, Submitted, Submits
  <2>2. \A c \in DOMAIN clients' : clients'[c].token # NoToken
          => clients'[c].asked = clients'[c].token /\ clients'[c].token \in DOMAIN invocations'
    BY <1>3, <1>4 DEF HonestInv, ClientsAreTold, Pending
  <2> QED
    BY <2>1, <2>2 DEF ClientsAreTold, Pending, Justified, Given, Submitted, Submits
<1>7. WaitsAreTimed'
  <2>1. ASSUME NEW c \in DOMAIN clients', clients'[c].token # NoToken, clients'[c].token \in DOMAIN actions'
        PROVE  /\ clients'[c].left # Unset
               /\ invocations'[clients'[c].token].age + clients'[c].left = PendingTimeout
    <3>1. clients'[c].asked = clients'[c].token /\ clients'[c].token \in DOMAIN invocations
      BY <1>3, <2>1 DEF HonestInv, ClientsAreTold, Pending
    <3>2. invocations'[clients'[c].token] = invocations[clients'[c].token]
      BY <1>4, <2>1, <3>1
    <3>3. /\ clients[c].left # Unset
          /\ invocations[clients[c].token].age + clients[c].left = PendingTimeout
      BY <1>3, <2>1 DEF HonestInv, WaitsAreTimed, Pending
    <3> QED
      BY <1>3, <3>2, <3>3
  <2> QED
    BY <1>2, <2>1 DEF WaitsAreTimed, Pending
<1>8. ActionsAreAsSubmitted'
  <2>1. ASSUME NEW id \in DOMAIN actions' PROVE id \in DOMAIN invocations'
    <3>1. PICK c \in DOMAIN clients' : clients'[c].token = id
      BY <2>1, EndAdvancePreserves DEF ControlInv, PendingActionsAreOwned
    <3>2. id # NoToken
      BY <1>3, <2>1 DEF ControlInv, ActionsTyped, NoToken
    <3> QED
      BY <1>3, <1>4, <3>1, <3>2 DEF HonestInv, ClientsAreTold, Pending
  <2> QED
    BY <1>3, <1>4, <2>1 DEF HonestInv, ActionsAreAsSubmitted, Given, InTime
<1>0. UNCHANGED <<completed, next_id, commands, events>>
  BY <1>2
<1>9. InvocationsTyped' /\ IdsAreKnown' /\ CommandsAreNew'
  <2>1. InvocationsTyped' /\ IdsAreKnown'
    BY <1>0, <1>4 DEF HonestInv, InvocationsTyped, IdsAreKnown
  <2>2. CommandsAreNew'
    BY <1>0, <1>4 DEF HonestInv, CommandsAreNew, Given, Submits
  <2> QED
    BY <2>1, <2>2
<1>10. CompletionsAreTrue'
  <2>1. ASSUME NEW id \in DOMAIN completed, id \in DOMAIN invocations', NEW answer, answer = completed[id]
        PROVE  Justified(id, answer)'
    <3>1. Justified(id, answer)
      BY <1>4, <2>1 DEF HonestInv, CompletionsAreTrue
    <3> QED
      BY <1>2, <1>4, <2>1, <3>1 DEF Justified, Given, Submitted, Submits
  <2> QED
    BY <1>2, <2>1 DEF CompletionsAreTrue, Justified, Given, Submitted, Submits
<1>11. DeliveriesAreTrue'
  <2>1. ASSUME NEW n \in DOMAIN events, NEW id \in DOMAIN invocations', Delivers(n, id)
        PROVE  /\ ~Submitted(id)
               /\ invocations'[id].to = <<events[n].instance, events[n].generation>>
               /\ events[n].succeeded
                    => /\ Given(id)
                       /\ Within(events[n].left, invocations'[id].handed, invocations'[id].age)
               /\ ~events[n].succeeded => ~Given(id)
    <3>1. /\ ~Submitted(id)
          /\ invocations[id].to = <<events[n].instance, events[n].generation>>
          /\ events[n].succeeded => Given(id) /\ InTime(id, events[n].left)
          /\ ~events[n].succeeded => ~Given(id)
      BY <1>4, <2>1 DEF HonestInv, DeliveriesAreTrue
    <3> QED
      BY <1>4, <2>1, <3>1 DEF InTime
  <2> QED
    BY <1>0, <1>5, <2>1 DEF DeliveriesAreTrue, Delivers, Given, InTime, Submitted, Submits
<1>12. RepliesAreSaid' /\ GivenIsReported'
  <2>1. RepliesAreSaid'
    BY <1>2, <1>3, <1>4 DEF HonestInv, RepliesAreSaid, Replies, Succeeds, Delivers
  <2>2. \A id \in DOMAIN actions' : id \in DOMAIN invocations'
    BY <1>8 DEF ActionsAreAsSubmitted
  <2>3. GivenIsReported'
    BY <1>2, <1>3, <1>4, <2>2 DEF HonestInv, GivenIsReported, Given, Succeeds, Delivers
  <2> QED
    BY <2>1, <2>3
<1> QED
  BY <1>6, <1>7, <1>8, <1>9, <1>10, <1>11, <1>12 DEF HonestInv

LEMMA TickKeepsHonest == ControlInv /\ HonestInv /\ Tick => HonestInv'
<1> SUFFICES ASSUME ControlInv, HonestInv, Tick PROVE HonestInv'
  OBVIOUS
<1>1. /\ phase' = "idle" /\ UNCHANGED <<completed, next_id, commands>>
      /\ clients' = [c \in DOMAIN clients |-> [clients[c] EXCEPT !.left = Passed(@)]]
      /\ actions' = [id \in DOMAIN actions |-> [actions[id] EXCEPT !.left = Passed(@)]]
      /\ events' = [n \in DOMAIN events |->
                      IF events[n].kind = "delivery" THEN [events[n] EXCEPT !.left = Passed(@)]
                      ELSE events[n]]
      /\ invocations' = [id \in DOMAIN invocations |->
                           [invocations[id] EXCEPT
                              !.age = IF id \in DOMAIN actions /\ @ < PendingTimeout THEN @ + 1 ELSE @]]
  BY DEF Tick
<1>2. /\ DOMAIN clients' = DOMAIN clients
      /\ \A c \in DOMAIN clients :
           /\ clients'[c].token = clients[c].token /\ clients'[c].asked = clients[c].asked
           /\ clients'[c].answer = clients[c].answer /\ clients'[c].left = Passed(clients[c].left)
           /\ clients[c].left \in Nat \cup {Unset}
  <2>1. \A c \in DOMAIN clients : clients[c] \in Client
    BY DEF ControlInv, ClientsTyped
  <2> QED
    BY <1>1, <2>1 DEF Client
<1>3. /\ DOMAIN actions' = DOMAIN actions
      /\ \A id \in DOMAIN actions :
           /\ actions'[id].instance = actions[id].instance
           /\ actions'[id].generation = actions[id].generation
           /\ actions'[id].left = Passed(actions[id].left) /\ actions[id].left \in Nat \cup {Unset}
  <2>1. \A id \in DOMAIN actions : actions[id] \in ActionRecord
    BY DEF ControlInv, ActionsTyped
  <2> QED
    BY <1>1, <2>1 DEF ActionRecord
<1>4. /\ DOMAIN events' = DOMAIN events
      /\ \A n \in DOMAIN events :
           IF events[n].kind = "delivery"
           THEN /\ events'[n].kind = "delivery" /\ events'[n].id = events[n].id
                /\ events'[n].instance = events[n].instance /\ events'[n].generation = events[n].generation
                /\ events'[n].succeeded = events[n].succeeded /\ events'[n].left = Passed(events[n].left)
                /\ events[n].left \in Nat
           ELSE events'[n] = events[n]
  <2>1. \A n \in DOMAIN events : events[n] \in EventRecord
    BY DEF ControlInv, SupervisorTyped
  <2> QED
    BY <1>1, <2>1 DEF EventRecord
<1>5. /\ DOMAIN invocations' = DOMAIN invocations
      /\ \A id \in DOMAIN invocations :
           /\ invocations'[id].to = invocations[id].to /\ invocations'[id].handed = invocations[id].handed
           /\ invocations'[id].said = invocations[id].said
           /\ invocations[id].age \in 0..PendingTimeout
           /\ invocations'[id].age = IF id \in DOMAIN actions /\ invocations[id].age < PendingTimeout
                                     THEN invocations[id].age + 1 ELSE invocations[id].age
           /\ invocations[id] \in InvocationRecord /\ invocations'[id] \in InvocationRecord
  <2>1. \A id \in DOMAIN invocations : invocations[id] \in InvocationRecord
    BY DEF HonestInv, InvocationsTyped
  <2> QED
    BY <1>1, <2>1, ControlAssumption DEF InvocationRecord
<1>6. /\ phase' = "idle" /\ UNCHANGED <<completed, next_id, commands>>
  BY <1>1
<1>7. \A id \in DOMAIN invocations : Given(id)' = Given(id)
  BY <1>5 DEF Given
<1>8. \A id : Submitted(id)' = Submitted(id)
  BY <1>6 DEF Submitted, Submits
<1>9. ASSUME NEW id \in DOMAIN invocations, NEW left \in Nat, InTime(id, left), Given(id)
      PROVE  Within(Passed(left), invocations'[id].handed, invocations'[id].age)
  <2>1. invocations[id].handed \in Nat
    BY <1>5, <1>9 DEF InvocationRecord, Given
  <2> QED
    BY <1>5, <1>9, <2>1, ControlAssumption DEF InTime, Within, Passed
<1>10. ASSUME NEW id \in DOMAIN invocations, NEW answer, Justified(id, answer)
       PROVE  Justified(id, answer)'
  BY <1>5, <1>7, <1>8, <1>10 DEF Justified
<1>11. ClientsAreTold'
  <2>1. ASSUME NEW c \in DOMAIN clients', NEW asked, asked = clients'[c].asked,
               NEW answer \in Telling, answer = clients'[c].answer
        PROVE  asked \in DOMAIN invocations' /\ Justified(asked, answer)'
    BY <1>2, <1>5, <1>10, <2>1 DEF HonestInv, ClientsAreTold
  <2>2. \A c \in DOMAIN clients' : clients'[c].token # NoToken
          => clients'[c].asked = clients'[c].token /\ clients'[c].token \in DOMAIN invocations'
    BY <1>2, <1>5 DEF HonestInv, ClientsAreTold, Pending
  <2> QED
    BY <2>1, <2>2 DEF ClientsAreTold, Pending, Justified, Given, Submitted, Submits
<1>12. CompletionsAreTrue'
  <2>1. ASSUME NEW id \in DOMAIN completed, id \in DOMAIN invocations, NEW answer, answer = completed[id]
        PROVE  Justified(id, answer)'
    BY <1>10, <2>1 DEF HonestInv, CompletionsAreTrue
  <2> QED
    BY <1>5, <1>6, <2>1 DEF CompletionsAreTrue, Justified, Given, Submitted, Submits
<1>13. ActionsAreAsSubmitted'
  <2>1. ASSUME NEW id \in DOMAIN actions
        PROVE  /\ id \in DOMAIN invocations
               /\ invocations[id].to = <<actions[id].instance, actions[id].generation>>
               /\ actions'[id].left # Unset
                    => /\ Given(id)
                       /\ Within(actions'[id].left, invocations'[id].handed, invocations'[id].age)
    <3>1. PICK left \in Nat \cup {Unset} : left = actions[id].left
      BY <1>3
    <3>2. /\ id \in DOMAIN invocations
          /\ invocations[id].to = <<actions[id].instance, actions[id].generation>>
          /\ left # Unset => Given(id) /\ InTime(id, left)
      BY <3>1 DEF HonestInv, ActionsAreAsSubmitted
    <3>3. actions'[id].left = Passed(left)
      BY <1>3, <3>1
    <3>4. CASE left = Unset
      BY <3>2, <3>3, <3>4 DEF Passed, Unset
    <3>5. CASE left # Unset
      <4>1. Within(Passed(left), invocations'[id].handed, invocations'[id].age)
        BY <1>9, <3>1, <3>2, <3>5
      <4> QED
        BY <3>2, <3>3, <3>5, <4>1
    <3> QED
      BY <3>4, <3>5
  <2> QED
    BY <1>3, <1>5, <1>7, <2>1 DEF ActionsAreAsSubmitted, Given, InTime
<1>14. DeliveriesAreTrue'
  <2>1. ASSUME NEW n \in DOMAIN events, NEW id \in DOMAIN invocations, Delivers(n, id)
        PROVE  /\ ~Submitted(id)
               /\ invocations[id].to = <<events[n].instance, events[n].generation>>
               /\ events[n].succeeded
                    => /\ Given(id)
                       /\ Within(Passed(events[n].left), invocations'[id].handed, invocations'[id].age)
               /\ ~events[n].succeeded => ~Given(id)
    <3>1. PICK left \in Nat : left = events[n].left
      BY <1>4, <2>1 DEF Delivers
    <3>2. /\ ~Submitted(id)
          /\ invocations[id].to = <<events[n].instance, events[n].generation>>
          /\ events[n].succeeded => Given(id) /\ InTime(id, left)
          /\ ~events[n].succeeded => ~Given(id)
      BY <2>1, <3>1 DEF HonestInv, DeliveriesAreTrue
    <3> QED
      BY <1>9, <3>1, <3>2
  <2>2. ASSUME NEW n \in DOMAIN events', NEW id \in DOMAIN invocations,
               events'[n].kind = "delivery", events'[n].id = id
        PROVE  /\ ~Submitted(id)'
               /\ invocations'[id].to = <<events'[n].instance, events'[n].generation>>
               /\ events'[n].succeeded
                    => /\ Given(id)'
                       /\ Within(events'[n].left, invocations'[id].handed, invocations'[id].age)
               /\ ~events'[n].succeeded => ~Given(id)'
    <3>1. n \in DOMAIN events /\ Delivers(n, id)
      BY <1>4, <2>2 DEF Delivers
    <3>2. /\ events'[n].instance = events[n].instance /\ events'[n].generation = events[n].generation
          /\ events'[n].succeeded = events[n].succeeded /\ events'[n].left = Passed(events[n].left)
      BY <1>4, <3>1 DEF Delivers
    <3>3. /\ ~Submitted(id)
          /\ invocations[id].to = <<events[n].instance, events[n].generation>>
          /\ events[n].succeeded
               => /\ Given(id)
                  /\ Within(Passed(events[n].left), invocations'[id].handed, invocations'[id].age)
          /\ ~events[n].succeeded => ~Given(id)
      BY <2>1, <3>1
    <3> QED
      BY <1>5, <1>7, <1>8, <3>2, <3>3
  <2>3. DOMAIN invocations' = DOMAIN invocations
    BY <1>5
  <2> QED
    BY <2>2, <2>3 DEF DeliveriesAreTrue, Delivers, Given, InTime, Submitted, Submits
<1>15. WaitsAreTimed'
  <2>1. ASSUME NEW c \in DOMAIN clients, clients[c].token # NoToken, clients[c].token \in DOMAIN actions
        PROVE  /\ clients'[c].left # Unset
               /\ invocations'[clients[c].token].age + clients'[c].left = PendingTimeout
    <3>1. PICK left \in Nat \cup {Unset}, id \in {clients[c].token} : left = clients[c].left /\ id = clients[c].token
      BY <1>2
    <3>2. left # Unset /\ id \in DOMAIN invocations /\ invocations[id].age + left = PendingTimeout
      BY <2>1, <3>1 DEF HonestInv, WaitsAreTimed, ClientsAreTold, Pending
    <3> QED
      BY <1>2, <1>5, <2>1, <3>1, <3>2, ControlAssumption DEF Passed, Unset
  <2> QED
    BY <1>2, <1>3, <1>6, <2>1 DEF WaitsAreTimed, Pending
<1>16. InvocationsTyped' /\ CommandsAreNew'
  BY <1>5, <1>6 DEF HonestInv, InvocationsTyped, CommandsAreNew, Given, Submits
<1>17. IdsAreKnown'
  BY <1>4, <1>6 DEF HonestInv, IdsAreKnown
<1>18. RepliesAreSaid'
  BY <1>3, <1>4, <1>5 DEF HonestInv, RepliesAreSaid, Replies, Succeeds, Delivers, Passed, Unset
<1>19. GivenIsReported'
  <2>1. ASSUME NEW id \in DOMAIN actions, Given(id)
        PROVE  actions'[id].left # Unset \/ \E n \in DOMAIN events : Succeeds(n, id)
    BY <1>3, <2>1 DEF HonestInv, GivenIsReported, Passed, Unset
  <2>2. \A id \in DOMAIN actions : id \in DOMAIN invocations
    BY DEF HonestInv, ActionsAreAsSubmitted
  <2> QED
    BY <1>3, <1>4, <1>7, <2>1, <2>2 DEF GivenIsReported, Given, Succeeds, Delivers
<1> QED
  BY <1>11, <1>12, <1>13, <1>14, <1>15, <1>16, <1>17, <1>18, <1>19 DEF HonestInv

--------------------------------------------------------------------------------
(* The supervisor, for what is said of the actions.                              *)

LEMMA EmittedIs ==
  ASSUME ControlInv, NEW new \in Seq(EventRecord), Emit(new)
  PROVE  /\ UNCHANGED <<clients, actions, completed, next_id, phase>> /\ phase = "idle"
         /\ \A n \in DOMAIN events : n \in DOMAIN events' /\ events'[n] = events[n]
         /\ \A n \in DOMAIN new : Len(events) + n \in DOMAIN events' /\ events'[Len(events) + n] = new[n]
         /\ \A n \in DOMAIN events' :
              n \in DOMAIN events \/ \E m \in DOMAIN new : n = Len(events) + m /\ events'[n] = new[m]
         /\ \A n \in DOMAIN events : n \in Nat /\ \A m \in DOMAIN new : m \in Nat /\ n < Len(events) + m
<1>1. /\ events' = events \o new /\ phase = "idle"
      /\ UNCHANGED <<clients, actions, completed, next_id, phase>>
  BY DEF Emit, server, dispatcher
<1>2. /\ events \in Seq(EventRecord) /\ Len(events) \in Nat /\ DOMAIN events = 1..Len(events)
      /\ Len(new) \in Nat /\ DOMAIN new = 1..Len(new)
  BY LenProperties DEF ControlInv, SupervisorTyped
<1>3. /\ DOMAIN events' = 1..(Len(events) + Len(new))
      /\ \A n \in 1..(Len(events) + Len(new)) :
           events'[n] = IF n <= Len(events) THEN events[n] ELSE new[n - Len(events)]
  BY <1>1, <1>2, ConcatProperties, LenProperties
<1>4. ASSUME NEW n \in DOMAIN events', n \notin DOMAIN events
      PROVE  \E m \in DOMAIN new : n = Len(events) + m /\ events'[n] = new[m]
  <2>1. n - Len(events) \in DOMAIN new /\ n = Len(events) + (n - Len(events))
    BY <1>2, <1>3, <1>4
  <2> QED
    BY <1>2, <1>3, <1>4, <2>1
<1>5. \A n \in DOMAIN new : Len(events) + n \in DOMAIN events' /\ events'[Len(events) + n] = new[n]
  BY <1>2, <1>3
<1>6. \A n \in DOMAIN events : n \in DOMAIN events' /\ events'[n] = events[n]
  BY <1>2, <1>3
<1>7. \A n \in DOMAIN events : n \in Nat /\ \A m \in DOMAIN new : m \in Nat /\ n < Len(events) + m
  BY <1>2
<1> QED
  BY <1>1, <1>4, <1>5, <1>6, <1>7

\* Commands that were there, `taken` places further down the queue.
CommandsLeft(taken) ==
  \A n \in DOMAIN commands' :
    \/ commands'[n].kind = "replace"
    \/ n \in Nat /\ n + taken \in DOMAIN commands /\ commands'[n] = commands[n + taken]

\* Events that are about no action.
LEMMA EmitKeepsHonest ==
  ASSUME ControlInv, HonestInv, NEW new \in Seq(EventRecord), Emit(new), UNCHANGED invocations,
         \A n \in DOMAIN new : new[n].kind \notin {"delivery", "result"},
         NEW taken \in Nat, CommandsLeft(taken)
  PROVE  HonestInv'
<1>1. /\ UNCHANGED <<clients, actions, completed, next_id, phase>> /\ phase = "idle"
      /\ \A n \in DOMAIN events : n \in DOMAIN events' /\ events'[n] = events[n]
      /\ \A n \in DOMAIN events' : n \in DOMAIN events \/ events'[n].kind \notin {"delivery", "result"}
  BY EmittedIs
<1>2. \A id : Submitted(id)' => Submitted(id)
  BY DEF Submitted, Submits, CommandsLeft
<1>3. ClientsAreTold' /\ WaitsAreTimed'
  <2>1. SameToldOrNothing
    BY <1>1 DEF SameToldOrNothing
  <2> QED
    BY <1>1, <1>2, <2>1, ClientsStayTold
<1>4. InvocationsTyped'
  BY <1>1 DEF HonestInv, InvocationsTyped
<1>5. IdsAreKnown'
  <2>1. ASSUME NEW m \in DOMAIN commands', NEW n \in DOMAIN commands', m # n,
               commands'[m].kind = "action", commands'[n].kind = "action"
        PROVE  commands'[m].id # commands'[n].id
    <3>1. /\ m + taken \in DOMAIN commands /\ commands'[m] = commands[m + taken] /\ m \in Nat
          /\ n + taken \in DOMAIN commands /\ commands'[n] = commands[n + taken] /\ n \in Nat
      BY <2>1 DEF CommandsLeft
    <3>2. m + taken # n + taken
      BY <2>1, <3>1
    <3> QED
      BY <2>1, <3>1, <3>2 DEF HonestInv, IdsAreKnown
  <2>2. \A n \in DOMAIN commands' : commands'[n].kind = "action" => commands'[n].id < next_id
    BY DEF HonestInv, IdsAreKnown, CommandsLeft
  <2>3. \A n \in DOMAIN events' : events'[n].kind \in {"delivery", "result"} => events'[n].id < next_id
    BY <1>1 DEF HonestInv, IdsAreKnown
  <2> QED
    BY <1>1, <2>1, <2>2, <2>3 DEF IdsAreKnown
<1>6. CompletionsAreTrue'
  <2>1. ASSUME NEW id \in DOMAIN completed, id \in DOMAIN invocations, NEW answer, answer = completed[id]
        PROVE  Justified(id, answer)'
    <3>1. Justified(id, answer)
      BY <2>1 DEF HonestInv, CompletionsAreTrue
    <3> QED
      BY <1>2, <3>1 DEF Justified, Given
  <2> QED
    BY <1>1, <2>1 DEF CompletionsAreTrue, Justified, Given, Submitted, Submits
<1>7. ActionsAreAsSubmitted'
  BY <1>1 DEF HonestInv, ActionsAreAsSubmitted, Given, InTime
<1>8. CommandsAreNew'
  <2>1. ASSUME NEW n \in DOMAIN commands', NEW id \in DOMAIN invocations,
               commands'[n].kind = "action", commands'[n].id = id
        PROVE  ~Given(id) /\ invocations[id].to = <<commands'[n].instance, commands'[n].generation>>
    <3>1. Submits(n + taken, id) /\ n + taken \in DOMAIN commands /\ commands'[n] = commands[n + taken]
      BY <2>1 DEF CommandsLeft, Submits
    <3> QED
      BY <3>1 DEF HonestInv, CommandsAreNew
  <2> QED
    BY <2>1 DEF CommandsAreNew, Submits, Given
<1>9. DeliveriesAreTrue'
  <2>1. ASSUME NEW n \in DOMAIN events', NEW id \in DOMAIN invocations,
               events'[n].kind = "delivery", events'[n].id = id
        PROVE  /\ ~Submitted(id)'
               /\ invocations[id].to = <<events'[n].instance, events'[n].generation>>
               /\ events'[n].succeeded => Given(id) /\ InTime(id, events'[n].left)
               /\ ~events'[n].succeeded => ~Given(id)
    <3>1. n \in DOMAIN events /\ events'[n] = events[n] /\ Delivers(n, id)
      BY <1>1, <2>1 DEF Delivers
    <3> QED
      BY <1>2, <3>1 DEF HonestInv, DeliveriesAreTrue
  <2> QED
    BY <2>1 DEF DeliveriesAreTrue, Delivers, Given, InTime, Submitted, Submits
<1>10. RepliesAreSaid'
  <2>1. ASSUME NEW n \in DOMAIN events', NEW id \in DOMAIN invocations, events'[n].kind = "result",
               events'[n].id = id, invocations[id].to = <<events'[n].instance, events'[n].generation>>,
               <<invocations[id].to, events'[n].answer>> \notin invocations[id].said
        PROVE  /\ id \in DOMAIN actions => actions[id].left = Unset
               /\ \A m \in DOMAIN events' :
                    m < n => ~(events'[m].kind = "delivery" /\ events'[m].id = id /\ events'[m].succeeded)
    <3>1. n \in DOMAIN events /\ events'[n] = events[n] /\ Replies(n, id)
      BY <1>1, <2>1 DEF Replies
    <3>2. /\ id \in DOMAIN actions => actions[id].left = Unset
          /\ \A m \in DOMAIN events : m < n => ~Succeeds(m, id)
      BY <2>1, <3>1 DEF HonestInv, RepliesAreSaid
    <3> QED
      BY <1>1, <3>2 DEF Succeeds, Delivers
  <2> QED
    BY <1>1, <2>1 DEF RepliesAreSaid, Replies, Succeeds, Delivers
<1>11. GivenIsReported'
  BY <1>1 DEF HonestInv, GivenIsReported, Given, Succeeds, Delivers
<1> QED
  BY <1>3, <1>4, <1>5, <1>6, <1>7, <1>8, <1>9, <1>10, <1>11 DEF HonestInv

\* The queue without its first command.
LEMMA TailIs ==
  ASSUME ControlInv, commands # <<>>
  PROVE  /\ 1 \in DOMAIN commands /\ Head(commands) = commands[1]
         /\ \A n \in DOMAIN Tail(commands) :
              n \in Nat \ {0} /\ n + 1 \in DOMAIN commands /\ Tail(commands)[n] = commands[n + 1]
<1>1. commands \in Seq(Command) /\ Len(commands) \in Nat /\ Len(commands) > 0 /\ DOMAIN commands = 1..Len(commands)
  BY SupervisorState, LenProperties, EmptySeq
<1>2. Head(commands) = commands[1]
  BY <1>1
<1>3. /\ Len(Tail(commands)) = Len(commands) - 1 /\ Tail(commands) \in Seq(Command)
      /\ \A n \in 1..(Len(commands) - 1) : Tail(commands)[n] = commands[n + 1]
  BY <1>1, HeadTailProperties
<1>4. DOMAIN Tail(commands) = 1..(Len(commands) - 1)
  BY <1>3, LenProperties
<1> QED
  BY <1>1, <1>2, <1>3, <1>4

LEMMA GoneIsSilent ==
  ASSUME NEW i
  PROVE  \A n \in DOMAIN Gone(i) : Gone(i)[n].kind \notin {"delivery", "result"}
  BY DEF Gone, Event

LEMMA HandleReplaceKeepsHonest == ControlInv /\ HonestInv /\ HandleReplace => HonestInv'
<1> SUFFICES ASSUME ControlInv, HonestInv, HandleReplace PROVE HonestInv'
  OBVIOUS
<1>1. commands # <<>> /\ Head(commands).kind = "replace" /\ UNCHANGED invocations
  BY DEF HandleReplace
<1>2. PICK replaced, i :
        /\ replaced = Head(commands).instances /\ i \in replaced /\ Emit(Gone(i))
        /\ commands' = IF replaced = {i} THEN Tail(commands)
                       ELSE <<[kind |-> "replace", instances |-> replaced \ {i}]>> \o Tail(commands)
  BY DEF HandleReplace
<1>3. i \in Instances
  <2>1. Head(commands) \in Command
    BY <1>1, CommandTaken
  <2> QED
    BY <1>1, <1>2, <2>1 DEF Command
<1>4. Gone(i) \in Seq(EventRecord)
  BY <1>3, GoneTyped
<1>5. \A n \in DOMAIN Tail(commands) :
        n \in Nat \ {0} /\ n + 1 \in DOMAIN commands /\ Tail(commands)[n] = commands[n + 1]
  BY <1>1, TailIs
<1>6. CASE commands' = Tail(commands)
  <2>1. CommandsLeft(1)
    BY <1>5, <1>6 DEF CommandsLeft
  <2> QED
    BY <1>1, <1>2, <1>4, <2>1, GoneIsSilent, EmitKeepsHonest
<1>7. ASSUME NEW command, command = [kind |-> "replace", instances |-> replaced \ {i}],
             commands' = <<command>> \o Tail(commands)
      PROVE  HonestInv'
  <2>1. Tail(commands) \in Seq(Command) /\ Len(Tail(commands)) \in Nat
        /\ DOMAIN Tail(commands) = 1..Len(Tail(commands))
    BY <1>1, CommandTaken, LenProperties
  <2>2. command \in Command
    BY <1>2, <1>1, <1>7, CommandTaken DEF Command
  <2>3. /\ DOMAIN commands' = 1..(1 + Len(Tail(commands))) /\ commands'[1] = command
        /\ \A n \in 1..(1 + Len(Tail(commands))) : n # 1 => commands'[n] = Tail(commands)[n - 1]
    BY <1>7, <2>1, <2>2
  <2>4. ASSUME NEW n \in DOMAIN commands'
        PROVE  commands'[n].kind = "replace" \/ (n \in Nat /\ n + 0 \in DOMAIN commands /\ commands'[n] = commands[n + 0])
    <3>1. CASE n = 1
      BY <1>7, <2>3, <3>1
    <3>2. CASE n # 1
      <4>1. n - 1 \in DOMAIN Tail(commands) /\ commands'[n] = Tail(commands)[n - 1] /\ (n - 1) + 1 = n
        BY <2>1, <2>3, <2>4, <3>2
      <4>2. n \in DOMAIN commands /\ Tail(commands)[n - 1] = commands[n] /\ n \in Nat
        BY <1>5, <2>3, <4>1
      <4> QED
        BY <4>1, <4>2
    <3> QED
      BY <3>1, <3>2
  <2>5. CommandsLeft(0)
    BY <2>4 DEF CommandsLeft
  <2> QED
    BY <1>1, <1>2, <1>4, <2>5, GoneIsSilent, EmitKeepsHonest
<1> QED
  BY <1>2, <1>6, <1>7

LEMMA CommandsStay == ControlInv /\ UNCHANGED commands => CommandsLeft(0)
<1> SUFFICES ASSUME ControlInv, UNCHANGED commands PROVE CommandsLeft(0)
  OBVIOUS
<1>1. DOMAIN commands = 1..Len(commands) /\ Len(commands) \in Nat
  BY SupervisorState, LenProperties
<1> QED
  BY <1>1 DEF CommandsLeft

\* A process that starts, gets ready or ends says nothing of the actions.
LEMMA ProcessKeepsHonest ==
  ASSUME ControlInv, HonestInv, NEW i \in Instances, ProcessStarts(i) \/ ProcessReady(i) \/ ProcessEnds(i)
  PROVE  HonestInv'
<1>1. UNCHANGED <<commands, invocations>>
  BY DEF ProcessStarts, ProcessReady, ProcessEnds
<1>2. CommandsLeft(0)
  BY <1>1, CommandsStay
<1>3. ASSUME NEW event \in EventRecord, event.kind \notin {"delivery", "result"}, Emit(<<event>>)
      PROVE  HonestInv'
  <2>1. PICK new : new = <<event>> /\ Emit(new)
    BY <1>3
  <2>2. new \in Seq(EventRecord) /\ \A n \in DOMAIN new : new[n].kind \notin {"delivery", "result"}
    BY <1>3, <2>1
  <2> QED
    BY <1>1, <1>2, <2>1, <2>2, EmitKeepsHonest
<1>4. CASE ProcessStarts(i)
  <2> DEFINE event == [Event("started", i) EXCEPT !.generation = @ + 1]
  <2>1. generation[i] + 1 \in 1..MaxGeneration
    BY <1>4, SupervisorState DEF ProcessStarts
  <2>2. event = [kind |-> "started", instance |-> i, generation |-> generation[i] + 1]
    BY DEF Event
  <2>3. event \in EventRecord /\ event.kind = "started"
    BY <2>1, <2>2 DEF EventRecord, Generations
  <2>4. Emit(<<event>>)
    BY <1>4 DEF ProcessStarts
  <2> HIDE DEF event
  <2> QED
    BY <1>3, <2>3, <2>4
<1>5. CASE ProcessReady(i)
  <2>1. PICK event : event = Event("ready", i) /\ Emit(<<event>>)
    BY <1>5 DEF ProcessReady
  <2>2. event \in EventRecord /\ event.kind = "ready"
    BY <1>5, <2>1, EventTyped DEF ProcessReady, Event
  <2> QED
    BY <1>3, <2>1, <2>2
<1>6. CASE ProcessEnds(i)
  BY <1>1, <1>2, <1>6, GoneTyped, GoneIsSilent, EmitKeepsHonest DEF ProcessEnds
<1> QED
  BY <1>4, <1>5, <1>6

\* What a process says of an action that it was given is kept.
LEMMA ProcessAnswersKeepsHonest ==
  ASSUME ControlInv, HonestInv, NEW i \in Instances, ProcessAnswers(i)
  PROVE  HonestInv'
<1>1. PICK id \in DOMAIN actions, answer \in {"accepted", "rejected"} :
        /\ Emit(<<[kind |-> "result", instance |-> i, generation |-> generation[i],
                   id |-> id, answer |-> answer]>>)
        /\ invocations' = IF invocations[id].handed = Unset THEN invocations
                          ELSE [invocations EXCEPT ![id].said =
                                  @ \cup {<<<<i, generation[i]>>, answer>>}]
  BY DEF ProcessAnswers
<1> DEFINE who == <<i, generation[i]>>
           e == [kind |-> "result", instance |-> i, generation |-> generation[i],
                 id |-> id, answer |-> answer]
<1>2. /\ who = <<i, generation[i]>> /\ generation[i] \in Generations
      /\ e = [kind |-> "result", instance |-> i, generation |-> generation[i],
              id |-> id, answer |-> answer]
  BY SupervisorState DEF ProcessAnswers, Generations
<1> HIDE DEF who, e
<1>3. id \in Nat /\ id \in DOMAIN invocations /\ invocations[id] \in InvocationRecord /\ id < next_id
  BY DEF ControlInv, ActionsTyped, HonestInv, ActionsAreAsSubmitted, InvocationsTyped
<1>4. e \in EventRecord
  BY <1>2, <1>3 DEF EventRecord
<1>5. PICK new \in Seq(EventRecord) : new = <<e>> /\ Emit(new)
  BY <1>1, <1>2, <1>4
<1>6. DOMAIN new = {1} /\ new[1] = e
  BY <1>5
<1>7. /\ UNCHANGED <<clients, actions, completed, next_id, phase>> /\ phase = "idle"
      /\ \A n \in DOMAIN events : n \in DOMAIN events' /\ events'[n] = events[n]
      /\ \A n \in DOMAIN events' : n \in DOMAIN events \/ (n = Len(events) + 1 /\ events'[n] = e)
      /\ \A n \in DOMAIN events : n \in Nat /\ n < Len(events) + 1
  <2>1. /\ UNCHANGED <<clients, actions, completed, next_id, phase>> /\ phase = "idle"
        /\ \A n \in DOMAIN events : n \in DOMAIN events' /\ events'[n] = events[n]
    BY <1>5, EmittedIs
  <2>2. \A n \in DOMAIN events' :
          n \in DOMAIN events \/ \E m \in DOMAIN new : n = Len(events) + m /\ events'[n] = new[m]
    BY <1>5, EmittedIs
  <2>3. \A n \in DOMAIN events : n \in Nat /\ \A m \in DOMAIN new : m \in Nat /\ n < Len(events) + m
    BY <1>5, EmittedIs
  <2> QED
    BY <1>6, <2>1, <2>2, <2>3
<1>8. UNCHANGED commands
  BY DEF ProcessAnswers
<1>9. /\ DOMAIN invocations' = DOMAIN invocations
      /\ \A x \in DOMAIN invocations :
           /\ invocations'[x].to = invocations[x].to /\ invocations'[x].age = invocations[x].age
           /\ invocations'[x].handed = invocations[x].handed
           /\ invocations[x].said \subseteq invocations'[x].said
           /\ invocations'[x] \in InvocationRecord
      /\ Given(id) => <<who, answer>> \in invocations'[id].said
  <2>1. \A x \in DOMAIN invocations : invocations[x] \in InvocationRecord
    BY DEF HonestInv, InvocationsTyped
  <2>2. <<who, answer>> \in (Instances \X Nat) \X {"accepted", "rejected"}
    BY <1>2 DEF Generations
  <2>3. CASE invocations[id].handed = Unset
    BY <1>1, <2>1, <2>3 DEF Given
  <2>4. CASE invocations[id].handed # Unset
    <3>1. invocations' = [invocations EXCEPT ![id].said = @ \cup {<<who, answer>>}]
      BY <1>1, <1>2, <2>4
    <3>2. \A x \in DOMAIN invocations \ {id} : invocations'[x] = invocations[x]
      BY <3>1
    <3>3. invocations'[id] = [invocations[id] EXCEPT !.said = @ \cup {<<who, answer>>}]
      BY <1>3, <3>1
    <3>4. [invocations[id] EXCEPT !.said = @ \cup {<<who, answer>>}] \in InvocationRecord
      BY <1>3, <2>2 DEF InvocationRecord
    <3>5. /\ invocations'[id].to = invocations[id].to /\ invocations'[id].age = invocations[id].age
          /\ invocations'[id].handed = invocations[id].handed
          /\ invocations'[id].said = invocations[id].said \cup {<<who, answer>>}
      BY <1>3, <3>3 DEF InvocationRecord
    <3> QED
      BY <2>1, <3>1, <3>2, <3>3, <3>4, <3>5
  <2> QED
    BY <2>3, <2>4
<1>10. \A x \in DOMAIN invocations : Given(x)' = Given(x)
  BY <1>9 DEF Given
<1>11. ASSUME NEW x \in DOMAIN invocations, NEW told, Justified(x, told)
       PROVE  Justified(x, told)'
  BY <1>8, <1>9, <1>10, <1>11 DEF Justified, Submitted, Submits
<1>12. ClientsAreTold'
  <2>1. ASSUME NEW c \in DOMAIN clients, NEW asked, asked = clients[c].asked,
               NEW told \in Telling, told = clients[c].answer
        PROVE  asked \in DOMAIN invocations /\ Justified(asked, told)'
    BY <1>11, <2>1 DEF HonestInv, ClientsAreTold
  <2>2. \A c \in DOMAIN clients : clients[c].token # NoToken
          => clients[c].asked = clients[c].token /\ clients[c].token \in DOMAIN invocations
    BY DEF HonestInv, ClientsAreTold, Pending
  <2>3. clients' = clients /\ DOMAIN invocations' = DOMAIN invocations
    BY <1>7, <1>9
  <2> QED
    BY <2>1, <2>2, <2>3 DEF ClientsAreTold, Pending, Justified, Given, Submitted, Submits
<1>13. CompletionsAreTrue'
  <2>1. ASSUME NEW x \in DOMAIN completed, x \in DOMAIN invocations, NEW told, told = completed[x]
        PROVE  Justified(x, told)'
    BY <1>11, <2>1 DEF HonestInv, CompletionsAreTrue
  <2>2. completed' = completed /\ DOMAIN invocations' = DOMAIN invocations
    BY <1>7, <1>9
  <2> QED
    BY <2>1, <2>2 DEF CompletionsAreTrue, Justified, Given, Submitted, Submits
<1>14. InvocationsTyped' /\ CommandsAreNew'
  BY <1>7, <1>8, <1>9 DEF HonestInv, InvocationsTyped, CommandsAreNew, Given, Submits
<1>15. IdsAreKnown'
  BY <1>2, <1>3, <1>7, <1>8 DEF HonestInv, IdsAreKnown
<1>16. ActionsAreAsSubmitted' /\ WaitsAreTimed'
  <2>1. \A x \in DOMAIN actions : x \in DOMAIN invocations
    BY DEF HonestInv, ActionsAreAsSubmitted
  <2>2. ActionsAreAsSubmitted'
    BY <1>7, <1>9, <2>1 DEF HonestInv, ActionsAreAsSubmitted, Given, InTime
  <2>3. \A c \in DOMAIN clients : clients[c].token # NoToken => clients[c].token \in DOMAIN invocations
    BY DEF HonestInv, ClientsAreTold, Pending
  <2>4. WaitsAreTimed'
    BY <1>7, <1>9, <2>3 DEF HonestInv, WaitsAreTimed, Pending
  <2> QED
    BY <2>2, <2>4
<1>17. DeliveriesAreTrue'
  <2>1. ASSUME NEW n \in DOMAIN events', NEW x \in DOMAIN invocations,
               events'[n].kind = "delivery", events'[n].id = x
        PROVE  /\ ~Submitted(x)'
               /\ invocations'[x].to = <<events'[n].instance, events'[n].generation>>
               /\ events'[n].succeeded
                    => /\ Given(x)'
                       /\ Within(events'[n].left, invocations'[x].handed, invocations'[x].age)
               /\ ~events'[n].succeeded => ~Given(x)'
    <3>1. n \in DOMAIN events /\ events'[n] = events[n] /\ Delivers(n, x)
      BY <1>2, <1>7, <2>1 DEF Delivers
    <3>2. /\ ~Submitted(x)
          /\ invocations[x].to = <<events[n].instance, events[n].generation>>
          /\ events[n].succeeded => Given(x) /\ InTime(x, events[n].left)
          /\ ~events[n].succeeded => ~Given(x)
      BY <3>1 DEF HonestInv, DeliveriesAreTrue
    <3>3. ~Submitted(x)'
      BY <1>8, <3>2 DEF Submitted, Submits
    <3> QED
      BY <1>9, <1>10, <3>1, <3>2, <3>3 DEF InTime
  <2>2. DOMAIN invocations' = DOMAIN invocations
    BY <1>9
  <2> QED
    BY <2>1, <2>2 DEF DeliveriesAreTrue, Delivers, Given, InTime, Submitted, Submits
<1>18. RepliesAreSaid'
  <2>1. ASSUME NEW n \in DOMAIN events', NEW x \in DOMAIN invocations, events'[n].kind = "result",
               events'[n].id = x, invocations[x].to = <<events'[n].instance, events'[n].generation>>,
               <<invocations[x].to, events'[n].answer>> \notin invocations'[x].said
        PROVE  /\ x \in DOMAIN actions => actions[x].left = Unset
               /\ \A m \in DOMAIN events' :
                    m < n => ~(events'[m].kind = "delivery" /\ events'[m].id = x /\ events'[m].succeeded)
    <3>1. CASE n \in DOMAIN events
      <4>1. events'[n] = events[n] /\ Replies(n, x)
        BY <1>7, <2>1, <3>1 DEF Replies
      <4>2. /\ x \in DOMAIN actions => actions[x].left = Unset
            /\ \A m \in DOMAIN events : m < n => ~Succeeds(m, x)
        BY <1>9, <2>1, <3>1, <4>1 DEF HonestInv, RepliesAreSaid
      <4> QED
        BY <1>2, <1>7, <4>2 DEF Succeeds, Delivers
    <3>2. CASE events'[n] = e
      <4>1. x = id /\ invocations[x].to = who /\ e.answer = answer /\ e.kind = "result"
        BY <1>2, <2>1, <3>2
      <4>2. ~Given(id)
        BY <1>9, <2>1, <3>2, <4>1
      <4>3. actions[id].left = Unset
        BY <4>2 DEF HonestInv, ActionsAreAsSubmitted
      <4>4. \A m \in DOMAIN events : ~Succeeds(m, id)
        BY <1>3, <4>2 DEF HonestInv, DeliveriesAreTrue, Succeeds
      <4> QED
        BY <1>7, <4>1, <4>3, <4>4 DEF Succeeds, Delivers
    <3> QED
      BY <1>7, <2>1, <3>1, <3>2
  <2>2. DOMAIN invocations' = DOMAIN invocations
        /\ \A x \in DOMAIN invocations : invocations'[x].to = invocations[x].to
    BY <1>9
  <2>3. actions' = actions
    BY <1>7
  <2> QED
    BY <2>1, <2>2, <2>3 DEF RepliesAreSaid, Replies, Succeeds, Delivers
<1>19. GivenIsReported'
  <2>1. \A x \in DOMAIN actions : x \in DOMAIN invocations
    BY DEF HonestInv, ActionsAreAsSubmitted
  <2> QED
    BY <1>7, <1>9, <2>1 DEF HonestInv, GivenIsReported, Given, Succeeds, Delivers
<1> QED
  BY <1>12, <1>13, <1>14, <1>15, <1>16, <1>17, <1>18, <1>19 DEF HonestInv

\* An action is given to its process, or cannot be: no one submits it again.
LEMMA HandedKeepsHonest ==
  ASSUME ControlInv, HonestInv, commands # <<>>, commands' = Tail(commands),
         NEW command, command = Head(commands), command.kind = "action", NEW id, id = command.id,
         NEW new \in Seq(EventRecord), Emit(new), NEW succeeded \in BOOLEAN,
         1 \in DOMAIN new, new[1] = Delivery(command, succeeded),
         \A n \in DOMAIN new : n = 1 \/ new[n].kind = "removed",
         invocations' = IF succeeded
                        THEN [x \in DOMAIN invocations |->
                                IF x = id THEN [invocations[x] EXCEPT !.handed = invocations[x].age]
                                ELSE invocations[x]]
                        ELSE invocations
  PROVE  HonestInv'
<1>1. /\ UNCHANGED <<clients, actions, completed, next_id, phase>> /\ phase = "idle"
      /\ \A n \in DOMAIN events : n \in DOMAIN events' /\ events'[n] = events[n]
      /\ \A n \in DOMAIN events' :
           n \in DOMAIN events \/ events'[n].kind = "removed" \/ events'[n] = Delivery(command, succeeded)
      /\ \E n \in DOMAIN events' : events'[n] = Delivery(command, succeeded)
      /\ \A n \in DOMAIN events, m \in DOMAIN events' : m < n => m \in DOMAIN events
  <2>1. /\ UNCHANGED <<clients, actions, completed, next_id, phase>> /\ phase = "idle"
        /\ \A n \in DOMAIN events : n \in DOMAIN events' /\ events'[n] = events[n]
        /\ Len(events) + 1 \in DOMAIN events' /\ events'[Len(events) + 1] = new[1]
    BY EmittedIs
  <2>2. \A n \in DOMAIN events' :
          n \in DOMAIN events \/ \E m \in DOMAIN new : n = Len(events) + m /\ events'[n] = new[m]
    BY EmittedIs
  <2>3. \A n \in DOMAIN events : n \in Nat /\ \A m \in DOMAIN new : m \in Nat /\ n < Len(events) + m
    BY EmittedIs
  <2>4. Len(events) \in Nat
    BY LenProperties DEF ControlInv, SupervisorTyped
  <2>5. \A n \in DOMAIN events, m \in DOMAIN events' : m < n => m \in DOMAIN events
    BY <2>2, <2>3, <2>4
  <2> QED
    BY <2>1, <2>2, <2>5
<1>2. /\ command \in Command /\ 1 \in DOMAIN commands /\ command = commands[1] /\ Submits(1, id)
      /\ \A n \in DOMAIN commands' : n \in Nat \ {0} /\ n + 1 \in DOMAIN commands /\ commands'[n] = commands[n + 1]
  BY CommandTaken, TailIs DEF Submits
<1>3. command.id = id /\ id \in Nat /\ id < next_id
  BY <1>2 DEF Command, HonestInv, IdsAreKnown
<1>4. /\ Delivery(command, succeeded).kind = "delivery" /\ Delivery(command, succeeded).id = id
      /\ Delivery(command, succeeded).instance = command.instance
      /\ Delivery(command, succeeded).generation = command.generation
      /\ Delivery(command, succeeded).succeeded = succeeded
      /\ Delivery(command, succeeded).left = ActionTimeout
  BY DEF Delivery
<1>5. Submitted(id) /\ \A x : Submitted(x)' => Submitted(x) /\ x # id
  <2>1. \A n \in DOMAIN commands' : commands'[n].kind = "action" => commands'[n].id # id
    <3>1. ASSUME NEW n \in DOMAIN commands', commands'[n].kind = "action" PROVE commands'[n].id # id
      <4>1. n + 1 # 1
        BY <1>2, <3>1
      <4> QED
        BY <1>2, <3>1, <4>1 DEF HonestInv, IdsAreKnown
    <3> QED
      BY <3>1
  <2> QED
    BY <1>2, <2>1 DEF Submitted, Submits
<1>6. id \in DOMAIN invocations =>
        /\ ~Given(id) /\ invocations[id].to = <<command.instance, command.generation>>
        /\ \A n \in DOMAIN events : ~Delivers(n, id)
  BY <1>2, <1>5 DEF HonestInv, CommandsAreNew, DeliveriesAreTrue
<1>7. /\ DOMAIN invocations' = DOMAIN invocations
      /\ \A x \in DOMAIN invocations \ {id} : invocations'[x] = invocations[x]
      /\ \A x \in DOMAIN invocations :
           /\ invocations'[x].to = invocations[x].to /\ invocations'[x].age = invocations[x].age
           /\ invocations'[x].said = invocations[x].said /\ invocations[x].age \in 0..PendingTimeout
           /\ invocations'[x] \in InvocationRecord
      /\ id \in DOMAIN invocations =>
           invocations'[id].handed = IF succeeded THEN invocations[id].age ELSE invocations[id].handed
  <2>1. \A x \in DOMAIN invocations : invocations[x] \in InvocationRecord
    BY DEF HonestInv, InvocationsTyped
  <2>2. CASE succeeded
    <3>1. DOMAIN invocations' = DOMAIN invocations
      BY <2>2
    <3>2. \A x \in DOMAIN invocations \ {id} : invocations'[x] = invocations[x]
      BY <2>2
    <3>3. ASSUME id \in DOMAIN invocations
          PROVE  /\ invocations'[id].to = invocations[id].to /\ invocations'[id].age = invocations[id].age
                 /\ invocations'[id].said = invocations[id].said /\ invocations'[id].handed = invocations[id].age
                 /\ invocations'[id] \in InvocationRecord
      <4>1. invocations'[id] = [invocations[id] EXCEPT !.handed = invocations[id].age]
        BY <2>2, <3>3
      <4> QED
        BY <2>1, <3>3, <4>1 DEF InvocationRecord
    <3> QED
      BY <2>1, <2>2, <3>1, <3>2, <3>3 DEF InvocationRecord
  <2>3. CASE ~succeeded
    BY <2>1, <2>3 DEF InvocationRecord
  <2> QED
    BY <2>2, <2>3
<1>8. UNCHANGED <<clients, actions, completed, next_id, phase>> /\ phase = "idle"
  BY <1>1
<1>9. /\ \A x \in DOMAIN invocations \ {id} : Given(x)' = Given(x)
      /\ id \in DOMAIN invocations => (Given(id)' <=> succeeded)
  <2>1. \A x \in DOMAIN invocations \ {id} : Given(x)' = Given(x)
    BY <1>7 DEF Given
  <2>2. id \in DOMAIN invocations => (Given(id)' <=> succeeded)
    <3>1. CASE succeeded /\ id \in DOMAIN invocations
      <4>1. invocations'[id].handed \in 0..PendingTimeout
        BY <1>7, <3>1
      <4> QED
        BY <3>1, <4>1 DEF Given, Unset
    <3>2. CASE ~succeeded /\ id \in DOMAIN invocations
      BY <1>6, <1>7, <3>2 DEF Given
    <3> QED
      BY <3>1, <3>2
  <2> QED
    BY <2>1, <2>2
<1>10. ASSUME NEW x \in DOMAIN invocations, NEW told, Justified(x, told)
       PROVE  Justified(x, told)'
  <2>1. CASE x = id
    BY <1>5, <1>6, <1>7, <1>10, <2>1 DEF Justified
  <2>2. CASE x # id
    BY <1>5, <1>7, <1>9, <1>10, <2>2 DEF Justified
  <2> QED
    BY <2>1, <2>2
<1>11. ClientsAreTold'
  <2>1. ASSUME NEW c \in DOMAIN clients, NEW asked, asked = clients[c].asked,
               NEW told \in Telling, told = clients[c].answer
        PROVE  asked \in DOMAIN invocations /\ Justified(asked, told)'
    BY <1>10, <2>1 DEF HonestInv, ClientsAreTold
  <2>2. \A c \in DOMAIN clients : clients[c].token # NoToken
          => clients[c].asked = clients[c].token /\ clients[c].token \in DOMAIN invocations
    BY DEF HonestInv, ClientsAreTold, Pending
  <2>3. clients' = clients /\ DOMAIN invocations' = DOMAIN invocations
    BY <1>7, <1>8
  <2> QED
    BY <2>1, <2>2, <2>3 DEF ClientsAreTold, Pending, Justified, Given, Submitted, Submits
<1>12. CompletionsAreTrue'
  <2>1. ASSUME NEW x \in DOMAIN completed, x \in DOMAIN invocations, NEW told, told = completed[x]
        PROVE  Justified(x, told)'
    BY <1>10, <2>1 DEF HonestInv, CompletionsAreTrue
  <2>2. completed' = completed /\ DOMAIN invocations' = DOMAIN invocations
    BY <1>7, <1>8
  <2> QED
    BY <2>1, <2>2 DEF CompletionsAreTrue, Justified, Given, Submitted, Submits
<1>13. InvocationsTyped'
  BY <1>7, <1>8 DEF HonestInv, InvocationsTyped
<1>14. IdsAreKnown'
  <2>1. \A n \in DOMAIN commands' : commands'[n].kind = "action" => commands'[n].id < next_id
    BY <1>2 DEF HonestInv, IdsAreKnown
  <2>2. \A n \in DOMAIN events' : events'[n].kind \in {"delivery", "result"} => events'[n].id < next_id
    BY <1>1, <1>3, <1>4 DEF HonestInv, IdsAreKnown
  <2>3. ASSUME NEW m \in DOMAIN commands', NEW n \in DOMAIN commands', m # n,
               commands'[m].kind = "action", commands'[n].kind = "action"
        PROVE  commands'[m].id # commands'[n].id
    <3>1. m + 1 # n + 1
      BY <1>2, <2>3
    <3> QED
      BY <1>2, <2>3, <3>1 DEF HonestInv, IdsAreKnown
  <2> QED
    BY <1>8, <2>1, <2>2, <2>3 DEF IdsAreKnown
<1>15. ActionsAreAsSubmitted'
  <2>1. ASSUME NEW x \in DOMAIN actions
        PROVE  /\ x \in DOMAIN invocations'
               /\ invocations'[x].to = <<actions[x].instance, actions[x].generation>>
               /\ actions[x].left # Unset
                    => /\ Given(x)'
                       /\ Within(actions[x].left, invocations'[x].handed, invocations'[x].age)
    <3>1. /\ x \in DOMAIN invocations
          /\ invocations[x].to = <<actions[x].instance, actions[x].generation>>
          /\ actions[x].left # Unset => Given(x) /\ InTime(x, actions[x].left)
      BY DEF HonestInv, ActionsAreAsSubmitted
    <3>2. actions[x].left # Unset => x # id
      BY <1>6, <3>1
    <3> QED
      BY <1>7, <1>9, <3>1, <3>2 DEF InTime
  <2>2. actions' = actions
    BY <1>8
  <2> QED
    BY <2>1, <2>2 DEF ActionsAreAsSubmitted, Given, InTime
<1>16. CommandsAreNew'
  <2>1. ASSUME NEW n \in DOMAIN commands', NEW x \in DOMAIN invocations, commands'[n].kind = "action",
               commands'[n].id = x
        PROVE  ~Given(x)' /\ invocations'[x].to = <<commands'[n].instance, commands'[n].generation>>
    <3>1. n + 1 \in DOMAIN commands /\ commands'[n] = commands[n + 1] /\ Submits(n + 1, x)
      BY <1>2, <2>1 DEF Submits
    <3>2. ~Given(x) /\ invocations[x].to = <<commands[n + 1].instance, commands[n + 1].generation>>
      BY <3>1 DEF HonestInv, CommandsAreNew
    <3>3. Submitted(x)'
      BY <2>1 DEF Submitted, Submits
    <3>4. x # id
      BY <1>5, <3>3
    <3> QED
      BY <1>7, <1>9, <3>1, <3>2, <3>4
  <2>2. DOMAIN invocations' = DOMAIN invocations
    BY <1>7
  <2> QED
    BY <2>1, <2>2 DEF CommandsAreNew, Submits, Given
<1>17. DeliveriesAreTrue'
  <2>1. ASSUME NEW n \in DOMAIN events', NEW x \in DOMAIN invocations,
               events'[n].kind = "delivery", events'[n].id = x
        PROVE  /\ ~Submitted(x)'
               /\ invocations'[x].to = <<events'[n].instance, events'[n].generation>>
               /\ events'[n].succeeded
                    => /\ Given(x)'
                       /\ Within(events'[n].left, invocations'[x].handed, invocations'[x].age)
               /\ ~events'[n].succeeded => ~Given(x)'
    <3>1. CASE n \in DOMAIN events
      <4>1. events'[n] = events[n] /\ Delivers(n, x)
        BY <1>1, <2>1, <3>1 DEF Delivers
      <4>2. /\ ~Submitted(x)
            /\ invocations[x].to = <<events[n].instance, events[n].generation>>
            /\ events[n].succeeded => Given(x) /\ InTime(x, events[n].left)
            /\ ~events[n].succeeded => ~Given(x)
        BY <3>1, <4>1 DEF HonestInv, DeliveriesAreTrue
      <4>3. x # id /\ ~Submitted(x)'
        BY <1>5, <4>2
      <4> QED
        BY <1>7, <1>9, <4>1, <4>2, <4>3 DEF InTime
    <3>2. CASE events'[n] = Delivery(command, succeeded)
      <4>1. x = id
        BY <1>4, <2>1, <3>2
      <4>2. ~Submitted(x)'
        BY <1>5, <4>1
      <4>3. succeeded => Within(ActionTimeout, invocations'[x].handed, invocations'[x].age)
        <5>1. ASSUME succeeded
              PROVE  /\ invocations'[x].handed = invocations[x].age /\ invocations[x].age \in Nat
                     /\ invocations'[x].age = invocations[x].age
          BY <1>7, <4>1, <5>1
        <5> QED
          BY <5>1, ControlAssumption DEF Within
      <4>4. /\ events'[n].instance = command.instance /\ events'[n].generation = command.generation
            /\ events'[n].succeeded = succeeded /\ events'[n].left = ActionTimeout
        BY <1>4, <3>2
      <4>5. (Given(x)' <=> succeeded) /\ invocations'[x].to = <<command.instance, command.generation>>
        BY <1>6, <1>7, <1>9, <4>1
      <4> QED
        BY <4>2, <4>3, <4>4, <4>5
    <3> QED
      BY <1>1, <2>1, <3>1, <3>2
  <2>2. DOMAIN invocations' = DOMAIN invocations
    BY <1>7
  <2> QED
    BY <2>1, <2>2 DEF DeliveriesAreTrue, Delivers, Given, InTime, Submitted, Submits
<1>18. RepliesAreSaid'
  <2>1. ASSUME NEW n \in DOMAIN events', NEW x \in DOMAIN invocations, events'[n].kind = "result",
               events'[n].id = x, invocations[x].to = <<events'[n].instance, events'[n].generation>>,
               <<invocations[x].to, events'[n].answer>> \notin invocations[x].said
        PROVE  /\ x \in DOMAIN actions => actions[x].left = Unset
               /\ \A m \in DOMAIN events' :
                    m < n => ~(events'[m].kind = "delivery" /\ events'[m].id = x /\ events'[m].succeeded)
    <3>1. n \in DOMAIN events /\ events'[n] = events[n] /\ Replies(n, x)
      BY <1>1, <1>4, <2>1 DEF Replies
    <3>2. /\ x \in DOMAIN actions => actions[x].left = Unset
          /\ \A m \in DOMAIN events : m < n => ~Succeeds(m, x)
      BY <2>1, <3>1 DEF HonestInv, RepliesAreSaid
    <3> QED
      BY <1>1, <3>1, <3>2 DEF Succeeds, Delivers
  <2>2. DOMAIN invocations' = DOMAIN invocations
        /\ \A x \in DOMAIN invocations :
             invocations'[x].to = invocations[x].to /\ invocations'[x].said = invocations[x].said
    BY <1>7
  <2>3. actions' = actions
    BY <1>8
  <2> QED
    BY <2>1, <2>2, <2>3 DEF RepliesAreSaid, Replies, Succeeds, Delivers
<1>19. GivenIsReported'
  <2>1. ASSUME NEW x \in DOMAIN actions, Given(x)', actions[x].left = Unset
        PROVE  \E n \in DOMAIN events' :
                 events'[n].kind = "delivery" /\ events'[n].id = x /\ events'[n].succeeded
    <3>1. x \in DOMAIN invocations
      BY DEF HonestInv, ActionsAreAsSubmitted
    <3>2. CASE x = id
      <4>1. succeeded
        BY <1>9, <2>1, <3>1, <3>2
      <4> QED
        BY <1>1, <1>4, <3>2, <4>1
    <3>3. CASE x # id
      <4>1. Given(x)
        BY <1>9, <2>1, <3>1, <3>3
      <4>2. PICK n \in DOMAIN events : Succeeds(n, x)
        BY <2>1, <4>1 DEF HonestInv, GivenIsReported
      <4> QED
        BY <1>1, <4>2 DEF Succeeds, Delivers
    <3> QED
      BY <3>2, <3>3
  <2>2. actions' = actions
    BY <1>8
  <2> QED
    BY <2>1, <2>2 DEF GivenIsReported, Given, Succeeds, Delivers
<1>20. WaitsAreTimed'
  <2>1. \A c \in DOMAIN clients : clients[c].token # NoToken => clients[c].token \in DOMAIN invocations
    BY DEF HonestInv, ClientsAreTold, Pending
  <2> QED
    BY <1>7, <1>8, <2>1 DEF HonestInv, WaitsAreTimed, Pending
<1> QED
  BY <1>11, <1>12, <1>13, <1>14, <1>15, <1>16, <1>17, <1>18, <1>19, <1>20 DEF HonestInv

LEMMA HandleActionKeepsHonest == ControlInv /\ HonestInv /\ HandleAction => HonestInv'
<1> SUFFICES ASSUME ControlInv, HonestInv, HandleAction PROVE HonestInv'
  OBVIOUS
<1>1. commands # <<>> /\ Head(commands).kind = "action" /\ commands' = Tail(commands)
  BY DEF HandleAction
<1>2. PICK command : command = Head(commands)
  OBVIOUS
<1>3. command \in Command /\ command.kind = "action"
  BY <1>1, <1>2, CommandTaken
<1>4. command.instance \in Instances /\ command.generation \in Generations /\ command.id \in Nat
  BY <1>3 DEF Command
<1>5. \A succeeded \in BOOLEAN : Delivery(command, succeeded) \in EventRecord
  BY <1>4, ControlAssumption DEF Delivery, EventRecord
<1>6. ASSUME Emit(<<Delivery(command, TRUE)>>),
             invocations' = [x \in DOMAIN invocations |->
                               IF x = command.id THEN [invocations[x] EXCEPT !.handed = invocations[x].age]
                               ELSE invocations[x]]
      PROVE  HonestInv'
  <2>1. PICK new, succeeded : /\ new = <<Delivery(command, succeeded)>> /\ succeeded = TRUE
                              /\ Emit(new)
    BY <1>6
  <2>2. PICK delivery \in EventRecord : delivery = Delivery(command, succeeded) /\ new = <<delivery>>
    BY <1>5, <2>1
  <2>3. new \in Seq(EventRecord) /\ DOMAIN new = {1} /\ new[1] = Delivery(command, succeeded)
    BY <2>2
  <2>4. PICK id : id = command.id
    OBVIOUS
  <2> QED
    BY <1>1, <1>2, <1>3, <1>6, <2>1, <2>3, <2>4, HandedKeepsHonest
<1>7. ASSUME NEW new \in Seq(EventRecord), Emit(new), NEW succeeded, succeeded = FALSE, UNCHANGED invocations,
             1 \in DOMAIN new, new[1] = Delivery(command, succeeded),
             \A n \in DOMAIN new : n = 1 \/ new[n].kind = "removed"
      PROVE  HonestInv'
  <2>1. PICK id : id = command.id
    OBVIOUS
  <2> QED
    BY <1>1, <1>2, <1>3, <1>7, <2>1, HandedKeepsHonest
<1>8. ASSUME Emit(<<Delivery(command, FALSE)>>), UNCHANGED invocations PROVE HonestInv'
  <2>1. PICK new, succeeded : /\ new = <<Delivery(command, succeeded)>> /\ succeeded = FALSE
                              /\ Emit(new)
    BY <1>8
  <2>2. PICK delivery \in EventRecord : delivery = Delivery(command, succeeded) /\ new = <<delivery>>
    BY <1>5, <2>1
  <2>3. new \in Seq(EventRecord) /\ DOMAIN new = {1} /\ new[1] = Delivery(command, succeeded)
    BY <2>2
  <2> QED
    BY <1>7, <1>8, <2>1, <2>3
<1>9. ASSUME NEW i \in Instances, process[i] = "running", UNCHANGED invocations,
             Emit(<<Delivery(command, FALSE), Event("removed", i)>>)
      PROVE  HonestInv'
  <2>1. PICK new, succeeded, event :
          /\ new = <<Delivery(command, succeeded), event>> /\ succeeded = FALSE
          /\ event = Event("removed", i) /\ Emit(new)
    BY <1>9
  <2>2. event \in EventRecord /\ event.kind = "removed"
    BY <1>9, <2>1, EventTyped DEF Event
  <2>3. PICK delivery \in EventRecord : delivery = Delivery(command, succeeded) /\ new = <<delivery, event>>
    BY <1>5, <2>1
  <2>4. /\ new \in Seq(EventRecord) /\ DOMAIN new = {1, 2} /\ new[1] = Delivery(command, succeeded)
        /\ new[2] = event
    BY <2>2, <2>3
  <2> QED
    BY <1>7, <1>9, <2>1, <2>2, <2>4
<1> QED
  BY <1>2, <1>4, <1>6, <1>8, <1>9 DEF HandleAction

--------------------------------------------------------------------------------
LEMMA HonestInvInitially == Init => HonestInv
<1> SUFFICES ASSUME Init PROVE HonestInv
  OBVIOUS
<1>1. /\ DOMAIN clients = {} /\ DOMAIN actions = {} /\ DOMAIN completed = {} /\ DOMAIN invocations = {}
      /\ DOMAIN commands = {} /\ DOMAIN events = {}
  BY DEF Init
<1> QED
  BY <1>1 DEF HonestInv, InvocationsTyped, IdsAreKnown, ClientsAreTold, CompletionsAreTrue,
              ActionsAreAsSubmitted, CommandsAreNew, DeliveriesAreTrue, RepliesAreSaid, GivenIsReported,
              WaitsAreTimed

LEMMA HonestInvInductive == ControlInv /\ HonestInv /\ [Next]_vars => HonestInv'
<1> SUFFICES ASSUME ControlInv, HonestInv, [Next]_vars PROVE HonestInv'
  OBVIOUS
<1>1. CASE Frame
  BY <1>1, ConsumeKeepsHonest, AnswerKeepsHonest, ServeKeepsHonest, EndAdvanceKeepsHonest DEF Frame
<1>2. CASE Supervisor
  BY <1>2, HandleActionKeepsHonest, HandleReplaceKeepsHonest, ProcessKeepsHonest, ProcessAnswersKeepsHonest
     DEF Supervisor
<1>3. CASE UNCHANGED vars
  <2>1. UNCHANGED <<clients, actions, completed, next_id, commands, events, phase, invocations>>
    BY <1>3 DEF vars, server, dispatcher, supervisor
  <2>2. SameToldOrNothing
    BY <2>1 DEF SameToldOrNothing
  <2> QED
    BY <2>1, <2>2, VisitedKeepsHonest
<1> QED
  BY <1>1, <1>2, <1>3, AutomaticReloadKeepsHonest, QuitKeepsHonest, TickKeepsHonest DEF Next, Finished

HonestyHolds == ControlInv /\ HonestInv

LEMMA HonestyIsInductive == Spec => []HonestyHolds
<1>1. Init => HonestyHolds
  BY ControlInvInitially, HonestInvInitially DEF HonestyHolds
<1>2. HonestyHolds /\ [Next]_vars => HonestyHolds'
  BY ControlInvInductive, HonestInvInductive DEF HonestyHolds
<1> QED
  BY <1>1, <1>2, PTL DEF Spec

(* However answers, deliveries, restarts and deadlines fall, what gislandctl is    *)
(* told is true: "accepted" and "rejected" are what the process that was addressed *)
(* said of this action after it had it, a timeout means that it had the action, a  *)
(* failed delivery that no process ever has it (ControlDispatcher::consume, expire).*)
THEOREM AnswersAreAlwaysTrue == Spec => []AnswersAreTrue
<1>1. HonestyHolds => AnswersAreTrue
  <2> SUFFICES ASSUME HonestInv, NEW c \in DOMAIN clients
               PROVE  /\ clients[c].answer \in {"accepted", "rejected"} =>
                           <<invocations[clients[c].asked].to, clients[c].answer>>
                             \in invocations[clients[c].asked].said
                      /\ clients[c].answer = "timeout" => invocations[clients[c].asked].handed # Unset
                      /\ clients[c].answer = "undelivered" => invocations[clients[c].asked].handed = Unset
    BY DEF HonestyHolds, AnswersAreTrue
  <2>1. clients[c].answer \in Telling => Justified(clients[c].asked, clients[c].answer)
    BY DEF HonestInv, ClientsAreTold
  <2> QED
    BY <2>1 DEF Telling, Justified, Given
<1> QED
  BY <1>1, HonestyIsInductive, PTL

\* Only IpcServer's deadline closes a connection "late", and what it waited for is not in
\* the way: whatever else happens to a connection that waits leaves `close` alone.
LEMMA LateIsOverdue ==
  ASSUME ControlInv, [Next]_vars, NEW c \in DOMAIN clients, Pending(c), clients[c].close = "no",
         c \in DOMAIN clients', clients'[c].close = "late"
  PROVE  phase = "serve" /\ clients[c].left = 0
<1>1. clients[c] \in Client /\ clients'[c] # clients[c] /\ clients'[c].close # clients[c].close
  BY DEF ControlInv, ClientsTyped
<1>2. CASE Serve
  <2>1. PICK d \in toserve : ServeLate(d) \/ ServePending(d) \/ ServeAnswering(d) \/ ServeReading(d)
    BY <1>2 DEF Serve
  <2>2. d \in DOMAIN clients /\ phase = "serve"
    BY <1>2 DEF Serve, ControlInv, ClientsTyped
  <2>3. ASSUME NEW ending \in {"closed", "late"}, Closing(d, ending)
        PROVE  d = c /\ ending = "late"
    <3>1. clients' = [clients EXCEPT ![d] = [clients[d] EXCEPT !.close = ending]]
      BY <2>3 DEF Closing, Visited
    <3> QED
      BY <1>1, <2>2, <3>1 DEF Client
  <2>4. ~Visited(d, clients[d])
    BY <1>1, <2>2 DEF Visited
  <2>5. CASE ServeLate(d)
    BY <2>2, <2>3, <2>5 DEF ServeLate
  <2>6. ~ServePending(d)
    BY <2>3, <2>4 DEF ServePending
  <2>7. ~ServeAnswering(d)
    <3> SUFFICES ASSUME NEW client \in Written(clients[d]), Visited(d, client) PROVE FALSE
      BY DEF ServeAnswering
    <3>1. clients' = [clients EXCEPT ![d] = client]
      BY DEF Visited
    <3> QED
      BY <1>1, <2>2, <3>1 DEF Written, Client
  <2>8. ~ServeReading(d)
    <3> SUFFICES ASSUME ServeReading(d) PROVE FALSE
      OBVIOUS
    <3>1. ~Pending(d) /\ d # c
      BY DEF ServeReading, Reading
    <3>2. \A client : clients' # [clients EXCEPT ![d] = client]
      BY <1>1, <2>2, <3>1
    <3>3. ~ReadPart(d) /\ ~ReadSync(d)
      BY <2>3, <2>4, <3>1, <3>2 DEF ReadPart, ReadSync, Visited
    <3>4. ~ReadReload(d) /\ \A i \in Instances : ~ReadAction(d, i) /\ ~ReadRestart(d, i)
      <4>1. ~ReadReload(d)
        BY <3>2 DEF ReadReload
      <4>2. ASSUME NEW i \in Instances PROVE ~ReadRestart(d, i)
        BY <3>2 DEF ReadRestart
      <4>3. ASSUME NEW i \in Instances PROVE ~ReadAction(d, i)
        <5> SUFFICES ASSUME ReadAction(d, i) PROVE FALSE
          OBVIOUS
        <5>1. \E client : clients' = [clients EXCEPT ![d] = client]
          BY DEF ReadAction
        <5> QED
          BY <3>2, <5>1
      <4> QED
        BY <4>1, <4>2, <4>3
    <3> QED
      BY <3>3, <3>4 DEF ServeReading
  <2> QED
    BY <2>1, <2>5, <2>6, <2>7, <2>8
<1>3. ASSUME NEW served, DOMAIN served = DOMAIN clients, Admit(served),
             \A d \in DOMAIN clients :
               /\ served[d] \in Client /\ served[d].token \in {NoToken, clients[d].token}
               /\ served[d].close = clients[d].close
      PROVE  FALSE
  BY <1>1, <1>3, AdmitTyped
<1>4. ASSUME NEW answers, \A id \in DOMAIN answers : answers[id] \in Answers, Admit(Completed(answers))
      PROVE  FALSE
  <2>1. PICK served : served = Completed(answers) /\ Admit(served)
    BY <1>4
  <2>2. /\ DOMAIN served = DOMAIN clients
        /\ \A d \in DOMAIN clients :
             /\ served[d] \in Client
             /\ served[d].token = IF clients[d].token \in DOMAIN answers THEN NoToken ELSE clients[d].token
    BY <1>4, <2>1, CompletedTyped
  <2>3. \A d \in DOMAIN clients : clients[d] \in Client
    BY DEF ControlInv, ClientsTyped
  <2>4. \A d \in DOMAIN clients : served[d].close = clients[d].close
    BY <2>1, <2>3 DEF Completed, Responded, Client
  <2> QED
    BY <1>3, <2>1, <2>2, <2>4
<1>5. ASSUME NEW ids, NEW answer \in Answers, Admit(Completed(Merged([id \in ids |-> answer], completed)))
      PROVE  FALSE
  <2>1. PICK new : new = [id \in ids |-> answer] /\ Admit(Completed(Merged(new, completed)))
    BY <1>5
  <2>2. PICK answers : answers = Merged(new, completed) /\ Admit(Completed(answers))
    BY <2>1
  <2>3. \A id \in DOMAIN completed : completed[id] \in Answers
    BY DEF ControlInv, ActionsTyped
  <2>4. \A id \in DOMAIN new : new[id] = answer
    BY <2>1
  <2>5. \A id \in DOMAIN answers : answers[id] \in Answers
    BY <1>5, <2>2, <2>3, <2>4 DEF Merged
  <2> QED
    BY <1>4, <2>2, <2>5
<1>6. {"timeout", "cancelled"} \subseteq Answers
  BY DEF Answers
<1>7. CASE Answer
  <2>1. PICK overdue : Admit(Completed(Merged([id \in overdue |-> "timeout"], completed)))
    BY <1>7 DEF Answer
  <2>2. PICK answer \in Answers : Admit(Completed(Merged([id \in overdue |-> answer], completed)))
    BY <1>6, <2>1
  <2> QED
    BY <1>5, <2>2
<1>8. CASE Quit
  <2>1. PICK ids : Admit(Completed(Merged([id \in ids |-> "cancelled"], completed)))
    BY <1>8 DEF Quit
  <2>2. PICK answer \in Answers : Admit(Completed(Merged([id \in ids |-> answer], completed)))
    BY <1>6, <2>1
  <2> QED
    BY <1>5, <2>2
<1>9. CASE EndAdvance
  <2>1. PICK closed : clients' = IF quitting THEN <<>> ELSE Remove(clients, closed)
    BY <1>9 DEF EndAdvance
  <2> QED
    BY <1>1, <2>1 DEF Remove
<1>10. CASE Tick
  <2>1. clients' = [d \in DOMAIN clients |-> [clients[d] EXCEPT !.left = Passed(@)]]
    BY <1>10 DEF Tick
  <2> QED
    BY <1>1, <2>1 DEF Client
<1>11. CASE clients' = clients
  BY <1>1, <1>11
<1>12. CASE Supervisor
  <2>1. \E new : Emit(new)
    BY <1>12 DEF Supervisor, HandleAction, HandleReplace, ProcessStarts, ProcessReady, ProcessEnds, ProcessAnswers
  <2> QED
    BY <1>11, <2>1 DEF Emit, server
<1>13. CASE Consume \/ AutomaticReload \/ UNCHANGED vars
  BY <1>11, <1>13 DEF Consume, AutomaticReload, vars, server
<1> QED
  BY <1>2, <1>7, <1>8, <1>9, <1>10, <1>12, <1>13 DEF Next, Frame, Finished

(* A connection that waits for an action is closed without an answer only when its *)
(* three seconds are over, and then the action was not given to the module, or so  *)
(* late that the module's own two seconds are not (IpcServer::advance).            *)
THEOREM SilenceIsAlwaysDeserved == Spec => SilenceIsDeserved
<1>1. HonestyHolds /\ [Next]_vars
        => \A c \in DOMAIN clients :
             Pending(c) /\ clients[c].close = "no" /\ c \in DOMAIN clients' /\ clients'[c].close = "late"
               => /\ invocations[clients[c].token].age >= PendingTimeout
                  /\ \/ invocations[clients[c].token].handed = Unset
                     \/ invocations[clients[c].token].handed + ActionTimeout > PendingTimeout
  <2> SUFFICES ASSUME ControlInv, HonestInv, [Next]_vars, NEW c \in DOMAIN clients, Pending(c),
                      clients[c].close = "no", c \in DOMAIN clients', clients'[c].close = "late"
               PROVE  /\ invocations[clients[c].token].age >= PendingTimeout
                      /\ \/ invocations[clients[c].token].handed = Unset
                         \/ invocations[clients[c].token].handed + ActionTimeout > PendingTimeout
    BY DEF HonestyHolds
  <2>1. phase = "serve" /\ clients[c].left = 0
    BY LateIsOverdue
  <2>2. PICK id : id = clients[c].token
    OBVIOUS
  <2>3. /\ id \in DOMAIN invocations /\ invocations[id].age + 0 = PendingTimeout
        /\ invocations[id].handed = Unset \/ invocations[id].handed + ActionTimeout > PendingTimeout
    BY <2>1, <2>2 DEF HonestInv, WaitsAreTimed, ClientsAreTold
  <2>4. invocations[id].age \in Nat
    BY <2>3 DEF HonestInv, InvocationsTyped, InvocationRecord
  <2> QED
    BY <2>2, <2>3, <2>4, ControlAssumption
<1>2. HonestyHolds /\ [Next]_vars
        => [\A c \in DOMAIN clients :
              Pending(c) /\ clients[c].close = "no" /\ c \in DOMAIN clients' /\ clients'[c].close = "late"
                => LET action == invocations[clients[c].token]
                   IN  /\ action.age >= PendingTimeout
                       /\ action.handed = Unset \/ action.handed + ActionTimeout > PendingTimeout]_vars
  BY <1>1
<1> QED
  BY <1>2, HonestyIsInductive, PTL DEF Spec, SilenceIsDeserved

================================================================================
