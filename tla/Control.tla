-------------------------------- MODULE Control --------------------------------
(* The way of a gislandctl request through the application: IpcServer             *)
(* (src/ipc_server.cpp) holds the connections, ControlDispatcher                  *)
(* (src/control_dispatcher.cpp) the actions that wait for a module's answer, and  *)
(* the frame of Application::run (src/application.cpp) drives both:               *)
(*   idle     between two frames: time passes, a reload may be due, the window    *)
(*            may be closed                                                       *)
(*   events   a frame has begun: supervisor.drain_events(), one event per step    *)
(*   serve    IpcServer::advance, one connection per step, each once in any order *)
(*   done     run() has returned                                                  *)
(* Beside it the supervisor works off its commands and emits events, with the     *)
(* freedom ProcessEvents gives it; modules answer whatever and whenever they      *)
(* like.  A waiting time is what is left of it.                                   *)

EXTENDS Integers, Sequences, FiniteSets

CONSTANTS
  Instances,        \* the configured and enabled modules
  MaxClients,       \* maximum_clients
  MaxPending,       \* maximum_pending_clients
  FrameAccepts,     \* frame_accepts
  PhaseTimeout,     \* phase_timeout: 2 s
  PendingTimeout,   \* pending_timeout: 3 s
  ActionTimeout,    \* the deadline of a delivered action: 2 s
  MaxCommands,      \* command_capacity of the supervisor
  MaxConnections,   \* bound: connections that are ever made
  MaxInvocations,   \* bound: invocation ids that are ever allocated
  MaxGeneration,    \* bound: processes of a module
  MaxQueue          \* bound: events waiting for a frame

ASSUME ControlAssumption ==
  /\ {MaxClients, MaxPending, FrameAccepts, MaxCommands} \subseteq Nat \ {0}
  /\ {PhaseTimeout, ActionTimeout, PendingTimeout} \subseteq Nat \ {0}
  /\ ActionTimeout <= PendingTimeout
  /\ {MaxConnections, MaxInvocations, MaxGeneration, MaxQueue} \subseteq Nat

VARIABLES
  clients,          \* clients_, by sequence
  arrived,          \* next_client_sequence_ - 1
  toserve,          \* the connections that this frame has not served yet
  actions,          \* pending_actions_
  completed,        \* completed_actions_
  next_id,          \* next_invocation_id_
  ready,            \* RuntimeCoordinator::ready_instances_
  known,            \* RuntimeCoordinator::process_generations_; 0 for none
  commands,         \* the supervisor's commands_
  events,           \* the supervisor's events_
  process,          \* each module's process, as in ProcessEvents
  generation,       \* the generation of its last process
  phase,
  quitting,         \* the frame loop has ended
  invocations       \* history: what became of the actions that connections are about

server == <<clients, arrived, toserve>>
dispatcher == <<actions, completed, next_id>>
coordinator == <<ready, known>>
supervisor == <<commands, events, process, generation>>
vars == <<server, dispatcher, coordinator, supervisor, phase, quitting, invocations>>

Unset == -1    \* an std::optional without a value
NoToken == 0

Merged(new, map) ==
  [key \in DOMAIN new \cup DOMAIN map |-> IF key \in DOMAIN new THEN new[key] ELSE map[key]]
Put(map, key, value) == Merged([k \in {key} |-> value], map)
Remove(map, keys) == [key \in DOMAIN map \ keys |-> map[key]]
Passed(left) == IF left > 0 THEN left - 1 ELSE left

--------------------------------------------------------------------------------
(* struct Client.  `answer` stands for the response and `close` also says whether *)
(* a deadline is the reason; `asked` is history: the action that the connection   *)
(* is or was about.                                                               *)

Answers == {"none", "sync", "accepted", "rejected", "timeout", "cancelled", "undelivered"}
Endings == {"no", "closed", "late"}

NewClient ==
  [token |-> NoToken, asked |-> NoToken, answer |-> "none", left |-> PhaseTimeout, close |-> "no"]

Responded_NoDeadline(client, answer) ==   \* mutant
  [client EXCEPT !.token = NoToken, !.answer = answer, !.left = Unset]

\* prepare_response, for a client that no longer waits for an action.
Responded(client, answer) ==
  [client EXCEPT !.token = NoToken, !.answer = answer, !.left = PhaseTimeout]

Deferred_KeepsAcceptedAt(client, token) ==   \* mutant
  [client EXCEPT !.token = token, !.asked = token]

\* The end of prepare_request, for an action that waits: accepted_at is reset.
Deferred(client, token) ==
  [client EXCEPT !.token = token, !.asked = token, !.left = PendingTimeout]

\* write(): the rest of the response is sent or the peer is gone, or some of it is left.
Written(client) ==
  {client, [client EXCEPT !.close = "closed"]}

Pending(c) == clients[c].token # NoToken
Reading(c) == ~Pending(c) /\ clients[c].answer = "none"
Answering(c) == clients[c].answer # "none"
PendingCount == Cardinality({c \in DOMAIN clients : Pending(c)})
TooManyPending == PendingCount >= MaxPending

\* complete(token, response) for each of the answers; the others find no client.
Completed(answers) ==
  [c \in DOMAIN clients |->
     IF clients[c].token \in DOMAIN answers
     THEN Responded(clients[c], answers[clients[c].token]) ELSE clients[c]]

--------------------------------------------------------------------------------
(* ControlDispatcher.                                                             *)

\* complete() for each id of a set.
Complete(ids, answer) ==
  /\ actions' = Remove(actions, ids)
  /\ completed' = Merged([id \in ids |-> answer], completed)

Waiting(instance, generations) ==
  {id \in DOMAIN actions :
     actions[id].instance = instance /\ actions[id].generation \in generations}

Generations == 1..MaxGeneration

ConsumeStarted(event) ==
  /\ event.kind = "started"
  /\ Complete(Waiting(event.instance, Generations \ {event.generation}), "cancelled")
  /\ known' = [known EXCEPT ![event.instance] = event.generation]
  /\ UNCHANGED ready

\* The coordinator ignores what a process says that another one has followed.
Matches(event) == known[event.instance] \in {0, event.generation}

ConsumeReady(event) ==
  /\ event.kind = "ready"
  /\ IF Matches(event)
     THEN /\ ready' = ready \cup {event.instance}
          /\ known' = [known EXCEPT ![event.instance] = event.generation]
     ELSE UNCHANGED coordinator
  /\ UNCHANGED <<actions, completed>>

\* ContextsRemoved, and the ProcessExited that follows it.
ConsumeRemoved(event) ==
  /\ event.kind = "removed"
  /\ Complete(Waiting(event.instance, {event.generation}), "cancelled")
  /\ IF Matches(event)
     THEN /\ ready' = ready \ {event.instance}
          /\ known' = [known EXCEPT ![event.instance] = 0]
     ELSE UNCHANGED coordinator

\* Both kinds of event below count only for an action that still waits for them.
Concerns(event, id) ==
  /\ id \in DOMAIN actions
  /\ actions[id].instance = event.instance /\ actions[id].generation = event.generation

Delivered_Always(id) == TRUE   \* mutant
Delivered(id) == actions[id].left # Unset

ConsumeDelivery(event) ==
  /\ event.kind = "delivery"
  /\ IF Concerns(event, event.id) /\ ~Delivered(event.id)
     THEN IF event.succeeded
          THEN /\ actions' = [actions EXCEPT ![event.id].left = event.left]
               /\ UNCHANGED completed
          ELSE Complete({event.id}, "undelivered")
     ELSE UNCHANGED <<actions, completed>>
  /\ UNCHANGED coordinator

ConsumeResult(event) ==
  /\ event.kind = "result"
  /\ IF Concerns(event, event.id) /\ Delivered(event.id)
     THEN Complete({event.id}, event.answer)
     ELSE UNCHANGED <<actions, completed>>
  /\ UNCHANGED coordinator

Consume ==
  /\ phase \in {"idle", "events"} /\ events # << >>
  /\ phase' = "events"
  /\ LET event == Head(events)
     IN  \/ ConsumeStarted(event) \/ ConsumeReady(event) \/ ConsumeRemoved(event)
         \/ ConsumeDelivery(event) \/ ConsumeResult(event)
  /\ events' = Tail(events)
  /\ UNCHANGED <<server, next_id, commands, process, generation, quitting, invocations>>

--------------------------------------------------------------------------------
(* The frame.                                                                     *)

\* The queue was drained; what is overdue is completed, and all that is complete sent.
\* Then advance() accepts connections; those that find every place taken are closed.
Admit(served) ==
  \E n \in 0..FrameAccepts :
    LET free == MaxClients - Cardinality(DOMAIN served)
        admitted == IF n <= free THEN n ELSE free
    IN  /\ arrived + admitted <= MaxConnections
        /\ arrived' = arrived + admitted
        /\ clients' = Merged([c \in arrived + 1..arrived + admitted |-> NewClient], served)
        /\ toserve' = DOMAIN clients'

Answer ==
  /\ phase \in {"idle", "events"} /\ events = << >>
  /\ LET overdue == {id \in DOMAIN actions : actions[id].left = 0}
     IN  /\ Admit(Completed(Merged([id \in overdue |-> "timeout"], completed)))
         /\ actions' = Remove(actions, overdue)
  /\ completed' = << >>
  /\ phase' = "serve"
  /\ UNCHANGED <<next_id, coordinator, supervisor, quitting, invocations>>

\* One visit of a connection that leaves everything but the connection alone.
Visited(c, client) ==
  /\ clients' = [clients EXCEPT ![c] = client]
  /\ UNCHANGED <<dispatcher, coordinator, supervisor, invocations>>

Closing(c, ending) == Visited(c, [clients[c] EXCEPT !.close = ending])

ServeLate(c) == clients[c].left = 0 /\ Closing(c, "late")
ServePending(c) == clients[c].left # 0 /\ Pending(c) /\ (Visited(c, clients[c]) \/ Closing(c, "closed"))
ServeAnswering(c) ==
  clients[c].left # 0 /\ Answering(c) /\ \E client \in Written(clients[c]) : Visited(c, client)

\* Nothing or a part of the request has come, or the peer has gone.
ReadPart(c) == Visited(c, clients[c]) \/ Closing(c, "closed")

\* A request that is answered at once: malformed, about the overlay, refused, or too late.
ReadSync(c) == \E client \in Written(Responded(clients[c], "sync")) : Visited(c, client)

NewInvocation(i) == [to |-> <<i, known[i]>>, age |-> 0, handed |-> Unset, said |-> {}]

\* action(): it waits, unless the supervisor's queue is full, or too many wait already
\* (when the action has been submitted, and is no longer waited for).
ReadAction(c, i) ==
  /\ i \in ready /\ known[i] # 0 /\ next_id <= MaxInvocations
  /\ next_id' = next_id + 1
  /\ IF Len(commands) = MaxCommands
     THEN UNCHANGED commands
     ELSE commands' = Append(commands, [kind |-> "action", instance |-> i,
                                        generation |-> known[i], id |-> next_id])
  /\ IF Len(commands) = MaxCommands \/ TooManyPending
     THEN /\ \E client \in Written(Responded(clients[c], "sync")) :
               clients' = [clients EXCEPT ![c] = client]
          /\ UNCHANGED <<actions, invocations>>
     ELSE /\ invocations' = Put(invocations, next_id, NewInvocation(i))
          /\ actions' = Put(actions, next_id,
                            [instance |-> i, generation |-> known[i], left |-> Unset])
          /\ clients' = [clients EXCEPT ![c] = Deferred(@, next_id)]
  /\ UNCHANGED <<completed, coordinator, events, process, generation>>

\* restart(), when the supervisor takes the command; ModuleSupervisor has the rest of it.
ReadRestart(c, i) ==
  /\ Len(commands) < MaxCommands
  /\ commands' = Append(commands, [kind |-> "replace", instances |-> {i}])
  /\ Complete(Waiting(i, Generations), "cancelled")
  /\ \E client \in Written(Responded(clients[c], "sync")) : clients' = [clients EXCEPT ![c] = client]
  /\ UNCHANGED <<next_id, coordinator, events, process, generation, invocations>>

Replaced_None(replaced) == {}   \* mutant
Replaced(replaced) == UNION {Waiting(i, {known[i]}) : i \in replaced \cap ready}

\* reload_application, for the processes it replaces and the actions its caller cancels.
Reloaded(replaced, cancelled) ==
  /\ Len(commands) < MaxCommands
  /\ commands' = IF replaced = {} THEN commands
                  ELSE Append(commands, [kind |-> "replace", instances |-> replaced])
  /\ Complete(cancelled \cup Replaced(replaced), "cancelled")
  /\ ready' = ready \ replaced
  /\ UNCHANGED <<next_id, known, events, process, generation, invocations>>

ReadReload(c) ==
  /\ \E replaced \in SUBSET Instances : Reloaded(replaced, DOMAIN actions)
  /\ \E client \in Written(Responded(clients[c], "sync")) : clients' = [clients EXCEPT ![c] = client]

\* While the application is shutting down every request is refused.
ServeReading(c) ==
  /\ clients[c].left # 0 /\ Reading(c)
  /\ \/ ReadPart(c)
     \/ ReadSync(c)
     \/ ~quitting /\ \E i \in Instances : ReadAction(c, i) \/ ReadRestart(c, i)
     \/ ~quitting /\ ReadReload(c)

Serve ==
  /\ phase = "serve"
  /\ \E c \in toserve :
       /\ ServeLate(c) \/ ServePending(c) \/ ServeAnswering(c) \/ ServeReading(c)
       /\ toserve' = toserve \ {c}
  /\ UNCHANGED <<arrived, phase, quitting>>

TokensOf(closed) == {clients[c].token : c \in closed}

\* Closed connections cancel what they waited for; at the end of run() all are closed.
EndAdvance ==
  /\ phase = "serve" /\ toserve = {}
  /\ LET closed == {c \in DOMAIN clients : clients[c].close # "no"}
     IN  /\ actions' = Remove(actions, TokensOf(closed))
         /\ clients' = IF quitting THEN << >> ELSE Remove(clients, closed)
  /\ invocations' = Remove(invocations, DOMAIN invocations \ {clients'[c].asked : c \in DOMAIN clients'})
  /\ phase' = IF quitting THEN "done" ELSE "idle"
  /\ UNCHANGED <<arrived, toserve, completed, next_id, coordinator, supervisor, quitting>>

\* The reload of the file watcher, which cancels only what it replaces.
AutomaticReload ==
  /\ phase = "idle"
  /\ \E replaced \in SUBSET Instances \ {{}} : Reloaded(replaced, {})
  /\ UNCHANGED <<server, phase, quitting>>

\* The window is closed: everything is cancelled and answered, and advance runs once more.
Quit ==
  /\ phase = "idle"
  /\ Admit(Completed(Merged([id \in DOMAIN actions |-> "cancelled"], completed)))
  /\ actions' = << >> /\ completed' = << >>
  /\ quitting' = TRUE
  /\ phase' = "serve"
  /\ UNCHANGED <<next_id, coordinator, supervisor, invocations>>

Tick ==
  /\ phase = "idle"
  /\ clients' = [c \in DOMAIN clients |-> [clients[c] EXCEPT !.left = Passed(@)]]
  /\ actions' = [id \in DOMAIN actions |-> [actions[id] EXCEPT !.left = Passed(@)]]
  /\ events' = [n \in DOMAIN events |->
                  IF events[n].kind = "delivery" THEN [events[n] EXCEPT !.left = Passed(@)]
                  ELSE events[n]]
  /\ invocations' = [id \in DOMAIN invocations |->
                       [invocations[id] EXCEPT
                          !.age = IF id \in DOMAIN actions /\ @ < PendingTimeout THEN @ + 1 ELSE @]]
  /\ UNCHANGED <<arrived, toserve, completed, next_id, coordinator, commands, process,
                 generation, phase, quitting>>

Finished == phase = "done" /\ UNCHANGED vars

--------------------------------------------------------------------------------
(* The supervisor and the modules.  Their steps are taken between two frames: all *)
(* that a frame shares with them are the two queues, and it takes the whole of    *)
(* `events` at its start and only appends to `commands`.                          *)

Event(kind, i) == [kind |-> kind, instance |-> i, generation |-> generation[i]]

Emit(new) ==
  /\ phase = "idle"
  /\ Len(events) + Len(new) <= MaxQueue
  /\ events' = events \o new
  /\ UNCHANGED <<server, dispatcher, coordinator, phase, quitting>>

\* The events of an instance whose process, if it has one, is given up.
Gone(i) == IF process[i] = "absent" THEN << >> ELSE <<Event("removed", i)>>

Delivery(command, succeeded) ==
  [kind |-> "delivery", instance |-> command.instance, generation |-> command.generation,
   id |-> command.id, succeeded |-> succeeded, left |-> ActionTimeout]

\* handle_send_action: into the process's queue, or not, with a failure when it is full.
HandleAction ==
  /\ commands # << >> /\ Head(commands).kind = "action"
  /\ LET command == Head(commands)
         i == command.instance
     IN  IF process[i] = "running" /\ generation[i] = command.generation
         THEN \/ /\ Emit(<<Delivery(command, TRUE)>>)
                 /\ invocations' = [id \in DOMAIN invocations |->
                      IF id = command.id
                      THEN [invocations[id] EXCEPT !.handed = invocations[id].age]
                      ELSE invocations[id]]
                 /\ UNCHANGED process
              \/ /\ Emit(<<Delivery(command, FALSE), Event("removed", i)>>)
                 /\ process' = [process EXCEPT ![i] = "absent"]
                 /\ UNCHANGED invocations
         ELSE Emit(<<Delivery(command, FALSE)>>) /\ UNCHANGED <<process, invocations>>
  /\ commands' = Tail(commands)
  /\ UNCHANGED <<generation>>

\* handle_restart, or handle_reconfigure for one of its instances after the other.
HandleReplace ==
  /\ commands # << >> /\ Head(commands).kind = "replace"
  /\ LET replaced == Head(commands).instances
     IN  \E i \in replaced :
           /\ Emit(Gone(i))
           /\ process' = [process EXCEPT ![i] = "absent"]
           /\ commands' = IF replaced = {i} THEN Tail(commands)
                           ELSE <<[kind |-> "replace", instances |-> replaced \ {i}]>>
                                  \o Tail(commands)
  /\ UNCHANGED <<generation, invocations>>

ProcessStarts(i) ==
  /\ process[i] = "absent" /\ generation[i] < MaxGeneration
  /\ process' = [process EXCEPT ![i] = "starting"]
  /\ generation' = [generation EXCEPT ![i] = @ + 1]
  /\ Emit(<<[Event("started", i) EXCEPT !.generation = @ + 1]>>)
  /\ UNCHANGED <<commands, invocations>>

ProcessReady(i) ==
  /\ process[i] = "starting"
  /\ process' = [process EXCEPT ![i] = "running"]
  /\ Emit(<<Event("ready", i)>>)
  /\ UNCHANGED <<commands, generation, invocations>>

ProcessEnds(i) ==
  /\ process[i] # "absent"
  /\ process' = [process EXCEPT ![i] = "absent"]
  /\ Emit(Gone(i))
  /\ UNCHANGED <<commands, generation, invocations>>

\* A module may answer an action that it has not been given yet.  What it says of one that
\* it has answered, or that is no longer waited for, would find nothing to complete.
ProcessAnswers(i) ==
  /\ process[i] = "running"
  /\ \E id \in DOMAIN actions, answer \in {"accepted", "rejected"} :
       /\ \A said \in invocations[id].said : said[1] # <<i, generation[i]>>
       /\ Emit(<<[kind |-> "result", instance |-> i, generation |-> generation[i],
                 id |-> id, answer |-> answer]>>)
       /\ invocations' = IF invocations[id].handed = Unset THEN invocations
                         ELSE [invocations EXCEPT ![id].said =
                                 @ \cup {<<<<i, generation[i]>>, answer>>}]
  /\ UNCHANGED <<commands, process, generation>>

Supervisor ==
  \/ HandleAction \/ HandleReplace
  \/ \E i \in Instances : ProcessStarts(i) \/ ProcessReady(i) \/ ProcessEnds(i) \/ ProcessAnswers(i)

--------------------------------------------------------------------------------
Init ==
  /\ clients = << >> /\ arrived = 0 /\ toserve = {}
  /\ actions = << >> /\ completed = << >> /\ next_id = 1
  /\ ready = {} /\ known = [i \in Instances |-> 0]
  /\ commands = << >> /\ events = << >>
  /\ process = [i \in Instances |-> "absent"] /\ generation = [i \in Instances |-> 0]
  /\ phase = "idle" /\ quitting = FALSE
  /\ invocations = << >>

Frame == Consume \/ Answer \/ Serve \/ EndAdvance

Next == Frame \/ AutomaticReload \/ Quit \/ Tick \/ Finished \/ Supervisor

Spec == Init /\ [][Next]_vars

\* The loop draws one frame after the other, and time passes between them.
FairSpec == Spec /\ WF_vars(Frame) /\ SF_vars(Tick)

--------------------------------------------------------------------------------
(* Properties.                                                                    *)

\* The types of all variables, and the limits of the server.
TypeOK ==
  /\ DOMAIN clients \subseteq 1..arrived /\ Cardinality(DOMAIN clients) <= MaxClients
  /\ \A c \in DOMAIN clients :
       clients[c] \in [token : 0..MaxInvocations, asked : 0..MaxInvocations, answer : Answers,
                       left : {Unset} \cup 0..PhaseTimeout \cup 0..PendingTimeout,
                       close : Endings]
  /\ toserve \subseteq DOMAIN clients
  /\ PendingCount <= MaxPending
  /\ \A id \in DOMAIN actions :
       actions[id] \in [instance : Instances, generation : Generations,
                        left : {Unset} \cup 0..ActionTimeout]
  /\ \A id \in DOMAIN completed : completed[id] \in Answers
  /\ ready \subseteq Instances
  /\ known \in [Instances -> 0..MaxGeneration]
  /\ Len(commands) <= MaxCommands /\ Len(events) <= MaxQueue

\* Every action that is waited for has exactly one connection to be answered on, and
\* every connection that waits will be answered or is about to be: none is left behind
\* by a disconnect, a refusal, a timeout, a cancellation or a shutdown.
\* (IpcServer's on_cancel and complete, ControlDispatcher's pending_actions_)
PendingActionsAreOwned ==
  /\ \A id \in DOMAIN actions : \E c \in DOMAIN clients : clients[c].token = id
  /\ \A c \in DOMAIN clients :
       Pending(c) => /\ clients[c].token \in DOMAIN actions \cup DOMAIN completed
                     /\ \A d \in DOMAIN clients \ {c} : clients[d].token # clients[c].token

\* An action is waited for only while the module it was given to is, to the
\* application's knowledge, running the same process: restarts, reloads, failures and
\* replacements all cancel.
WaitsForSameProcess ==
  \A id \in DOMAIN actions :
    /\ actions[id].instance \in ready
    /\ known[actions[id].instance] = actions[id].generation

\* Both sides of a wait are there: who asked, and the process that was asked
\* (ControlDispatcher::cancel_instance, on_cancel, IpcServer::close).
ActionsAreTracked == TypeOK /\ PendingActionsAreOwned /\ WaitsForSameProcess

\* What gislandctl is told is true: success or rejection is what the addressed process
\* said of this very action after it was given to it, a timeout means that it had the
\* action, a failed delivery that no process ever has it.
AnswersAreTrue ==
  \A c \in DOMAIN clients :
    LET answer == clients[c].answer
        action == invocations[clients[c].asked]
    IN  /\ answer \in {"accepted", "rejected"} =>
             <<action.to, answer>> \in action.said
        /\ answer = "timeout" => action.handed # Unset
        /\ answer = "undelivered" => action.handed = Unset

\* A connection that waits for an action is closed without an answer only if the action
\* was given to the module so late that the module's own deadline is still ahead.  (The
\* client then reports a broken connection, not a timeout: gislandctl waits as long.)
SilenceIsDeserved ==
  [][\A c \in DOMAIN clients :
       Pending(c) /\ clients[c].close = "no" /\ c \in DOMAIN clients' /\ clients'[c].close = "late"
         => LET action == invocations[clients[c].token]
            IN  /\ action.age >= PendingTimeout
                /\ action.handed = Unset \/ action.handed + ActionTimeout > PendingTimeout]_vars

\* Every connection is answered or closed in the end, whatever its client, the modules
\* and the supervisor do: once no more of them come (the bound MaxConnections), all the
\* places of the server are free again.
ConnectionsEnd == <>[](clients = << >>)
================================================================================
