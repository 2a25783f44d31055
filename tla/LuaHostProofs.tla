----------------------------- MODULE LuaHostProofs -----------------------------
(* Proofs about the Lua host, for every limit of its queues: the callbacks of a   *)
(* module stay apart, and the first record the core reads is ready.               *)

EXTENDS LuaHost, SequenceTheorems, FiniteSetTheorems, TLAPS

Kind == {"init", "visibility", "action", "unknown", "shutdown", "data", "ready", "log", "action_result"}
Record == [kind : Kind, id : Nat]

\* What the pipes and queues hold.
Typed ==
  /\ inbox \in Seq(Record) /\ lines \in Seq(Record) /\ outq \in Seq(Record)
  /\ sent \in Seq(Kind)
  /\ initialized \in BOOLEAN /\ stopped \in BOOLEAN

\* The loop gets to GLib's sources and the timers only when nothing is left to write,
\* and to the sources only before shutdown.
NothingPending == phase \in {"glib", "due"} => outq = <<>>

\* The inductive invariant.
HostInv == Typed /\ NothingPending /\ (stopped => timers = {} /\ phase # "sources")

--------------------------------------------------------------------------------
(* The queue.                                                                    *)

LEMMA MinOfTwo ==
  ASSUME NEW a \in Nat, NEW b \in Nat
  PROVE  /\ Min({a, b}) \in {a, b}
         /\ Min({a, b}) <= a /\ Min({a, b}) <= b
<1>1. \E x \in {a, b} : \A y \in {a, b} : x =< y
  <2>1. CASE a <= b
    BY <2>1
  <2>2. CASE ~(a <= b)
    BY <2>2
  <2> QED
    BY <2>1, <2>2
<1>2. /\ Min({a, b}) \in {a, b}
      /\ \A y \in {a, b} : Min({a, b}) =< y
  BY <1>1, Zenon DEF Min
<1> QED
  BY <1>2

LEMMA DataIsSeq ==
  ASSUME NEW k \in Nat
  PROVE  Data(k) \in Seq(Record) /\ Len(Data(k)) = k
<1>1. [kind |-> "data", id |-> 0] \in Record
  BY DEF Record, Kind
<1>2. Data(k) \in [1..k -> Record]
  BY <1>1 DEF Data
<1> QED
  BY <1>2

LEMMA QueuedIsSeq ==
  ASSUME NEW recs \in Seq(Record), outq \in Seq(Record)
  PROVE  Queued(recs) \in Seq(Record)
<1> DEFINE all == outq \o recs
           m   == Min({MaxOut, Len(outq) + Len(recs)})
<1>1. all \in Seq(Record) /\ Len(all) = Len(outq) + Len(recs) /\ Len(all) \in Nat
  BY ConcatProperties, LenProperties
<1>2. m \in Nat /\ m <= Len(all)
  BY <1>1, MinOfTwo, LuaHostAssumption
<1> HIDE DEF m, all
<1>3. \A i \in 1..m : all[i] \in Record
  BY <1>1, <1>2, ElementOfSeq
<1>4. SubSeq(all, 1, m) \in Seq(Record)
  BY <1>2, <1>3, SubSeqProperties
<1> QED
  BY <1>4 DEF Queued, m, all

\* What the core reads leaves the rest of the queue.
LEMMA WriteShrinks ==
  ASSUME outq \in Seq(Record), NEW k \in 1..Len(outq), Write(k)
  PROVE  outq' \in Seq(Record) /\ Len(outq') <= Len(outq)
<1>1. Len(outq) \in Nat /\ \A i \in k + 1..Len(outq) : outq[i] \in Record
  BY LenProperties, ElementOfSeq
<1>2. outq' = SubSeq(outq, k + 1, Len(outq))
  BY DEF Write
<1>3. /\ SubSeq(outq, k + 1, Len(outq)) \in Seq(Record)
      /\ Len(SubSeq(outq, k + 1, Len(outq))) = IF k + 1 <= Len(outq) THEN Len(outq) - (k + 1) + 1 ELSE 0
  <2>1. k + 1 \in Int /\ Len(outq) \in Int
    BY <1>1
  <2> QED
    BY <1>1, <2>1, SubSeqProperties
<1> QED
  BY <1>1, <1>2, <1>3

LEMMA CallbackData ==
  ASSUME NEW cb \in Callbacks
  PROVE  Data(cb.data) \in Seq(Record)
<1>1. cb.data \in Nat
  BY LuaHostAssumption DEF Callbacks
<1> QED
  BY <1>1, DataIsSeq

LEMMA AnswerIsSeq ==
  ASSUME NEW id \in Nat, NEW refused
  PROVE  Answer(id, refused) \in Seq(Record)
<1>1. ActionResult(id) \in Record /\ Log \in Record
  BY DEF ActionResult, Log, Record, Kind
<1>2. <<ActionResult(id)>> \in Seq(Record) /\ <<Log>> \in Seq(Record) /\ <<>> \in Seq(Record)
  BY <1>1
<1>3. (IF refused THEN <<Log>> ELSE <<>>) \in Seq(Record)
  BY <1>2
<1> HIDE DEF ActionResult
<1> QED
  BY <1>2, <1>3, ConcatProperties DEF Answer

LEMMA InitOutputIsSeq ==
  ASSUME NEW k \in Nat
  PROVE  InitOutput(Data(k)) \in Seq(Record) /\ InitOutput(Data(k)) # <<>> /\ InitOutput(Data(k))[1] = Ready
<1>1. Ready \in Record
  BY DEF Ready, Record, Kind
<1>2. <<Ready>> \in Seq(Record) /\ Len(<<Ready>>) = 1 /\ <<Ready>>[1] = Ready
  BY <1>1
<1>3. Data(k) \in Seq(Record) /\ Len(Data(k)) = k
  BY DataIsSeq
<1>4. /\ InitOutput(Data(k)) \in Seq(Record)
      /\ Len(InitOutput(Data(k))) = 1 + k
      /\ InitOutput(Data(k))[1] = <<Ready>>[1]
  BY <1>2, <1>3, ConcatProperties DEF InitOutput
<1> QED
  BY <1>2, <1>4, EmptySeq

--------------------------------------------------------------------------------
(* LuaHost::handle.                                                              *)

\* What handling a record does to the queue and to what shutdown stops.
Handled ==
  /\ outq' \in Seq(Record)
  /\ phase' \in {phase, "failed"}
  /\ initialized' \in BOOLEAN /\ stopped' \in BOOLEAN
  /\ stopped' => timers' = {}
  /\ stopped => stopped' /\ outq' = outq /\ taken' = taken

LEMMA HandleCases ==
  ASSUME NEW rec, Handle(rec)
  PROVE  \/ UNCHANGED <<hostVars, outq, taken>> /\ phase' \in {phase, "failed"}
         \/ /\ ~stopped /\ ~(initialized # (rec.kind # "init"))
            /\ \/ rec.kind = "unknown" /\ Action(rec.id, Silent, TRUE)
               \/ \E cb \in Callbacks :
                    \/ rec.kind = "init" /\ Initialize(cb)
                    \/ rec.kind = "visibility" /\ Visibility(cb)
                    \/ rec.kind = "action" /\ Action(rec.id, cb, FALSE)
                    \/ rec.kind = "shutdown" /\ Shutdown(cb)
<1>1. CASE stopped /\ rec.kind = "shutdown"
  BY <1>1 DEF Handle
<1>2. CASE stopped /\ rec.kind # "shutdown"
  BY <1>2 DEF Handle, Fail
<1>3. CASE ~stopped /\ initialized # (rec.kind # "init")
  BY <1>3 DEF Handle, Fail
<1>4. CASE ~stopped /\ ~(initialized # (rec.kind # "init"))
  BY <1>4 DEF Handle
<1> QED
  BY <1>1, <1>2, <1>3, <1>4

LEMMA HandleKeeps ==
  ASSUME HostInv, NEW rec \in Record, Handle(rec)
  PROVE  Handled
<1>1. CASE UNCHANGED <<hostVars, outq, taken>> /\ phase' \in {phase, "failed"}
  BY <1>1 DEF HostInv, Typed, Handled, hostVars
<1>2. ASSUME ~stopped, NEW id \in Nat, NEW cb, NEW unknown, Data(cb.data) \in Seq(Record),
             Action(id, cb, unknown)
      PROVE  Handled
  <2>1. Data(cb.data) \o Answer(id, cb.fails \/ unknown) \in Seq(Record)
    BY <1>2, AnswerIsSeq, ConcatProperties
  <2>2. outq' \in Seq(Record)
    BY <1>2, <2>1, QueuedIsSeq DEF Action, HostInv, Typed
  <2> QED
    BY <1>2, <2>2 DEF Action, Handled, Fail, HostInv, Typed
<1>3. CASE ~stopped /\ Action(rec.id, Silent, TRUE)
  <2>1. rec.id \in Nat /\ Silent.data = 0
    BY DEF Record, Silent
  <2>2. Data(Silent.data) \in Seq(Record)
    BY <2>1, DataIsSeq
  <2> QED
    BY <1>2, <1>3, <2>1, <2>2
<1>4. ASSUME ~stopped, NEW cb \in Callbacks, Initialize(cb)
      PROVE  Handled
  <2>1. cb.data \in Nat /\ MaxBuffered \in Nat
    BY LuaHostAssumption DEF Callbacks
  <2>2. Min({cb.data, MaxBuffered}) \in Nat
    BY <2>1, MinOfTwo
  <2>3. Queued(InitOutput(Data(Min({cb.data, MaxBuffered})))) \in Seq(Record)
    BY <2>2, InitOutputIsSeq, QueuedIsSeq DEF HostInv, Typed
  <2> QED
    BY <1>4, <2>3 DEF Initialize, Handled, Fail, HostInv, Typed
<1>5. ASSUME ~stopped, NEW cb \in Callbacks, Visibility(cb)
      PROVE  Handled
  BY <1>5, CallbackData, QueuedIsSeq DEF Visibility, Handled, Fail, HostInv, Typed
<1>6. ASSUME ~stopped, NEW cb \in Callbacks, Action(rec.id, cb, FALSE)
      PROVE  Handled
  <2>1. rec.id \in Nat
    BY DEF Record
  <2> QED
    BY <1>2, <1>6, <2>1, CallbackData
<1>7. ASSUME ~stopped, NEW cb \in Callbacks, Shutdown(cb)
      PROVE  Handled
  BY <1>7, CallbackData, QueuedIsSeq DEF Shutdown, Handled, Fail, HostInv, Typed
<1> QED
  BY <1>1, <1>3, <1>4, <1>5, <1>6, <1>7, HandleCases

--------------------------------------------------------------------------------
(* The steps.                                                                    *)

\* What the properties ask of one step.
Apart ==
  /\ Len(outq') > Len(outq) => outq = <<>> \/ phase = "sources"
  /\ phase # "sources" /\ phase' = "sources" => outq = <<>>
  /\ stopped => stopped' /\ timers' = {} /\ Len(outq') <= Len(outq) /\ taken' = taken

\* A step that only may take records out of the queue.
LEMMA QuietStep ==
  ASSUME HostInv, outq' \in Seq(Record), Len(outq') <= Len(outq),
         inbox' \in Seq(Record), lines' \in Seq(Record), sent' \in Seq(Kind),
         UNCHANGED <<taken, initialized, stopped, timers>>,
         phase' \in {"glib", "due"} => outq' = <<>>,
         phase' = "sources" => ~stopped /\ (phase = "sources" \/ outq = <<>>)
  PROVE  HostInv' /\ Apart
<1>1. Len(outq) \in Nat /\ Len(outq') \in Nat
  BY LenProperties DEF HostInv, Typed
<1> QED
  BY <1>1 DEF HostInv, Typed, NothingPending, Apart

\* A step in which a callback may emit: it found the queue empty.
LEMMA CallbackStep ==
  ASSUME HostInv, outq = <<>>, outq' \in Seq(Record),
         inbox' \in Seq(Record), lines' \in Seq(Record), sent' \in Seq(Kind),
         initialized' \in BOOLEAN, stopped' \in BOOLEAN,
         stopped' => timers' = {}, stopped => stopped' /\ outq' = outq /\ taken' = taken,
         phase' \in {"glib", "due"} => outq' = <<>>, phase' # "sources"
  PROVE  HostInv' /\ Apart
<1>1. Len(outq) \in Nat
  BY LenProperties DEF HostInv, Typed
<1> QED
  BY <1>1 DEF HostInv, Typed, NothingPending, Apart

LEMMA CorePreserves ==
  ASSUME HostInv, CoreSend \/ CoreCloses \/ Tick \/ SourceReady
  PROVE  HostInv' /\ Apart
<1>1. Len(outq) \in Nat /\ Len(sent) \in Nat
  BY LenProperties DEF HostInv, Typed
<1>2. CASE CoreSend
  <2>1. PICK kind \in {"init", "visibility", "action", "unknown", "shutdown"} :
          /\ sent' = Append(sent, kind)
          /\ inbox' = Append(inbox, [kind |-> kind, id |-> Len(sent)])
    BY <1>2 DEF CoreSend
  <2>2. kind \in Kind /\ [kind |-> kind, id |-> Len(sent)] \in Record
    BY <1>1 DEF Kind, Record
  <2>3. sent' \in Seq(Kind) /\ inbox' \in Seq(Record)
    BY <2>1, <2>2, AppendProperties DEF HostInv, Typed
  <2> QED
    BY <1>1, <1>2, <2>3, QuietStep DEF CoreSend, outVars, hostVars, HostInv, Typed, NothingPending
<1>3. CASE CoreCloses \/ Tick \/ SourceReady
  BY <1>1, <1>3, QuietStep DEF CoreCloses, Tick, SourceReady, outVars, hostVars, HostInv, Typed, NothingPending
<1> QED
  BY <1>2, <1>3

LEMMA WritesPreserve ==
  ASSUME HostInv, PollWrite \/ Flush
  PROVE  HostInv' /\ Apart
<1>1. outq' \in Seq(Record) /\ Len(outq') <= Len(outq)
  <2>1. CASE UNCHANGED outVars
    BY <2>1, LenProperties DEF outVars, HostInv, Typed
  <2>2. CASE \E k \in 1..Len(outq) : Write(k)
    BY <2>2, WriteShrinks DEF HostInv, Typed
  <2> QED
    BY <2>1, <2>2 DEF PollWrite, Flush
<1>2. phase' \notin {"glib", "sources", "due"}
  BY DEF PollWrite, Flush, Fail
<1> QED
  BY <1>1, <1>2, QuietStep DEF PollWrite, Flush, coreVars, hostVars, HostInv, Typed

LEMMA LoopPreserves ==
  ASSUME HostInv, PollRead \/ AdvanceEnds \/ LoopEnds \/ Dispatch \/ DispatchEnds
  PROVE  HostInv' /\ Apart
<1>1. Len(outq) \in Nat
  BY LenProperties DEF HostInv, Typed
<1>2. phase' \in {"glib", "due"} => outq' = <<>>
  BY DEF PollRead, AdvanceEnds, LoopEnds, Dispatch, DispatchEnds, AfterAdvance, outVars, HostInv, NothingPending
<1>3. phase' = "sources" => ~stopped /\ outq = <<>>
  BY DEF PollRead, AdvanceEnds, LoopEnds, Dispatch, DispatchEnds, AfterAdvance, NoDispatch, HostInv, NothingPending
<1>4. UNCHANGED <<inbox, sent, lines, outq, taken, initialized, stopped, timers>>
  BY DEF PollRead, AdvanceEnds, LoopEnds, Dispatch, DispatchEnds, coreVars, hostVars, outVars
<1> QED
  BY <1>1, <1>2, <1>3, <1>4, QuietStep DEF HostInv, Typed

\* The callback of one source, which may find what those before it emitted.
LEMMA SourcePreserves ==
  ASSUME HostInv, RunSource
  PROVE  HostInv' /\ Apart
<1>1. outq' \in Seq(Record)
  BY CallbackData, QueuedIsSeq DEF RunSource, HostInv, Typed
<1>2. ~stopped /\ phase = "sources" /\ phase' = phase
  BY DEF RunSource, HostInv
<1>3. UNCHANGED <<inbox, lines, sent, taken, initialized, stopped>>
  BY DEF RunSource, coreVars
<1> QED
  BY <1>1, <1>2, <1>3 DEF HostInv, Typed, NothingPending, Apart

LEMMA ReadInputPreserves ==
  ASSUME HostInv, ReadInput
  PROVE  HostInv' /\ Apart
<1>1. Len(outq) \in Nat /\ Len(inbox) \in Nat
  BY LenProperties DEF HostInv, Typed
<1>2. inbox' \in Seq(Record) /\ lines' \in Seq(Record)
  <2>1. CASE \E k \in 1..Len(inbox) :
               /\ lines' = lines \o SubSeq(inbox, 1, k)
               /\ inbox' = SubSeq(inbox, k + 1, Len(inbox))
    <3>1. PICK k \in 1..Len(inbox) :
               /\ lines' = lines \o SubSeq(inbox, 1, k)
               /\ inbox' = SubSeq(inbox, k + 1, Len(inbox))
      BY <2>1
    <3>2. k \in Int /\ k + 1 \in Int /\ Len(inbox) \in Int
      BY <1>1
    <3>3. \A i \in 1..Len(inbox) : inbox[i] \in Record
      BY ElementOfSeq DEF HostInv, Typed
    <3>4. \A i \in 1..k : inbox[i] \in Record
      BY <1>1, <3>3
    <3>5. \A i \in k + 1..Len(inbox) : inbox[i] \in Record
      BY <1>1, <3>3
    <3>6. SubSeq(inbox, 1, k) \in Seq(Record)
      BY <3>2, <3>4, SubSeqProperties
    <3>7. SubSeq(inbox, k + 1, Len(inbox)) \in Seq(Record)
      BY <3>2, <3>5, SubSeqProperties
    <3> QED
      BY <3>1, <3>6, <3>7, ConcatProperties DEF HostInv, Typed
  <2>2. CASE UNCHANGED <<inbox, lines>>
    BY <2>2 DEF HostInv, Typed
  <2> QED
    BY <2>1, <2>2 DEF ReadInput
<1>3. phase' \notin {"glib", "sources", "due"}
  BY DEF ReadInput, EndOfInput
<1> QED
  BY <1>1, <1>2, <1>3, QuietStep DEF ReadInput, outVars, hostVars, HostInv, Typed

LEMMA HandleLinePreserves ==
  ASSUME HostInv, HandleLine
  PROVE  HostInv' /\ Apart
<1>1. lines # <<>> /\ outq = <<>> /\ lines \in Seq(Record)
  BY DEF HandleLine, CanHandle, HostInv, Typed
<1>2. Head(lines) \in Record /\ Tail(lines) \in Seq(Record)
  BY <1>1, HeadTailProperties
<1>3. Handled /\ phase' \notin {"glib", "sources", "due"} /\ lines' \in Seq(Record)
  BY <1>2, HandleKeeps DEF HandleLine, Handled
<1> QED
  BY <1>1, <1>3, CallbackStep DEF HandleLine, Handled, coreVars, HostInv, Typed

LEMMA CallbacksPreserve ==
  ASSUME HostInv, RunTimer \/ RunUpdate
  PROVE  HostInv' /\ Apart
<1>1. outq = <<>>
  BY DEF HostInv, NothingPending, RunTimer, RunUpdate
<1>2. outq' \in Seq(Record)
  BY CallbackData, QueuedIsSeq DEF RunTimer, RunUpdate, HostInv, Typed
<1>3. stopped => outq' = outq /\ timers' = {}
  BY DEF RunTimer, RunUpdate, HostInv
<1>4. phase' # "sources" /\ (phase' \in {"glib", "due"} => outq' = <<>>)
  BY <1>1 DEF RunTimer, RunUpdate, Fail
<1>5. UNCHANGED <<inbox, lines, sent, taken, initialized, stopped>>
  BY DEF RunTimer, RunUpdate, coreVars
<1> QED
  BY <1>1, <1>2, <1>3, <1>4, <1>5, CallbackStep DEF HostInv, Typed

LEMMA HostInvInductive == HostInv /\ [Next]_vars => HostInv' /\ Apart
<1> SUFFICES ASSUME HostInv, [Next]_vars PROVE HostInv' /\ Apart
  OBVIOUS
<1>1. CASE UNCHANGED vars
  <2>1. Len(outq) \in Nat
    BY LenProperties DEF HostInv, Typed
  <2> QED
    BY <1>1, <2>1, QuietStep DEF vars, HostInv, Typed, NothingPending
<1>2. CASE HostStep
  BY <1>2, WritesPreserve, LoopPreserves, ReadInputPreserves, HandleLinePreserves, SourcePreserves, CallbacksPreserve
     DEF HostStep
<1> QED
  BY <1>1, <1>2, CorePreserves DEF Next

LEMMA HostInvInitially == Init => HostInv
  BY EmptySeq DEF Init, HostInv, Typed, NothingPending

(* A callback runs only when nothing that was emitted before it is left to write, *)
(* but by the sources that GLib runs in the same turn, and none runs after         *)
(* shutdown, whatever the sizes of the queues, the budget of a turn, the number of *)
(* sources and the module (main, advance, run_due, run_external_callbacks).        *)
THEOREM DispatchesStayApart == Spec => DispatchesAreApart
<1>1. HostInv /\ [Next]_vars => [Apart]_vars
  BY HostInvInductive
<1>2. Spec => [][Apart]_vars
  BY <1>1, HostInvInitially, HostInvInductive, PTL DEF Spec
<1>3. [Apart]_vars => [/\ Len(outq') > Len(outq) => outq = <<>> \/ phase = "sources"
                       /\ phase # "sources" /\ phase' = "sources" => outq = <<>>]_vars
  BY DEF Apart
<1>4. [Apart]_vars =>
        [stopped => stopped' /\ timers' = {} /\ Len(outq') <= Len(outq) /\ taken' = taken]_vars
  BY DEF Apart
<1> QED
  BY <1>2, <1>3, <1>4, PTL DEF DispatchesAreApart, OneDispatchAtATime, QuietAfterShutdown

--------------------------------------------------------------------------------
(* What is written first, for a module that only defines its callbacks when it is *)
(* loaded.                                                                       *)

\* What a turn holds; its time is one that has been.
IsTurn(t) == DOMAIN t = DOMAIN Fresh /\ t.time \in Nat /\ t.time <= Horizon

\* The host is silent until init, and what init leaves begins with ready.
ReadyInv ==
  /\ first \in {"none", "ready"}
  /\ (first = "none" /\ outq # <<>>) => outq[1].kind = "ready"
  /\ (first = "none" /\ initialized) => outq # <<>>
  /\ (~initialized /\ phase # "failed") =>
       /\ outq = <<>> /\ timers = {} /\ periodic = None
       /\ events.raised = 0 /\ events.served = 0
  /\ phase = "sources" => initialized /\ first = "ready"
  /\ now \in Nat /\ now <= Horizon
  /\ IsTurn(turn)

LEMMA HeadIsFirst ==
  ASSUME NEW seq \in Seq(Record), seq # <<>>
  PROVE  Head(seq) = seq[1]
  OBVIOUS

LEMMA QueuedBegins ==
  ASSUME NEW recs \in Seq(Record), outq = <<>>, recs # <<>>
  PROVE  Queued(recs) # <<>> /\ Queued(recs)[1] = recs[1]
<1> DEFINE m == Min({MaxOut, Len(outq) + Len(recs)})
<1>1. outq \o recs = recs /\ Len(recs) \in Nat \ {0} /\ Len(outq) = 0
  BY ConcatEmptySeq, EmptySeq
<1>2. m \in 1..Len(recs)
  BY <1>1, MinOfTwo, LuaHostAssumption
<1> HIDE DEF m
<1>3. \A i \in 1..m : recs[i] \in Record
  BY <1>1, <1>2, ElementOfSeq
<1>4. Len(SubSeq(recs, 1, m)) = m /\ SubSeq(recs, 1, m) \in Seq(Record)
  BY <1>2, <1>3, SubSeqProperties
<1>5. Head(SubSeq(recs, 1, m)) = recs[1]
  BY <1>1, <1>2, HeadTailOfSubSeq
<1>6. SubSeq(recs, 1, m) # <<>>
  BY <1>2, <1>4
<1>7. SubSeq(recs, 1, m)[1] = recs[1]
  BY <1>4, <1>5, <1>6, HeadIsFirst
<1> QED
  BY <1>1, <1>6, <1>7 DEF Queued, m

\* The first record that is written is the first of the queue.
LEMMA WriteBegins ==
  ASSUME outq \in Seq(Record), NEW k \in 1..Len(outq), Write(k)
  PROVE  first' = IF first = "none" THEN outq[1].kind ELSE first
<1>1. Len(outq) \in Nat
  BY LenProperties
<1>2. Head(SubSeq(outq, 1, k)) = outq[1]
  BY <1>1, HeadTailOfSubSeq
<1>3. \A i \in 1..k : outq[i] \in Record
  BY <1>1, ElementOfSeq
<1>4. SubSeq(outq, 1, k) \in Seq(Record) /\ Len(SubSeq(outq, 1, k)) = k
  BY <1>1, <1>3, SubSeqProperties
<1>5. SubSeq(outq, 1, k)[1] = outq[1]
  BY <1>2, <1>4, HeadIsFirst
<1> QED
  BY <1>5 DEF Write

\* Once the host is initialised and ready is out, nothing is left to preserve.
LEMMA BegunStaysBegun ==
  ASSUME ReadyInv, first = "ready", first' = first, initialized, initialized' = initialized,
         now' = now, IsTurn(turn')
  PROVE  ReadyInv'
  BY DEF ReadyInv

LEMMA HandleLineReady ==
  ASSUME HostInv, ReadyInv, HandleLine
  PROVE  ReadyInv'
<1> DEFINE rec == Head(lines)
<1>1. /\ outq = <<>> /\ Handle(rec) /\ UNCHANGED <<first, events, now>> /\ phase = "records"
      /\ IsTurn(turn')
  BY DEF HandleLine, CanHandle, coreVars, ReadyInv, IsTurn
<1> HIDE DEF rec
<1>2. CASE UNCHANGED <<hostVars, outq, taken>> /\ phase' \in {phase, "failed"}
  BY <1>1, <1>2 DEF ReadyInv, hostVars
<1>3. CASE initialized /\ ~UNCHANGED <<hostVars, outq, taken>>
  <2>1. initialized' = initialized
    BY <1>1, <1>3, HandleCases DEF Action, Visibility, Shutdown, HostInv, Typed
  <2>2. first = "ready"
    BY <1>1, <1>3 DEF ReadyInv
  <2> QED
    BY <1>1, <1>3, <2>1, <2>2, BegunStaysBegun
<1>4. ASSUME ~initialized, NEW cb \in Callbacks, Initialize(cb)
      PROVE  ReadyInv'
  <2> DEFINE recs == InitOutput(Data(Min({cb.data, MaxBuffered})))
  <2>1. cb.data \in Nat /\ MaxBuffered \in Nat
    BY LuaHostAssumption DEF Callbacks
  <2>2. Min({cb.data, MaxBuffered}) \in Nat
    BY <2>1, MinOfTwo
  <2>3. Queued(recs) # <<>> /\ Queued(recs)[1].kind = "ready"
    <3>1. recs \in Seq(Record) /\ recs # <<>> /\ recs[1] = Ready
      BY <2>2, InitOutputIsSeq
    <3> HIDE DEF recs
    <3> QED
      BY <1>1, <3>1, QueuedBegins DEF Ready
  <2> HIDE DEF recs
  <2>4. CASE cb.fails
    BY <1>1, <1>4, <2>4 DEF Initialize, Fail, ReadyInv
  <2>5. CASE ~cb.fails
    <3>1. /\ outq' = Queued(recs) /\ (initialized' = TRUE \/ phase' = "failed")
          /\ phase' \in {phase, "failed"}
      BY <1>4, <2>5 DEF Initialize, Fail, recs
    <3>2. outq' # <<>> /\ outq'[1].kind = "ready"
      BY <2>3, <3>1
    <3> QED
      BY <1>1, <3>1, <3>2 DEF ReadyInv
  <2> QED
    BY <2>4, <2>5
<1>5. CASE ~initialized /\ ~(UNCHANGED <<hostVars, outq, taken>> /\ phase' \in {phase, "failed"})
  <2>1. PICK cb \in Callbacks : Initialize(cb)
    BY <1>1, <1>5, HandleCases
  <2> QED
    BY <1>4, <1>5, <2>1
<1>6. CASE UNCHANGED <<hostVars, outq, taken>> /\ initialized
  BY <1>1, <1>6, BegunStaysBegun DEF ReadyInv, hostVars
<1> QED
  BY <1>2, <1>3, <1>5, <1>6

LEMMA FreshTurns ==
  ASSUME ReadyInv
  PROVE  IsTurn(Fresh) /\ IsTurn(DueFrom(Fresh))
<1>1. DOMAIN Fresh = {"budget", "readable", "read", "sources", "refused", "time", "until"} /\ Fresh.time = 0
  BY DEF Fresh
<1>2. DOMAIN DueFrom(Fresh) = DOMAIN Fresh /\ DueFrom(Fresh).time = now
  BY <1>1 DEF DueFrom
<1> QED
  BY <1>1, <1>2, LuaHostAssumption DEF IsTurn, ReadyInv

LEMMA TurnsAreTurns ==
  ASSUME ReadyInv, Dispatch \/ RunSource \/ DispatchEnds \/ RunTimer \/ RunUpdate
  PROVE  IsTurn(turn')
<1>1. DOMAIN turn = DOMAIN Fresh /\ "time" \in DOMAIN Fresh /\ IsTurn(turn)
  BY DEF ReadyInv, IsTurn, Fresh
<1>2. CASE RunSource
  <2>1. PICK k, refused : turn' = [turn EXCEPT !.sources = k, !.refused = refused]
    BY <1>2 DEF RunSource
  <2> QED
    BY <1>1, <2>1 DEF IsTurn
<1>3. CASE Dispatch
  <2>1. CASE turn' = DueFrom(Fresh)
    BY <2>1, FreshTurns
  <2>2. ASSUME NEW k, turn' = [turn EXCEPT !.sources = k, !.time = now]
        PROVE  IsTurn(turn')
    <3>1. DOMAIN turn' = DOMAIN turn /\ turn'.time = now
      BY <1>1, <2>2
    <3> QED
      BY <1>1, <3>1 DEF ReadyInv, IsTurn
  <2> QED
    BY <1>3, <2>1, <2>2 DEF Dispatch
<1>4. CASE DispatchEnds \/ RunTimer \/ RunUpdate
  BY <1>1, <1>4, FreshTurns DEF DispatchEnds, RunTimer, RunUpdate
<1> QED
  BY <1>2, <1>3, <1>4

LEMMA CallbacksReady ==
  ASSUME HostInv, ReadyInv, Dispatch \/ RunSource \/ DispatchEnds \/ RunTimer \/ RunUpdate
  PROVE  ReadyInv'
<1>1. phase # "failed" /\ UNCHANGED <<first, initialized, now>> /\ IsTurn(turn')
  BY TurnsAreTurns DEF Dispatch, RunSource, DispatchEnds, RunTimer, RunUpdate, coreVars, outVars, hostVars
<1>2. initialized => first = "ready"
  BY DEF HostInv, NothingPending, ReadyInv, Dispatch, RunSource, DispatchEnds, RunTimer, RunUpdate
<1>3. CASE initialized
  BY <1>1, <1>2, <1>3, BegunStaysBegun
<1>4. CASE ~initialized
  <2>1. /\ ~(periodic <= turn.time) /\ timers = {} /\ ~SourcesReady /\ outq = <<>>
        /\ phase # "sources"
    BY <1>1, <1>4, LuaHostAssumption DEF ReadyInv, IsTurn, None, SourcesReady
  <2>2. UNCHANGED <<outq, timers, periodic, events>> /\ phase' # "sources"
    BY <2>1 DEF Dispatch, RunSource, DispatchEnds, NoDispatch, RunTimer, RunUpdate, Fail, coreVars, outVars, hostVars
  <2> QED
    BY <1>1, <1>4, <2>1, <2>2 DEF ReadyInv
<1> QED
  BY <1>3, <1>4

LEMMA WritesReady ==
  ASSUME HostInv, ReadyInv, PollWrite \/ Flush
  PROVE  ReadyInv'
<1>1. UNCHANGED <<initialized, timers, periodic, events, now, turn>> /\ phase' # "sources"
  BY DEF PollWrite, Flush, Fail, coreVars, hostVars
<1>2. CASE UNCHANGED outVars
  BY <1>1, <1>2 DEF ReadyInv, outVars, PollWrite, Flush
<1>3. CASE outq # <<>> /\ \E k \in 1..Len(outq) : Write(k)
  <2>1. first' = IF first = "none" THEN outq[1].kind ELSE first
    BY <1>3, WriteBegins DEF HostInv, Typed
  <2>2. first' = "ready"
    BY <1>3, <2>1 DEF ReadyInv
  <2>3. initialized \/ phase = "failed"
    BY <1>3 DEF ReadyInv
  <2>4. initialized
    BY <2>3 DEF PollWrite, Flush
  <2> QED
    BY <1>1, <2>2, <2>4 DEF ReadyInv
<1> QED
  BY <1>2, <1>3 DEF PollWrite, Flush

LEMMA ReadyInductive ==
  ASSUME WorksAtLoad = FALSE
  PROVE  HostInv /\ ReadyInv /\ [Next]_vars => ReadyInv'
<1> SUFFICES ASSUME HostInv, ReadyInv, [Next]_vars PROVE ReadyInv'
  OBVIOUS
<1>1. CASE UNCHANGED vars
  BY <1>1 DEF vars, ReadyInv
<1>2. CASE PollRead \/ AdvanceEnds \/ LoopEnds \/ ReadInput
  <2>1. /\ UNCHANGED <<outq, first, initialized, timers, periodic, events, now>> /\ phase # "failed"
        /\ phase' # "sources"
    BY <1>2 DEF PollRead, AdvanceEnds, AfterAdvance, LoopEnds, ReadInput, EndOfInput, coreVars, outVars, hostVars
  <2>2. IsTurn(turn')
    <3>1. CASE PollRead
      <4>1. PICK readable : turn' = [Fresh EXCEPT !.readable = readable]
        BY <3>1 DEF PollRead
      <4>2. DOMAIN turn' = DOMAIN Fresh /\ turn'.time = Fresh.time
        BY <4>1 DEF Fresh
      <4> QED
        BY <4>2, FreshTurns DEF IsTurn
    <3>2. CASE ReadInput
      BY <3>2 DEF ReadInput, ReadyInv, IsTurn
    <3>3. CASE AdvanceEnds \/ LoopEnds
      BY <3>3, FreshTurns DEF AdvanceEnds, LoopEnds, ReadyInv
    <3> QED
      BY <1>2, <3>1, <3>2, <3>3
  <2> QED
    BY <2>1, <2>2 DEF ReadyInv
<1>3. CASE ~Exited /\ (CoreSend \/ CoreCloses \/ Tick \/ SourceReady)
  <2>1. UNCHANGED <<outq, first, initialized, timers, periodic, phase, turn>>
    BY <1>3 DEF CoreSend, CoreCloses, Tick, SourceReady, outVars, hostVars
  <2>2. now' \in Nat /\ now' <= Horizon
    BY <1>3, LuaHostAssumption DEF CoreSend, CoreCloses, Tick, SourceReady, ReadyInv
  <2>3. events' = events \/ initialized
    BY <1>3 DEF CoreSend, CoreCloses, Tick, SourceReady
  <2> QED
    BY <2>1, <2>2, <2>3 DEF ReadyInv
<1> QED
  BY <1>1, <1>2, <1>3, HandleLineReady, CallbacksReady, WritesReady DEF Next, HostStep

LEMMA ReadyInitially ==
  ASSUME WorksAtLoad = FALSE
  PROVE  Init => ReadyInv
  BY LuaHostAssumption DEF Init, ReadyInv, IsTurn, Fresh

(* The first record the core reads of a host is ready, whatever init emits, keeps  *)
(* or starts, if the module starts nothing while it is loaded (initialize,         *)
(* emit_record); the supervisor kills a module whose first record is another.      *)
THEOREM ReadyComesFirst ==
  ASSUME WorksAtLoad = FALSE
  PROVE  Spec => []ReadyFirst
<1>1. HostInv /\ ReadyInv => ReadyFirst
  BY HeadIsFirst DEF HostInv, Typed, ReadyInv, ReadyFirst
<1>2. Init => ReadyInv
  BY ReadyInitially
<1>3. HostInv /\ ReadyInv /\ [Next]_vars => ReadyInv'
  BY ReadyInductive
<1> QED
  BY <1>1, <1>2, <1>3, HostInvInitially, HostInvInductive, PTL DEF Spec
--------------------------------------------------------------------------------
(* The results.  A callback that answers an action does it last, and it found the *)
(* queue empty: the queue holds one result at most, and nothing behind it.        *)

\* No record but the last one is a result.
OnlyLast(q) == \A i \in 1..Len(q) : q[i].kind = "action_result" => i = Len(q)
NoResult(q) == \A i \in 1..Len(q) : q[i].kind # "action_result"

LEMMA NoResults ==
  ASSUME NEW q, NoResult(q)
  PROVE  Results(q) = <<>>
<1>1. ResultsAt(q) = {}
  BY DEF ResultsAt, NoResult
<1>2. Cardinality(ResultsAt(q)) = 0
  BY <1>1, FS_EmptySet
<1> QED
  BY <1>2 DEF Results

LEMMA OneResult ==
  ASSUME NEW q, Len(q) \in Nat \ {0}, OnlyLast(q), q[Len(q)].kind = "action_result"
  PROVE  Results(q) = <<q[Len(q)].id>>
<1> DEFINE at(n) == CHOOSE p \in ResultsAt(q) : Cardinality({i \in ResultsAt(q) : i <= p}) = n
<1>1. ResultsAt(q) = {Len(q)}
  BY DEF ResultsAt, OnlyLast
<1>2. Cardinality(ResultsAt(q)) = 1 /\ Cardinality({Len(q)}) = 1
  BY <1>1, FS_Singleton
<1>3. {i \in ResultsAt(q) : i <= Len(q)} = {Len(q)}
  BY <1>1
<1>4. at(1) = Len(q)
  BY <1>1, <1>2, <1>3
<1>5. Results(q) = [n \in 1..1 |-> q[at(n)].id]
  BY <1>2 DEF Results
<1> HIDE DEF at
<1> QED
  BY <1>4, <1>5

\* What a callback leaves in the queue it found empty is a beginning of what it emits.
LEMMA QueuedIsPrefix ==
  ASSUME NEW recs \in Seq(Record), outq = <<>>
  PROVE  /\ Queued(recs) \in Seq(Record) /\ Len(Queued(recs)) <= Len(recs)
         /\ \A i \in 1..Len(Queued(recs)) : Queued(recs)[i] = recs[i]
         /\ Fits(recs) => Queued(recs) = recs
<1> DEFINE m == Min({MaxOut, Len(outq) + Len(recs)})
<1>1. outq \o recs = recs /\ Len(recs) \in Nat /\ Len(outq) = 0
  BY ConcatEmptySeq, EmptySeq, LenProperties
<1>2. m \in 0..Len(recs) /\ (Fits(recs) => m = Len(recs))
  BY <1>1, MinOfTwo, LuaHostAssumption DEF Fits
<1> HIDE DEF m
<1>3. \A i \in 1..Len(recs) : recs[i] \in Record
  BY ElementOfSeq
<1>4. \A i \in 1..m : recs[i] \in Record
  BY <1>1, <1>2, <1>3
<1>5. /\ Len(SubSeq(recs, 1, m)) = m /\ SubSeq(recs, 1, m) \in Seq(Record)
      /\ \A i \in 1..m : SubSeq(recs, 1, m)[i] = recs[i]
  BY <1>1, <1>2, <1>4, SubSeqProperties
<1>6. m = Len(recs) => SubSeq(recs, 1, m) = recs
  BY <1>5, SeqEqual
<1>7. Queued(recs) = SubSeq(recs, 1, m)
  BY <1>1 DEF Queued, m
<1> QED
  BY <1>1, <1>2, <1>5, <1>6, <1>7

LEMMA QueuedData ==
  ASSUME NEW k \in Nat, outq = <<>>
  PROVE  Queued(Data(k)) \in Seq(Record) /\ NoResult(Queued(Data(k)))
<1>1. Data(k) \in Seq(Record) /\ Len(Data(k)) = k
  BY DataIsSeq
<1>2. \A i \in 1..k : Data(k)[i].kind = "data"
  BY DEF Data
<1>3. /\ Queued(Data(k)) \in Seq(Record) /\ Len(Queued(Data(k))) <= k
      /\ \A i \in 1..Len(Queued(Data(k))) : Queued(Data(k))[i] = Data(k)[i]
  BY <1>1, QueuedIsPrefix
<1>4. Len(Queued(Data(k))) \in Nat
  BY <1>3, LenProperties
<1>5. \A i \in 1..Len(Queued(Data(k))) : i \in 1..k
  BY <1>3, <1>4
<1> QED
  BY <1>2, <1>3, <1>5 DEF NoResult

LEMMA QueuedInit ==
  ASSUME NEW k \in Nat, outq = <<>>
  PROVE  Queued(InitOutput(Data(k))) \in Seq(Record) /\ NoResult(Queued(InitOutput(Data(k))))
<1> DEFINE recs == InitOutput(Data(k))
<1>1. Data(k) \in Seq(Record) /\ Len(Data(k)) = k
  BY DataIsSeq
<1>2. Ready \in Record /\ Ready.kind = "ready"
  BY DEF Ready, Record, Kind
<1>3. <<Ready>> \in Seq(Record) /\ Len(<<Ready>>) = 1 /\ <<Ready>>[1] = Ready
  BY <1>2
<1>4. /\ recs \in Seq(Record) /\ Len(recs) = 1 + k
      /\ \A i \in 1..1 + k : recs[i] = IF i <= 1 THEN <<Ready>>[i] ELSE Data(k)[i - 1]
  BY <1>1, <1>3, ConcatProperties DEF InitOutput
<1>5. \A i \in 1..k : Data(k)[i].kind = "data"
  BY DEF Data
<1> HIDE DEF recs
<1>6. \A i \in 1..1 + k : recs[i].kind # "action_result"
  <2> TAKE i \in 1..1 + k
  <2>1. CASE i = 1
    BY <1>2, <1>3, <1>4, <2>1
  <2>2. CASE i # 1
    <3>1. i - 1 \in 1..k /\ ~(i <= 1)
      BY <2>2
    <3> QED
      BY <1>4, <1>5, <3>1
  <2> QED
    BY <2>1, <2>2
<1>7. /\ Queued(recs) \in Seq(Record) /\ Len(Queued(recs)) <= 1 + k
      /\ \A i \in 1..Len(Queued(recs)) : Queued(recs)[i] = recs[i]
  BY <1>4, QueuedIsPrefix
<1>8. Len(Queued(recs)) \in Nat
  BY <1>7, LenProperties
<1>9. \A i \in 1..Len(Queued(recs)) : i \in 1..1 + k
  BY <1>7, <1>8
<1>10. NoResult(Queued(recs))
  BY <1>6, <1>7, <1>9 DEF NoResult
<1> QED
  BY <1>7, <1>10 DEF recs

\* The answer to an action is the last record, if it fits.
LEMMA QueuedAnswer ==
  ASSUME NEW k \in Nat, NEW id \in Nat, NEW refused, outq = <<>>
  PROVE  LET recs == Data(k) \o Answer(id, refused)
         IN  /\ Queued(recs) \in Seq(Record) /\ OnlyLast(Queued(recs))
             /\ Fits(recs) => Results(Queued(recs)) = <<id>>
<1> DEFINE lead == IF refused THEN <<Log>> ELSE <<>>
           recs == Data(k) \o Answer(id, refused)
<1>1. Data(k) \in Seq(Record) /\ Len(Data(k)) = k /\ \A i \in 1..k : Data(k)[i].kind = "data"
  <2>1. \A i \in 1..k : Data(k)[i].kind = "data"
    BY DEF Data
  <2> QED
    BY <2>1, DataIsSeq
<1>2. /\ ActionResult(id) \in Record /\ ActionResult(id).kind = "action_result"
      /\ ActionResult(id).id = id /\ Log \in Record /\ Log.kind = "log"
  BY DEF ActionResult, Log, Record, Kind
<1> HIDE DEF ActionResult
<1>3. PICK l \in 0..1 : /\ lead \in Seq(Record) /\ Len(lead) = l
                        /\ \A i \in 1..l : lead[i] = Log
  <2>1. CASE refused
    BY <1>2, <2>1
  <2>2. CASE ~refused
    <3>1. <<>> \in Seq(Record) /\ Len(<<>>) = 0 /\ 0 \in 0..1
      OBVIOUS
    <3> QED
      BY <2>2, <3>1
  <2> QED
    BY <2>1, <2>2
<1>4. <<ActionResult(id)>> \in Seq(Record) /\ Len(<<ActionResult(id)>>) = 1
      /\ <<ActionResult(id)>>[1] = ActionResult(id)
  BY <1>2
<1> HIDE DEF lead
<1>5. /\ Answer(id, refused) \in Seq(Record) /\ Len(Answer(id, refused)) = l + 1
      /\ \A i \in 1..l + 1 : Answer(id, refused)[i] =
            IF i <= l THEN lead[i] ELSE <<ActionResult(id)>>[i - l]
  BY <1>3, <1>4, ConcatProperties DEF Answer, lead
<1>6. Answer(id, refused)[l + 1] = ActionResult(id) /\ \A i \in 1..l : Answer(id, refused)[i] = Log
  BY <1>3, <1>4, <1>5
<1>7. /\ recs \in Seq(Record) /\ Len(recs) = k + (l + 1)
      /\ \A i \in 1..k + (l + 1) : recs[i] =
            IF i <= k THEN Data(k)[i] ELSE Answer(id, refused)[i - k]
  BY <1>1, <1>5, ConcatProperties
<1> DEFINE len == k + (l + 1)
<1>8. len \in Nat \ {0}
  OBVIOUS
<1>9. recs[len] = ActionResult(id)
  BY <1>6, <1>7
<1>10. \A i \in 1..len : recs[i].kind = "action_result" => i = len
  <2> SUFFICES ASSUME NEW i \in 1..len, i # len PROVE recs[i].kind # "action_result"
    OBVIOUS
  <2>1. CASE i <= k
    BY <1>1, <1>7, <2>1
  <2>2. CASE ~(i <= k)
    <3>1. i - k \in 1..l
      BY <2>2
    <3> QED
      BY <1>2, <1>6, <1>7, <2>2, <3>1
  <2> QED
    BY <2>1, <2>2
<1>11. Len(recs) = len
  BY <1>7
<1> HIDE DEF recs, len
<1>12. /\ Queued(recs) \in Seq(Record) /\ Len(Queued(recs)) <= len
       /\ \A i \in 1..Len(Queued(recs)) : Queued(recs)[i] = recs[i]
       /\ Fits(recs) => Queued(recs) = recs
  BY <1>7, <1>11, QueuedIsPrefix
<1>13. Len(Queued(recs)) \in Nat
  BY <1>12, LenProperties
<1>14. OnlyLast(Queued(recs))
  <2> SUFFICES ASSUME NEW i \in 1..Len(Queued(recs)), Queued(recs)[i].kind = "action_result"
               PROVE  i = Len(Queued(recs))
    BY DEF OnlyLast
  <2>1. i \in 1..len
    BY <1>8, <1>12, <1>13
  <2>2. i = len
    BY <1>10, <1>12, <2>1
  <2> QED
    BY <1>8, <1>12, <1>13, <2>2
<1>15. ASSUME Fits(recs) PROVE Results(Queued(recs)) = <<id>>
  <2>1. Queued(recs) = recs
    BY <1>12, <1>15
  <2>2. OnlyLast(recs)
    BY <1>14, <2>1
  <2>3. recs[Len(recs)].kind = "action_result" /\ recs[Len(recs)].id = id
    BY <1>2, <1>9, <1>11
  <2>4. Results(recs) = <<recs[Len(recs)].id>>
    BY <1>8, <1>11, <2>2, <2>3, OneResult
  <2> QED
    BY <2>1, <2>3, <2>4
<1> QED
  BY <1>12, <1>14, <1>15 DEF recs

\* Writing takes the result out of the queue when it takes the last record.
LEMMA WriteAnswers ==
  ASSUME outq \in Seq(Record), OnlyLast(outq), NEW k \in 1..Len(outq), Write(k)
  PROVE  /\ outq' \in Seq(Record) /\ OnlyLast(outq')
         /\ \/ answered' = answered \o Results(outq) /\ Results(outq') = <<>>
            \/ answered' = answered \o <<>> /\ Results(outq') = Results(outq)
<1> DEFINE len == Len(outq)
           out == SubSeq(outq, 1, k)
           rest == SubSeq(outq, k + 1, len)
<1>1. len \in Nat /\ \A i \in 1..len : outq[i] \in Record
  BY LenProperties, ElementOfSeq
<1>2. outq' = rest /\ answered' = answered \o Results(out)
  BY DEF Write
<1>3. \A i \in 1..k : outq[i] \in Record
  BY <1>1
<1>4. out \in Seq(Record) /\ Len(out) = k /\ \A i \in 1..k : out[i] = outq[i]
  BY <1>1, <1>3, SubSeqProperties
<1>5. CASE k = len
  <2>1. out = outq
    BY <1>4, <1>5, SeqEqual
  <2>2. rest = <<>>
    <3>1. k + 1 \in Int /\ len \in Int /\ ~(k + 1 <= len) /\ \A i \in k + 1..len : outq[i] \in Record
      BY <1>1, <1>5
    <3>2. rest \in Seq(Record) /\ Len(rest) = 0
      BY <3>1, SubSeqProperties
    <3> QED
      BY <3>2, EmptySeq
  <2>3. NoResult(<<>>) /\ OnlyLast(<<>>) /\ <<>> \in Seq(Record)
    BY DEF NoResult, OnlyLast
  <2>4. Results(rest) = <<>>
    BY <2>2, <2>3, NoResults
  <2> QED
    BY <1>2, <2>1, <2>2, <2>3, <2>4
<1>6. CASE k # len
  <2>1. k + 1 \in Int /\ len \in Int /\ k + 1 <= len /\ \A i \in k + 1..len : outq[i] \in Record
    BY <1>1, <1>6
  <2>2. /\ rest \in Seq(Record) /\ Len(rest) = len - k
        /\ \A i \in 1..len - k : rest[i] = outq[k + i]
    <3>1. /\ rest \in Seq(Record) /\ Len(rest) = len - (k + 1) + 1
          /\ \A i \in 1..len - (k + 1) + 1 : rest[i] = outq[k + 1 + i - 1]
      BY <2>1, SubSeqProperties
    <3>2. len - (k + 1) + 1 = len - k
      BY <1>1
    <3>3. \A i \in 1..len - k : k + 1 + i - 1 = k + i
      BY <1>1
    <3> HIDE DEF rest
    <3>4. \A i \in 1..len - k : rest[i] = outq[k + i]
      BY <3>1, <3>2, <3>3
    <3> QED
      BY <3>1, <3>2, <3>4
  <2>3. Results(out) = <<>>
    <3>1. NoResult(out)
      BY <1>1, <1>4, <1>6 DEF NoResult, OnlyLast
    <3> QED
      BY <3>1, NoResults
  <2> HIDE DEF rest, out
  <2>4. OnlyLast(rest)
    <3> SUFFICES ASSUME NEW i \in 1..len - k, rest[i].kind = "action_result" PROVE i = len - k
      BY <2>2 DEF OnlyLast
    <3>1. k + i \in 1..len /\ outq[k + i].kind = "action_result"
      BY <1>1, <2>2
    <3>2. k + i = len
      BY <3>1 DEF OnlyLast
    <3> QED
      BY <1>1, <3>2
  <2>5. rest[len - k] = outq[len]
    BY <1>1, <2>1, <2>2
  <2>6. Results(rest) = Results(outq)
    <3>1. CASE outq[len].kind = "action_result"
      <4>1. Results(outq) = <<outq[len].id>>
        BY <1>1, <2>1, <3>1, OneResult
      <4>2. len - k \in Nat \ {0}
        BY <1>1, <2>1
      <4>3. Results(rest) = <<rest[len - k].id>>
        BY <2>2, <2>4, <2>5, <3>1, <4>2, OneResult
      <4> QED
        BY <2>5, <4>1, <4>3
    <3>2. CASE outq[len].kind # "action_result"
      <4>1. NoResult(outq)
        BY <3>2 DEF NoResult, OnlyLast
      <4>2. NoResult(rest)
        BY <2>2, <2>4, <2>5, <3>2 DEF NoResult, OnlyLast
      <4> QED
        BY <4>1, <4>2, NoResults
    <3> QED
      BY <3>1, <3>2
  <2> QED
    BY <1>2, <2>2, <2>3, <2>4, <2>6
<1> QED
  BY <1>5, <1>6
\* The inductive invariant of the answers.
AnsweredInv ==
  /\ OnlyLast(outq)
  /\ answered \in Seq(Nat) /\ taken \in Seq(Nat)
  /\ phase # "failed" => answered \o Results(outq) = taken
  /\ phase = "failed" => IsPrefix(answered, taken) /\ Len(taken) <= Len(answered) + 1
  /\ phase = "done" => outq = <<>>
  /\ phase = "sources" => NoResult(outq)

LEMMA EmptyHasNoResult ==
  NoResult(<<>>) /\ OnlyLast(<<>>) /\ Results(<<>>) = <<>>
<1>1. NoResult(<<>>) /\ OnlyLast(<<>>)
  BY DEF NoResult, OnlyLast
<1> QED
  BY <1>1, NoResults

LEMMA NoResultIsOnlyLast ==
  ASSUME NEW q, NoResult(q)
  PROVE  OnlyLast(q) /\ Results(q) = <<>>
  BY NoResults DEF NoResult, OnlyLast

LEMMA FewResults ==
  ASSUME NEW q \in Seq(Record), OnlyLast(q)
  PROVE  Results(q) = <<>> \/ \E i \in Nat : Results(q) = <<i>>
<1>1. Len(q) \in Nat
  BY LenProperties
<1>2. CASE NoResult(q)
  BY <1>2, NoResults
<1>3. CASE ~NoResult(q)
  <2>1. Len(q) \in Nat \ {0} /\ q[Len(q)].kind = "action_result"
    BY <1>1, <1>3 DEF NoResult, OnlyLast
  <2>2. Results(q) = <<q[Len(q)].id>>
    BY <2>1, OneResult
  <2>3. q[Len(q)] \in Record
    BY <2>1, ElementOfSeq
  <2>4. q[Len(q)].id \in Nat
    BY <2>3 DEF Record
  <2> QED
    BY <2>2, <2>4
<1> QED
  BY <1>2, <1>3

\* A sequence is a beginning of what it is extended to.
LEMMA ExtendedIsPrefix ==
  ASSUME NEW seq \in Seq(Nat), NEW t \in Seq(Nat)
  PROVE  IsPrefix(seq, seq \o t) /\ Len(seq \o t) = Len(seq) + Len(t)
<1> DEFINE all == seq \o t
           len == Len(seq)
<1>1. len \in Nat /\ Len(t) \in Nat
  BY LenProperties
<1>2. /\ all \in Seq(Nat) /\ Len(all) = len + Len(t)
      /\ \A i \in 1..len + Len(t) : all[i] = IF i <= len THEN seq[i] ELSE t[i - len]
  BY ConcatProperties
<1>3. \A i \in 1..len : seq[i] \in Nat /\ all[i] = seq[i]
  <2> TAKE i \in 1..len
  <2>1. i \in 1..len + Len(t) /\ i <= len
    BY <1>1
  <2> QED
    BY <1>2, <2>1, ElementOfSeq
<1>4. 1 \in Int /\ len \in Int /\ \A i \in 1..len : all[i] \in Nat
  BY <1>1, <1>3
<1> HIDE DEF all
<1>5. /\ SubSeq(seq, 1, len) \in Seq(Nat) /\ Len(SubSeq(seq, 1, len)) = len
      /\ \A i \in 1..len : SubSeq(seq, 1, len)[i] = seq[i]
  BY <1>1, <1>3, <1>4, SubSeqProperties
<1>6. /\ SubSeq(all, 1, len) \in Seq(Nat) /\ Len(SubSeq(all, 1, len)) = len
      /\ \A i \in 1..len : SubSeq(all, 1, len)[i] = all[i]
  BY <1>1, <1>4, SubSeqProperties
<1>7. SubSeq(seq, 1, len) = SubSeq(all, 1, len)
  BY <1>3, <1>5, <1>6, SeqEqual
<1>8. Len(seq) <= Len(all)
  BY <1>1, <1>2
<1>9. IsPrefix(seq, all)
  BY <1>7, <1>8 DEF IsPrefix
<1> QED
  BY <1>2, <1>9 DEF all

\* Whatever ends in a failure leaves at most one action unanswered.
LEMMA FailureIsShort ==
  ASSUME NEW seq \in Seq(Nat), NEW t, t = <<>> \/ \E i \in Nat : t = <<i>>
  PROVE  IsPrefix(seq, seq \o t) /\ Len(seq \o t) <= Len(seq) + 1
<1>1. t \in Seq(Nat) /\ Len(t) \in 0..1
  <2>1. CASE t = <<>>
    BY <2>1, EmptySeq
  <2>2. CASE \E i \in Nat : t = <<i>>
    <3>1. PICK i \in Nat : t = <<i>>
      BY <2>2
    <3>2. <<i>> \in Seq(Nat) /\ Len(<<i>>) = 1
      OBVIOUS
    <3> QED
      BY <3>1, <3>2
  <2> QED
    BY <2>1, <2>2
<1>2. Len(seq) \in Nat
  BY LenProperties
<1>3. IsPrefix(seq, seq \o t) /\ Len(seq \o t) = Len(seq) + Len(t)
  BY <1>1, ExtendedIsPrefix
<1>4. Len(seq) + Len(t) <= Len(seq) + 1
  BY <1>1, <1>2
<1> QED
  BY <1>3, <1>4

\* The loop goes on, or the host fails, with the queue as it was.
LEMMA LoopAnswered ==
  ASSUME HostInv, AnsweredInv, phase # "failed", UNCHANGED <<outq, answered, taken>>,
         phase' = "done" => outq = <<>>, phase' # "sources"
  PROVE  AnsweredInv'
<1>1. answered \o Results(outq) = taken
  BY DEF AnsweredInv
<1>2. Results(outq) = <<>> \/ \E i \in Nat : Results(outq) = <<i>>
  BY FewResults DEF AnsweredInv, HostInv, Typed
<1>3. IsPrefix(answered, taken) /\ Len(taken) <= Len(answered) + 1
  BY <1>1, <1>2, FailureIsShort DEF AnsweredInv
<1> QED
  BY <1>1, <1>3 DEF AnsweredInv

\* A callback that answers nothing.
LEMMA OtherCallbackAnswered ==
  ASSUME AnsweredInv, NoResult(outq), phase # "failed", phase' # "done",
         UNCHANGED <<answered, taken>>, NoResult(outq')
  PROVE  AnsweredInv'
<1>1. OnlyLast(outq') /\ Results(outq') = <<>> /\ Results(outq) = <<>>
  BY NoResultIsOnlyLast
<1>2. answered \o <<>> = taken /\ answered \in Seq(Nat) /\ taken \in Seq(Nat)
  BY <1>1 DEF AnsweredInv
<1>3. IsPrefix(answered, taken) /\ Len(taken) <= Len(answered) + 1
  BY <1>2, FailureIsShort
<1> QED
  BY <1>1, <1>2, <1>3 DEF AnsweredInv

\* An action and its answer.
LEMMA ActionAnswered ==
  ASSUME AnsweredInv, outq = <<>>, phase \notin {"failed", "done", "sources"}, answered' = answered,
         NEW id \in Nat, NEW cb, cb.data \in Nat, NEW unknown, Action(id, cb, unknown)
  PROVE  AnsweredInv'
<1> DEFINE recs == Data(cb.data) \o Answer(id, cb.fails \/ unknown)
<1>1. /\ outq' = Queued(recs) /\ taken' = Append(taken, id)
      /\ (phase' = phase /\ Fits(recs)) \/ phase' = "failed"
  BY DEF Action, Fail
<1>2. OnlyLast(Queued(recs)) /\ (Fits(recs) => Results(Queued(recs)) = <<id>>)
  BY QueuedAnswer
<1> HIDE DEF recs
<1>3. answered \in Seq(Nat) /\ taken \in Seq(Nat) /\ answered = taken
  BY EmptyHasNoResult, ConcatEmptySeq DEF AnsweredInv
<1>4. Append(taken, id) = answered \o <<id>> /\ Append(taken, id) \in Seq(Nat)
  BY <1>3
<1>5. taken' = answered \o <<id>> /\ taken' \in Seq(Nat)
  BY <1>1, <1>4
<1>6. IsPrefix(answered, taken') /\ Len(taken') <= Len(answered) + 1
  BY <1>3, <1>5, FailureIsShort
<1>7. CASE phase' = phase /\ Fits(recs)
  BY <1>1, <1>2, <1>3, <1>5, <1>7 DEF AnsweredInv
<1>8. CASE phase' = "failed"
  BY <1>1, <1>2, <1>3, <1>5, <1>6, <1>8 DEF AnsweredInv
<1> QED
  BY <1>1, <1>7, <1>8

LEMMA HandleLineAnswered ==
  ASSUME HostInv, AnsweredInv, HandleLine
  PROVE  AnsweredInv'
<1> DEFINE rec == Head(lines)
<1>1. outq = <<>> /\ Handle(rec) /\ answered' = answered /\ phase = "records"
  BY DEF HandleLine, CanHandle
<1>2. rec \in Record
  BY HeadTailProperties DEF HandleLine, CanHandle, HostInv, Typed
<1>3. rec.id \in Nat
  BY <1>2 DEF Record
<1> HIDE DEF rec
<1>4. NoResult(outq) /\ \A cb \in Callbacks : cb.data \in Nat
  BY <1>1, EmptyHasNoResult, LuaHostAssumption DEF Callbacks
<1>5. CASE UNCHANGED <<hostVars, outq, taken>> /\ phase' \in {phase, "failed"}
  BY <1>1, <1>5, LoopAnswered
<1>6. CASE Action(rec.id, Silent, TRUE)
  BY <1>1, <1>3, <1>6, ActionAnswered DEF Silent
<1>7. ASSUME NEW cb \in Callbacks, Initialize(cb)
      PROVE  AnsweredInv'
  <2>1. cb.data \in Nat /\ MaxBuffered \in Nat
    BY LuaHostAssumption DEF Callbacks
  <2>2. Min({cb.data, MaxBuffered}) \in Nat
    BY <2>1, MinOfTwo
  <2>3. NoResult(Queued(InitOutput(Data(Min({cb.data, MaxBuffered})))))
    BY <1>1, <2>2, QueuedInit
  <2>4. NoResult(outq')
    BY <1>1, <1>7, <2>3, EmptyHasNoResult DEF Initialize, Fail
  <2> QED
    BY <1>1, <1>4, <1>7, <2>4, OtherCallbackAnswered DEF Initialize, Fail
<1>8. ASSUME NEW cb \in Callbacks, Visibility(cb) \/ Shutdown(cb)
      PROVE  AnsweredInv'
  <2>1. NoResult(outq') /\ phase' # "done" /\ taken' = taken
    BY <1>1, <1>4, <1>8, QueuedData DEF Visibility, Shutdown, Fail
  <2> QED
    BY <1>1, <1>4, <2>1, OtherCallbackAnswered
<1>9. ASSUME NEW cb \in Callbacks, Action(rec.id, cb, FALSE)
      PROVE  AnsweredInv'
  BY <1>1, <1>3, <1>4, <1>9, ActionAnswered
<1> QED
  BY <1>1, <1>5, <1>6, <1>7, <1>8, <1>9, HandleCases

\* What a source adds to a queue without results is no result.
LEMMA MoreData ==
  ASSUME outq \in Seq(Record), NoResult(outq), NEW k \in Nat
  PROVE  NoResult(Queued(Data(k)))
<1> DEFINE recs == Data(k)  all == outq \o recs  m == Min({MaxOut, Len(outq) + Len(recs)})
<1>1. recs \in Seq(Record) /\ Len(recs) = k /\ \A i \in 1..k : recs[i].kind = "data"
  BY DataIsSeq DEF Data
<1> HIDE DEF recs
<1>2. /\ all \in Seq(Record) /\ Len(all) = Len(outq) + k /\ Len(outq) \in Nat
      /\ \A i \in 1..Len(all) : all[i] = IF i <= Len(outq) THEN outq[i] ELSE recs[i - Len(outq)]
  BY <1>1, ConcatProperties, LenProperties
<1>3. m \in Nat /\ m <= Len(all)
  BY <1>1, <1>2, MinOfTwo, LuaHostAssumption
<1> HIDE DEF m, all
<1>4. \A i \in 1..Len(all) : all[i].kind # "action_result"
  <2> SUFFICES ASSUME NEW i \in 1..Len(all)
               PROVE  all[i].kind # "action_result"
    OBVIOUS
  <2>1. CASE i <= Len(outq)
    BY <1>2, <2>1 DEF NoResult
  <2>2. CASE ~(i <= Len(outq))
    <3>1. i - Len(outq) \in 1..k
      BY <1>2, <2>2
    <3>2. all[i] = recs[i - Len(outq)]
      BY <1>2, <2>2
    <3> QED
      BY <1>1, <3>1, <3>2
  <2> QED
    BY <2>1, <2>2
<1>5. \A i \in 1..m : all[i] \in Record
  BY <1>2, <1>3, ElementOfSeq
<1>6. Len(SubSeq(all, 1, m)) = m /\ \A i \in 1..m : SubSeq(all, 1, m)[i] = all[i]
  BY <1>3, <1>5, SubSeqProperties
<1>7. NoResult(SubSeq(all, 1, m))
  BY <1>2, <1>3, <1>4, <1>6 DEF NoResult
<1> QED
  BY <1>7 DEF Queued, m, all, recs

LEMMA SourcesAnswered ==
  ASSUME HostInv, AnsweredInv, Dispatch \/ RunSource \/ DispatchEnds
  PROVE  AnsweredInv'
<1>1. UNCHANGED <<answered, taken>> /\ phase \in {"glib", "sources"} /\ phase' # "done"
  BY DEF Dispatch, RunSource, DispatchEnds, outVars
<1>2. NoResult(outq)
  BY <1>1, EmptyHasNoResult DEF HostInv, NothingPending, AnsweredInv
<1>3. NoResult(outq')
  <2>1. CASE RunSource
    <3>1. PICK cb \in Callbacks : outq' = Queued(Data(cb.data))
      BY <2>1 DEF RunSource
    <3>2. cb.data \in Nat /\ outq \in Seq(Record)
      BY LuaHostAssumption DEF Callbacks, HostInv, Typed
    <3> QED
      BY <1>2, <3>1, <3>2, MoreData
  <2>2. CASE Dispatch \/ DispatchEnds
    BY <1>2, <2>2 DEF Dispatch, DispatchEnds, outVars
  <2> QED
    BY <2>1, <2>2
<1> QED
  BY <1>1, <1>2, <1>3, OtherCallbackAnswered

LEMMA CallbacksAnswered ==
  ASSUME HostInv, AnsweredInv, RunTimer \/ RunUpdate
  PROVE  AnsweredInv'
<1>1. outq = <<>> /\ phase # "failed"
  BY DEF HostInv, NothingPending, RunTimer, RunUpdate
<1>2. UNCHANGED <<answered, taken>> /\ phase' # "done"
  BY DEF RunTimer, RunUpdate, Fail
<1>3. \A cb \in Callbacks : NoResult(Queued(Data(cb.data)))
  BY <1>1, QueuedData, LuaHostAssumption DEF Callbacks
<1>4. outq' = outq \/ \E cb \in Callbacks : outq' = Queued(Data(cb.data))
  BY DEF RunTimer, RunUpdate
<1>5. NoResult(outq')
  BY <1>1, <1>3, <1>4, EmptyHasNoResult
<1> QED
  BY <1>1, <1>2, <1>5, EmptyHasNoResult, OtherCallbackAnswered

LEMMA WritesAnswered ==
  ASSUME HostInv, AnsweredInv, PollWrite \/ Flush
  PROVE  AnsweredInv'
<1>1. phase # "failed" /\ taken' = taken
  BY DEF PollWrite, Flush
<1>2. CASE UNCHANGED outVars
  BY <1>1, <1>2, LoopAnswered DEF PollWrite, Flush, Fail, outVars
<1>3. CASE phase' = phase /\ phase \notin {"done", "sources"} /\ \E k \in 1..Len(outq) : Write(k)
  <2>1. PICK k \in 1..Len(outq) : Write(k)
    BY <1>3
  <2>2. /\ OnlyLast(outq')
        /\ \/ answered' = answered \o Results(outq) /\ Results(outq') = <<>>
           \/ answered' = answered \o <<>> /\ Results(outq') = Results(outq)
    BY <2>1, WriteAnswers DEF AnsweredInv, HostInv, Typed
  <2>3. answered \o Results(outq) = taken /\ answered \in Seq(Nat) /\ taken \in Seq(Nat)
    BY <1>1 DEF AnsweredInv
  <2>4. taken \o <<>> = taken /\ answered \o <<>> = answered
    BY <2>3, ConcatEmptySeq
  <2>5. answered' \o Results(outq') = taken /\ answered' \in Seq(Nat)
    <3>1. CASE answered' = answered \o Results(outq) /\ Results(outq') = <<>>
      BY <2>3, <2>4, <3>1
    <3>2. CASE answered' = answered \o <<>> /\ Results(outq') = Results(outq)
      BY <2>3, <2>4, <3>2
    <3> QED
      BY <2>2, <3>1, <3>2
  <2> QED
    BY <1>1, <1>3, <2>2, <2>3, <2>5 DEF AnsweredInv
<1> QED
  BY <1>2, <1>3 DEF PollWrite, Flush

LEMMA AnsweredInductive == HostInv /\ AnsweredInv /\ [Next]_vars => AnsweredInv'
<1> SUFFICES ASSUME HostInv, AnsweredInv, [Next]_vars PROVE AnsweredInv'
  OBVIOUS
<1>1. CASE UNCHANGED vars
  BY <1>1 DEF vars, AnsweredInv
<1>2. CASE PollRead \/ AdvanceEnds \/ LoopEnds \/ ReadInput
  BY <1>2, LoopAnswered
     DEF PollRead, AdvanceEnds, AfterAdvance, LoopEnds, ReadInput, EndOfInput, outVars
<1>3. CASE ~Exited /\ (CoreSend \/ CoreCloses \/ Tick \/ SourceReady)
  <2>1. UNCHANGED <<outq, answered, taken, phase>>
    BY <1>3 DEF CoreSend, CoreCloses, Tick, SourceReady, outVars
  <2> QED
    BY <2>1 DEF AnsweredInv
<1> QED
  BY <1>1, <1>2, <1>3, HandleLineAnswered, SourcesAnswered, CallbacksAnswered,
     WritesAnswered DEF Next, HostStep

LEMMA AnsweredInitially == Init => AnsweredInv
<1>1. <<>> \in Seq(Nat) /\ <<>> \o <<>> = <<>>
  OBVIOUS
<1> QED
  BY <1>1, EmptyHasNoResult DEF Init, AnsweredInv

(* Every action taken from the input gets one result, in the order the actions were *)
(* taken, whatever its callback did, however small the queue and however it is      *)
(* written: only a host that ends in a failure leaves one unanswered, the last      *)
(* (handle, send, flush_output, main).                                              *)
THEOREM AnswersStayInOrder == Spec => []AnswersInOrder
<1>1. AnsweredInv => AnswersInOrder
  BY DEF AnsweredInv, AnswersInOrder
<1> QED
  BY <1>1, HostInvInitially, HostInvInductive, AnsweredInitially, AnsweredInductive, PTL DEF Spec

(* Both halves of what the core may rely on when it reads a host, for a module that *)
(* starts nothing while it is loaded.                                               *)
THEOREM RecordsStayInOrder ==
  ASSUME WorksAtLoad = FALSE
  PROVE  Spec => []RecordsInOrder
<1>1. ReadyFirst /\ AnswersInOrder => RecordsInOrder
  BY DEF RecordsInOrder
<1> QED
  BY <1>1, ReadyComesFirst, AnswersStayInOrder, PTL
================================================================================
