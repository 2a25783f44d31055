--------------------------- MODULE SupervisorProofs ----------------------------
(* Proofs about the supervisor, for any number of modules, any limit, policies,   *)
(* commands and faults: what each operation does to one instance, then what each  *)
(* step of the thread does to all of them.                                        *)

EXTENDS ModuleSupervisor, FiniteSetTheorems, SequenceTheorems, TLAPS

Event == {"contexts_removed", "restart_completed", "message"}
News == {"contexts_removed", "message"}

\* The type of an instance, with what it may emit in one step.
Shape(x) ==
  x \in [version            : Versions,
         lc                 : LifecycleRecord,
         process            : ProcessStatus,
         ready              : BOOLEAN,
         restart_after_stop : BOOLEAN,
         restart_pending    : BOOLEAN,
         replacement        : Versions \cup {NoVersion},
         contexts_removed   : BOOLEAN,
         eof_for            : Span(EofGrace),
         violations         : 0..ViolationLimit,
         emitted            : SUBSET Event]

\* What the supervisor remembers of a process agrees with the state of its lifecycle.
Consistent(x) ==
  /\ x.process # "none" <=> x.lc.state \in ProcessState
  /\ x.contexts_removed <=> x.lc.state \notin {"starting", "running"}
  /\ x.lc.state = "running" => x.ready
  /\ x.lc.state = "starting" => ~x.ready

\* How far the process of an instance has got.
Stage(x) ==
  IF x.lc.state = "running" THEN "running"
  ELSE IF x.lc.state = "starting" THEN "starting" ELSE "absent"

\* What a step may do to an instance, in the order of the events it promises.
NoNews(x, y) == y.emitted \cap News = x.emitted \cap News
Removed(y) == Stage(y) \in {"absent", "starting"} /\ "contexts_removed" \in y.emitted
Proceeds(x, y) ==
  /\ NoNews(x, y)
  /\ \/ Stage(y) = Stage(x)
     \/ Stage(x) = "absent" /\ Stage(y) = "starting"
     \/ Stage(x) = "starting" /\ Stage(y) = "running"
SaysSomething(x, y) ==
  Stage(x) = "running" /\ Stage(y) = "running" /\ y.emitted \cap News = {"message"}
Onward(x, y) == Proceeds(x, y) \/ Removed(y) \/ SaysSomething(x, y)

\* Shutdown: nothing waits for a backoff, and nothing is spawned.
Quieting(x, y) ==
  global_shutdown => /\ x.lc.state # "backoff" => y.lc.state # "backoff"
                     /\ x.lc.state # "backoff" /\ x.process = "none" => y.process = "none"

\* What is shown of each operation on an instance.
Sound(x, y) == Shape(y) /\ Consistent(y) /\ Onward(x, y) /\ Quieting(x, y)

--------------------------------------------------------------------------------
(* What the operations of the lifecycle do to its state.                          *)

\* What the supervisor itself puts into an instance.
LEMMA SmallValues ==
  /\ 0 \in 0..ViolationLimit
  /\ \A v \in 0..ViolationLimit : Lower(v + 1, ViolationLimit) \in 0..ViolationLimit
  /\ 0 \in Span(EofGrace) /\ Unset \in Span(EofGrace)
  /\ NoVersion \in Versions \cup {NoVersion}
  /\ {"unresponsive", "protocol_violation", "io_error"} \subseteq FailureCause
  BY SupervisorAssumption DEF Lower, Span, FailureCause

\* What the lifecycle puts into its members.
LEMMA LifecycleValues ==
  /\ \A limit : Unset \in Span(limit)
  /\ Handshake \in Span(Handshake)
  /\ 0 \in Span(HealthyReset)
  /\ {0, GracefulShutdown, TerminateGrace} \subseteq Span(GracefulShutdown + TerminateGrace)
  /\ InitialBackoff \in Backoff
  /\ \A b \in Backoff : b \in Span(MaximumBackoff) /\ DoubledBackoff(b) \in Backoff
  /\ <<>> \in FailureAges
  BY TimingAssumption DEF Span, Backoff, Unset, DoubledBackoff, Lower, FailureAges

LEMMA StateOfNew ==
  ASSUME NEW p \in RestartPolicy
  PROVE  NewLifecycle(p) \in LifecycleRecord /\ NewLifecycle(p).state = "stopped"
  BY LifecycleValues DEF LifecycleRecord, NewLifecycle, ModuleState

LEMMA StateOfStart ==
  ASSUME NEW lc \in LifecycleRecord
  PROVE  Start(lc) \in LifecycleRecord /\ Start(lc).state = "starting"
<1>1. (IF lc.state = "failed" THEN <<>> ELSE lc.failures) \in FailureAges
  BY LifecycleValues DEF LifecycleRecord
<1> QED
  BY <1>1, LifecycleValues DEF Start, LifecycleRecord, ModuleState

LEMMA StateOfReady ==
  ASSUME NEW lc \in LifecycleRecord
  PROVE  Ready(lc) \in LifecycleRecord /\ Ready(lc).state = "running"
  BY LifecycleValues DEF Ready, LifecycleRecord, ModuleState

LEMMA StateOfReset ==
  ASSUME NEW lc \in LifecycleRecord
  PROVE  /\ ResetForExplicitRestart(lc) \in LifecycleRecord
         /\ ResetForExplicitRestart(lc).state = lc.state
  BY LifecycleValues DEF ResetForExplicitRestart, LifecycleRecord

LEMMA StateOfStopping ==
  ASSUME NEW lc \in LifecycleRecord, NEW cause \in StopCause,
         NEW at \in Span(GracefulShutdown + TerminateGrace)
  PROVE  /\ BeginStopping(lc, cause, at) \in LifecycleRecord
         /\ BeginStopping(lc, cause, at).state = "stopping"
  BY DEF BeginStopping, LifecycleRecord, ModuleState, ShutdownSignal

LEMMA StateOfStop ==
  ASSUME NEW lc \in LifecycleRecord
  PROVE  /\ Stop(lc) \in LifecycleRecord
         /\ Stop(lc).state = IF lc.state \in {"starting", "running"} THEN "stopping" ELSE "stopped"
<1>1. CASE lc.state \in {"starting", "running"}
  BY <1>1, StateOfStopping, LifecycleValues DEF Stop, StopCause
<1>2. CASE lc.state \notin {"starting", "running"}
  BY <1>2, LifecycleValues DEF Stop, LifecycleRecord, ModuleState
<1> QED
  BY <1>1, <1>2

LEMMA StateOfFail ==
  ASSUME NEW lc \in LifecycleRecord, NEW cause \in FailureCause
  PROVE  Fail(lc, cause) \in LifecycleRecord /\ Fail(lc, cause).state = "stopping"
<1>1. 0 \in Span(GracefulShutdown + TerminateGrace) /\ cause \in StopCause
  BY LifecycleValues DEF StopCause
<1> QED
  BY <1>1, StateOfStopping DEF Fail

LEMMA StateOfSettledBackoff ==
  ASSUME NEW lc \in LifecycleRecord
  PROVE  /\ ResetBackoffIfHealthy(lc) \in LifecycleRecord
         /\ ResetBackoffIfHealthy(lc).state = lc.state
  BY LifecycleValues DEF ResetBackoffIfHealthy, LifecycleRecord

LEMMA StateOfTick ==
  ASSUME NEW lc \in LifecycleRecord
  PROVE  /\ Tick(lc) \in LifecycleRecord
         /\ Tick(lc).state = CASE HandshakeExpired(lc) -> "stopping"
                               [] BackoffElapsed(lc) -> "starting"
                               [] OTHER -> lc.state
<1>1. CASE HandshakeExpired(lc)
  <2> DEFINE u == [lc EXCEPT !.handshake_deadline = Unset]
  <2>1. Tick(lc) = BeginStopping(u, "handshake_timeout", 0)
    BY <1>1 DEF Tick, HandshakeExpired, BackoffElapsed
  <2>2. u \in LifecycleRecord /\ "handshake_timeout" \in StopCause
    BY LifecycleValues DEF LifecycleRecord, StopCause, FailureCause
  <2> HIDE DEF u
  <2> QED
    BY <1>1, <2>1, <2>2, StateOfStopping, LifecycleValues DEF HandshakeExpired, BackoffElapsed
<1>2. CASE BackoffElapsed(lc) /\ ~HandshakeExpired(lc)
  <2> DEFINE u == [lc EXCEPT !.state = "starting", !.restart_at = Unset,
                            !.handshake_deadline = Handshake]
  <2>1. Tick(lc) = u
    BY <1>2 DEF Tick
  <2>2. u \in LifecycleRecord /\ u.state = "starting"
    BY LifecycleValues DEF LifecycleRecord, ModuleState
  <2> HIDE DEF u
  <2> QED
    BY <1>2, <2>1, <2>2
<1>3. CASE ~BackoffElapsed(lc) /\ ~HandshakeExpired(lc)
  BY <1>3, StateOfSettledBackoff DEF Tick
<1> QED
  BY <1>1, <1>2, <1>3

\* record_failure drops some of the recorded failures and adds one.
LEMMA RecordsFailure ==
  ASSUME NEW lc \in LifecycleRecord
  PROVE  RecordFailure(lc) \in LifecycleRecord
<1> DEFINE k == Cardinality(Stale(lc.failures))
           f == SubSeq(lc.failures, k + 1, Len(lc.failures))
<1>0. FailureWindow \in Nat
  BY TimingAssumption
<1>1. lc.failures \in Seq(0..FailureWindow + 1) /\ Len(lc.failures) \in Nat
  BY DEF LifecycleRecord, FailureAges
<1>2. k \in Nat
  <2>1. IsFiniteSet(1..Len(lc.failures))
    BY <1>1, FS_Interval
  <2>2. Stale(lc.failures) \in SUBSET (1..Len(lc.failures))
    BY DEF Stale
  <2>3. IsFiniteSet(Stale(lc.failures))
    BY <2>1, <2>2, FS_Subset
  <2> QED
    BY <2>3, FS_CardinalityType
<1>3. \A i \in k + 1 .. Len(lc.failures) : lc.failures[i] \in 0..FailureWindow + 1
  BY <1>0, <1>1, <1>2
<1>4. f \in Seq(0..FailureWindow + 1)
  <2> HIDE DEF k
  <2> QED
    BY <1>0, <1>1, <1>2, <1>3, SubSeqProperties
<1> HIDE DEF f
<1>5. Append(f, 0) \in FailureAges
  BY <1>0, <1>1, <1>4 DEF FailureAges
<1>6. RecordFailure(lc) = [lc EXCEPT !.failures = Append(f, 0)]
  BY DEF RecordFailure, f
<1> QED
  BY <1>5, <1>6 DEF LifecycleRecord

LEMMA StateOfExited ==
  ASSUME NEW lc \in LifecycleRecord, NEW cause \in StopCause
  PROVE  /\ Exited(lc, cause) \in LifecycleRecord
         /\ Exited(lc, cause).state \in {"stopped", "backoff", "failed"}
<1> DEFINE e == EffectiveCause(lc, cause)
           c == ClearProcessState(ResetBackoffIfHealthy(lc))
           m == IF IsFailure(e) THEN RecordFailure(c) ELSE c
           delay == IF IsFailure(e) THEN m.next_backoff ELSE InitialBackoff
           next == IF IsFailure(e) THEN DoubledBackoff(m.next_backoff) ELSE InitialBackoff
<1>1. c \in LifecycleRecord
  BY StateOfSettledBackoff, LifecycleValues DEF ClearProcessState, LifecycleRecord
<1> HIDE DEF c
<1>2. m \in LifecycleRecord
  BY <1>1, RecordsFailure
<1> HIDE DEF m, e
<1>3. delay \in Span(MaximumBackoff) /\ next \in Backoff
  BY <1>2, LifecycleValues DEF LifecycleRecord
<1>4. Exited(lc, cause) \in {[m EXCEPT !.state = "failed"], [m EXCEPT !.state = "stopped"],
                             [m EXCEPT !.state = "backoff", !.restart_at = delay, !.next_backoff = next]}
  BY DEF Exited, Settled, e, c, m
<1> HIDE DEF delay, next
<1> QED
  BY <1>2, <1>3, <1>4 DEF LifecycleRecord, ModuleState

LEMMA StateOfSent ==
  ASSUME NEW lc \in LifecycleRecord, DueSignal(lc) # "none"
  PROVE  /\ SignalSent(lc, DueSignal(lc)) \in LifecycleRecord
         /\ SignalSent(lc, DueSignal(lc)).state = lc.state
  BY LifecycleValues DEF SignalSent, LifecycleRecord, ShutdownSignal

LEMMA OlderInSpan ==
  ASSUME NEW limit \in Nat, NEW age \in Span(limit)
  PROVE  Older(age, limit) \in Span(limit)
  BY DEF Older, Lower, Span, Unset

LEMMA StateOfElapsed ==
  ASSUME NEW lc \in LifecycleRecord
  PROVE  Elapsed(lc) \in LifecycleRecord /\ Elapsed(lc).state = lc.state
<1> DEFINE f == [i \in 1..Len(lc.failures) |-> Lower(lc.failures[i] + 1, FailureWindow + 1)]
<1>1. f \in FailureAges
  <2>1. \A i \in 1..Len(lc.failures) : Lower(lc.failures[i] + 1, FailureWindow + 1) \in 0..FailureWindow + 1
    BY TimingAssumption DEF LifecycleRecord, FailureAges, Lower
  <2>2. Len(lc.failures) \in Nat
    BY DEF LifecycleRecord, FailureAges
  <2>3. f \in Seq(0..FailureWindow + 1) /\ Len(f) = Len(lc.failures)
    BY <2>1, <2>2
  <2> QED
    BY <2>3 DEF FailureAges, LifecycleRecord
<1>2. \A limit \in Nat : \A d \in Span(limit) : Sooner(d) \in Span(limit)
  BY DEF Sooner, Span, Unset
<1>3. /\ Sooner(lc.handshake_deadline) \in Span(Handshake)
      /\ Sooner(lc.restart_at) \in Span(MaximumBackoff)
      /\ Sooner(lc.signal_at) \in Span(GracefulShutdown + TerminateGrace)
      /\ Older(lc.running_for, HealthyReset) \in Span(HealthyReset)
  <2>1. /\ Handshake \in Nat /\ MaximumBackoff \in Nat /\ HealthyReset \in Nat
        /\ GracefulShutdown + TerminateGrace \in Nat
    BY TimingAssumption
  <2> QED
    BY <1>2, <2>1, OlderInSpan DEF LifecycleRecord
<1> HIDE DEF f
<1> QED
  BY <1>1, <1>3 DEF Elapsed, LifecycleRecord, f


--------------------------------------------------------------------------------
(* What the helpers do to an instance.                                            *)

\* Two instances that differ in their lifecycle, a restart and its report at most.
Alike(x, y) ==
  /\ y.process = x.process /\ y.ready = x.ready /\ y.contexts_removed = x.contexts_removed
  /\ y.replacement = x.replacement /\ NoNews(x, y)

LEMMA Emits ==
  ASSUME NEW x, Shape(x), NEW event \in Event
  PROVE  /\ Shape(Emit(x, event)) /\ Emit(x, event).lc = x.lc
         /\ Emit(x, event) = [x EXCEPT !.emitted = Emit(x, event).emitted]
         /\ Emit(x, event).emitted = x.emitted \cup {event}
         /\ Emit(x, event).process = x.process /\ Emit(x, event).ready = x.ready
         /\ Emit(x, event).contexts_removed = x.contexts_removed
         /\ Emit(x, event).replacement = x.replacement
  BY DEF Shape, Emit

LEMMA CompletesRestart ==
  ASSUME NEW x, Shape(x)
  PROVE  /\ Shape(CompleteRestart(x)) /\ CompleteRestart(x).lc = x.lc
         /\ Alike(x, CompleteRestart(x))
<1>1. CASE x.restart_pending
  <2> DEFINE y == [x EXCEPT !.restart_pending = FALSE]
  <2>1. Shape(y) /\ y.lc = x.lc /\ y.process = x.process /\ y.ready = x.ready
        /\ y.contexts_removed = x.contexts_removed /\ y.replacement = x.replacement
        /\ y.emitted = x.emitted
    BY DEF Shape
  <2>2. CompleteRestart(x) = Emit(y, "restart_completed")
    BY <1>1 DEF CompleteRestart
  <2>3. "restart_completed" \in Event /\ "restart_completed" \notin News
    BY DEF Event, News
  <2> HIDE DEF y
  <2> QED
    BY <2>1, <2>2, <2>3, Emits DEF Alike, NoNews
<1>2. CASE ~x.restart_pending
  BY <1>2 DEF CompleteRestart, Alike, NoNews
<1> QED
  BY <1>1, <1>2

LEMMA Moves ==
  ASSUME NEW x, Shape(x), NEW next, next \in LifecycleRecord, NEW cause
  PROVE  /\ Shape(Moved(x, next, cause)) /\ Moved(x, next, cause).lc = next
         /\ Alike(x, Moved(x, next, cause))
<1> DEFINE moved == [x EXCEPT !.lc = next]
<1>1. Shape(moved) /\ moved.lc = next /\ Alike(x, moved)
  BY DEF Shape, Alike, NoNews
<1>2. Moved(x, next, cause) \in {moved, CompleteRestart(moved)}
  BY DEF Moved
<1> HIDE DEF moved
<1> QED
  BY <1>1, <1>2, CompletesRestart DEF Alike, NoNews

LEMMA RemovesContexts ==
  ASSUME NEW x, Shape(x)
  PROVE  LET y == EmitContextRemoval(x)
         IN  /\ Shape(y) /\ y.lc = x.lc /\ y.process = x.process /\ y.ready = x.ready
             /\ y.replacement = x.replacement /\ y.contexts_removed
             /\ x.contexts_removed => y = x
             /\ ~x.contexts_removed => y.emitted = x.emitted \cup {"contexts_removed"}
<1>1. CASE ~x.contexts_removed
  <2> DEFINE z == [x EXCEPT !.contexts_removed = TRUE]
  <2>1. Shape(z) /\ z.lc = x.lc /\ z.process = x.process /\ z.ready = x.ready
        /\ z.contexts_removed /\ z.replacement = x.replacement /\ z.emitted = x.emitted
    BY DEF Shape
  <2>2. EmitContextRemoval(x) = Emit(z, "contexts_removed")
    BY <1>1 DEF EmitContextRemoval
  <2>3. "contexts_removed" \in Event
    BY DEF Event
  <2> HIDE DEF z
  <2> QED
    BY <1>1, <2>1, <2>2, <2>3, Emits
<1>2. CASE x.contexts_removed
  BY <1>2 DEF EmitContextRemoval
<1> QED
  BY <1>1, <1>2

\* An instance that stops: whichever way, and whatever comes of it.
LEMMA EndsProcess ==
  ASSUME NEW x, Shape(x), Consistent(x), x.lc.state \in {"starting", "running"},
         NEW next, next \in LifecycleRecord, next.state = "stopping", NEW cause
  PROVE  LET y == Moved(EmitContextRemoval(x), next, cause)
         IN  /\ Shape(y) /\ Consistent(y) /\ Removed(y) /\ y.lc = next /\ y.process = x.process
             /\ y.replacement = x.replacement
<1> DEFINE r == EmitContextRemoval(x)
           y == Moved(r, next, cause)
<1>1. Shape(r) /\ r.process = x.process /\ r.contexts_removed /\ "contexts_removed" \in r.emitted
      /\ r.replacement = x.replacement
  BY RemovesContexts DEF Consistent
<1> HIDE DEF r
<1>2. Shape(y) /\ y.lc = next /\ Alike(r, y)
  BY <1>1, Moves
<1> HIDE DEF y
<1>3. Consistent(y)
  BY <1>1, <1>2 DEF Consistent, Alike, ProcessState
<1>4. Removed(y)
  BY <1>1, <1>2 DEF Removed, Stage, Alike, NoNews, News
<1> QED
  BY <1>1, <1>2, <1>3, <1>4 DEF r, y, Alike

LEMMA BeginsFailure ==
  ASSUME NEW x, Shape(x), Consistent(x), NEW cause \in FailureCause
  PROVE  LET y == BeginFailure(x, cause)
         IN  /\ Shape(y) /\ Consistent(y) /\ y.process = x.process
             /\ y.replacement = x.replacement
             /\ y = x \/ (Removed(y) /\ y.lc.state = "stopping")
             /\ CanFail(x.lc, cause) => Removed(y) /\ y.lc.state = "stopping"
<1>1. CASE CanFail(x.lc, cause)
  <2>1. Fail(x.lc, cause) \in LifecycleRecord /\ Fail(x.lc, cause).state = "stopping"
    BY StateOfFail DEF Shape
  <2>2. x.lc.state \in {"starting", "running"}
    BY <1>1 DEF CanFail
  <2>3. BeginFailure(x, cause) = Moved(EmitContextRemoval(x), Fail(x.lc, cause), cause)
    BY <1>1 DEF BeginFailure
  <2> QED
    BY <2>1, <2>2, <2>3, EndsProcess
<1>2. CASE ~CanFail(x.lc, cause)
  BY <1>2 DEF BeginFailure
<1> QED
  BY <1>1, <1>2

--------------------------------------------------------------------------------
(* What starts, stops and restarts an instance.                                   *)

LEMMA Continues ==
  ASSUME NEW x, NEW y, NEW z, Onward(x, z), Stage(z) = "absent", Onward(z, y)
  PROVE  Onward(x, y)
<1>1. CASE Removed(z)
  BY <1>1 DEF Onward, Proceeds, Removed, SaysSomething, NoNews, News
<1>2. CASE Proceeds(x, z)
  BY <1>2 DEF Onward, Proceeds, SaysSomething, NoNews, Removed
<1> QED
  BY <1>1, <1>2 DEF Onward, SaysSomething

LEMMA Outcomes == SpawnOutcome \subseteq {"spawned", "spawn_error", "init_unsent"}
  BY DEF SpawnOutcome

LEMMA Spawns ==
  ASSUME NEW x, Shape(x), x.process = "none", x.lc.state = "starting", NEW outcome \in SpawnOutcome
  PROVE  LET y == Spawn(x, outcome)
         IN  /\ Shape(y) /\ Consistent(y) /\ y.replacement = x.replacement
             /\ Removed(y) \/ (Stage(y) = "starting" /\ NoNews(x, y))
<1> DEFINE fresh == [x EXCEPT !.ready = FALSE, !.violations = 0, !.contexts_removed = FALSE,
                              !.eof_for = Unset]
           alive == [fresh EXCEPT !.process = "alive"]
           removed == EmitContextRemoval(fresh)
           lc == Exited(removed.lc, "spawn_error")
<1>1. /\ Shape(fresh) /\ fresh.lc = x.lc /\ fresh.process = "none" /\ ~fresh.ready
      /\ ~fresh.contexts_removed /\ fresh.replacement = x.replacement /\ fresh.emitted = x.emitted
  BY SmallValues DEF Shape
<1> HIDE DEF fresh
<1>2. /\ Shape(alive) /\ alive.lc = x.lc /\ alive.process = "alive" /\ ~alive.ready
      /\ ~alive.contexts_removed /\ alive.replacement = x.replacement /\ alive.emitted = x.emitted
  BY <1>1 DEF Shape, ProcessStatus
<1> HIDE DEF alive
<1>3. Consistent(alive)
  BY <1>2 DEF Consistent, ProcessState
<1>4. CASE outcome = "spawn_error"
  <2>1. /\ Shape(removed) /\ removed.contexts_removed /\ removed.process = "none"
        /\ removed.replacement = x.replacement /\ "contexts_removed" \in removed.emitted
    BY <1>1, RemovesContexts
  <2> HIDE DEF removed
  <2>2. lc \in LifecycleRecord /\ lc.state \in {"stopped", "backoff", "failed"}
    BY <2>1, StateOfExited DEF Shape, StopCause, FailureCause
  <2> HIDE DEF lc
  <2> DEFINE y == Moved(removed, lc, "spawn_error")
  <2>3. Shape(y) /\ y.lc = lc /\ Alike(removed, y)
    BY <2>1, <2>2, Moves
  <2>4. Spawn(x, outcome) = y
    BY <1>4 DEF Spawn, fresh, removed, lc
  <2> HIDE DEF y
  <2>5. Consistent(y)
    BY <2>1, <2>2, <2>3 DEF Consistent, Alike, ProcessState
  <2>6. Removed(y)
    BY <2>1, <2>2, <2>3 DEF Removed, Stage, Alike, NoNews, News
  <2> QED
    BY <2>1, <2>3, <2>4, <2>5, <2>6 DEF Alike
<1>5. CASE outcome = "init_unsent"
  <2>1. Spawn(x, outcome) = BeginFailure(alive, "unresponsive")
    BY <1>5 DEF Spawn, fresh, alive
  <2>2. CanFail(alive.lc, "unresponsive")
    BY <1>2 DEF CanFail, IsFailure
  <2> QED
    BY <2>1, <2>2, <1>2, <1>3, SmallValues, BeginsFailure
<1>6. CASE outcome = "spawned"
  <2>1. Spawn(x, outcome) = alive
    BY <1>6 DEF Spawn, fresh, alive
  <2> QED
    BY <2>1, <1>2, <1>3 DEF Stage, NoNews
<1> QED
  BY <1>4, <1>5, <1>6, Outcomes

LEMMA Starts ==
  ASSUME NEW x, Shape(x), x.process = "none", NEW outcome \in SpawnOutcome
  PROVE  LET y == Started(x, outcome)
         IN  /\ Shape(y) /\ Consistent(y) /\ y.replacement = x.replacement
             /\ Removed(y) \/ (Stage(y) = "starting" /\ NoNews(x, y))
<1> DEFINE z == Moved(x, Start(x.lc), "requested")
<1>1. Start(x.lc) \in LifecycleRecord /\ Start(x.lc).state = "starting"
  BY StateOfStart DEF Shape
<1>2. Shape(z) /\ z.lc = Start(x.lc) /\ Alike(x, z)
  BY <1>1, Moves
<1>3. Started(x, outcome) = Spawn(z, outcome)
  BY DEF Started
<1> HIDE DEF z
<1>4. z.process = "none" /\ z.lc.state = "starting" /\ z.replacement = x.replacement
  BY <1>1, <1>2 DEF Alike
<1> QED
  BY <1>2, <1>3, <1>4, Spawns DEF Alike, NoNews

LEMMA CompletingIsSound ==
  ASSUME NEW x, Shape(x), Consistent(x)
  PROVE  Sound(x, CompleteRestart(x)) /\ CompleteRestart(x).replacement = x.replacement
         /\ CompleteRestart(x).lc = x.lc /\ NoNews(x, CompleteRestart(x))
  BY CompletesRestart DEF Sound, Alike, Consistent, Onward, Proceeds, Stage, Quieting

LEMMA StartsExisting ==
  ASSUME NEW i, NEW x, Shape(x), Consistent(x), NEW outcome \in SpawnOutcome
  PROVE  Sound(x, StartExisting(i, x, outcome))
         /\ StartExisting(i, x, outcome).replacement = x.replacement
<1>1. CASE global_shutdown \/ ~HasCapacity(Without(i)) \/ ~CanStart(x.lc)
  BY <1>1, CompletingIsSound DEF StartExisting
<1>2. CASE ~(global_shutdown \/ ~HasCapacity(Without(i)) \/ ~CanStart(x.lc))
  <2> DEFINE y == Started(x, outcome)
  <2>1. StartExisting(i, x, outcome) = y
    BY <1>2 DEF StartExisting
  <2>2. x.lc.state \in {"stopped", "failed"} /\ ~global_shutdown
    BY <1>2 DEF CanStart
  <2>3. x.process = "none" /\ Stage(x) = "absent"
    BY <2>2 DEF Consistent, ProcessState, Stage
  <2>4. /\ Shape(y) /\ Consistent(y) /\ y.replacement = x.replacement
        /\ Removed(y) \/ (Stage(y) = "starting" /\ NoNews(x, y))
    BY <2>3, Starts
  <2> QED
    BY <2>1, <2>2, <2>3, <2>4 DEF Sound, Onward, Proceeds, Quieting
<1> QED
  BY <1>1, <1>2

LEMMA StopRequestIsSound ==
  ASSUME NEW x, Shape(x), Consistent(x)
  PROVE  LET y == StopRequested(x)
         IN  /\ Sound(x, y) /\ y.process = x.process /\ y.replacement = x.replacement
             /\ y.lc.state \in {"stopping", "stopped"}
<1> DEFINE y == StopRequested(x)
<1>1. /\ Stop(x.lc) \in LifecycleRecord
      /\ Stop(x.lc).state = IF x.lc.state \in {"starting", "running"} THEN "stopping" ELSE "stopped"
  BY StateOfStop DEF Shape
<1>2. CASE x.lc.state \in {"stopping", "stopped"}
  <2>1. y = x
    BY <1>2 DEF StopRequested
  <2> QED
    BY <1>2, <2>1 DEF Sound, Onward, Proceeds, NoNews, Quieting, Stage
<1>3. CASE x.lc.state \in {"starting", "running"}
  <2>1. EmitContextRemoval(x).lc = x.lc
    BY RemovesContexts
  <2>2. y = Moved(EmitContextRemoval(x), Stop(x.lc), "requested")
    BY <1>3, <2>1 DEF StopRequested
  <2>3. Stop(x.lc).state = "stopping"
    BY <1>1, <1>3
  <2>4. /\ Shape(y) /\ Consistent(y) /\ Removed(y) /\ y.lc.state = "stopping"
        /\ y.process = x.process /\ y.replacement = x.replacement
    BY <1>1, <1>3, <2>2, <2>3, EndsProcess
  <2> QED
    BY <2>4 DEF Sound, Onward, Quieting
<1>4. CASE x.lc.state \in {"backoff", "failed"}
  <2>1. y = Moved(x, Stop(x.lc), "requested")
    BY <1>4 DEF StopRequested
  <2>2. Shape(y) /\ y.lc = Stop(x.lc) /\ Alike(x, y) /\ Stop(x.lc).state = "stopped"
    BY <1>1, <1>4, <2>1, Moves
  <2> HIDE DEF y
  <2>3. Consistent(y)
    BY <1>4, <2>2 DEF Consistent, Alike, ProcessState
  <2>4. Stage(x) = "absent" /\ Stage(y) = "absent" /\ NoNews(x, y)
    BY <1>4, <2>2 DEF Stage, Alike
  <2> QED
    BY <2>2, <2>3, <2>4 DEF Sound, Onward, Proceeds, Quieting, Alike, y
<1>5. x.lc.state \in ModuleState
  BY DEF Shape, LifecycleRecord
<1> QED
  BY <1>2, <1>3, <1>4, <1>5 DEF ModuleState

\* restart_after_stop is used once.
LEMMA StartsAfterStop ==
  ASSUME NEW i, NEW x, Shape(x), Consistent(x), NEW outcome \in SpawnOutcome
  PROVE  LET y == StartExisting(i, [x EXCEPT !.restart_after_stop = FALSE], outcome)
         IN  Shape(y) /\ Consistent(y) /\ Onward(x, y) /\ y.replacement = x.replacement
<1> DEFINE z == [x EXCEPT !.restart_after_stop = FALSE]
<1>1. /\ Shape(z) /\ z.lc = x.lc /\ z.process = x.process /\ z.ready = x.ready
      /\ z.contexts_removed = x.contexts_removed /\ z.replacement = x.replacement
      /\ z.emitted = x.emitted
  BY DEF Shape
<1> HIDE DEF z
<1>2. Consistent(z) /\ Stage(z) = Stage(x) /\ NoNews(x, z)
  BY <1>1 DEF Consistent, Stage, NoNews
<1>3. Sound(z, StartExisting(i, z, outcome))
      /\ StartExisting(i, z, outcome).replacement = z.replacement
  BY <1>1, <1>2, StartsExisting
<1>4. Onward(x, StartExisting(i, z, outcome))
  BY <1>1, <1>2, <1>3 DEF Sound, Onward, Proceeds, SaysSomething, NoNews
<1> QED
  BY <1>1, <1>3, <1>4 DEF Sound, z

LEMMA HandleStopIsSound ==
  ASSUME NEW i, NEW x, Shape(x), Consistent(x), NEW outcome \in SpawnOutcome
  PROVE  /\ Sound(x, HandleStop(i, x, outcome))
         /\ HandleStop(i, x, outcome).replacement = x.replacement
         /\ Stage(HandleStop(i, x, outcome)) # "running"
<1> DEFINE stopped == StopRequested(x)
           restarts == /\ x.lc.state # "stopped" /\ stopped.lc.state = "stopped"
                       /\ stopped.restart_after_stop /\ ~global_shutdown
<1>1. /\ Sound(x, stopped) /\ stopped.replacement = x.replacement
      /\ Stage(stopped) = "absent"
  BY StopRequestIsSound DEF Stage
<1>2. CASE ~restarts
  BY <1>1, <1>2 DEF HandleStop
<1>3. CASE restarts
  <2> DEFINE y == StartExisting(i, [stopped EXCEPT !.restart_after_stop = FALSE], outcome)
  <2>1. HandleStop(i, x, outcome) = y
    BY <1>3 DEF HandleStop
  <2>2. stopped.lc.state = "stopped" /\ ~global_shutdown
    BY <1>3
  <2> HIDE DEF stopped, restarts
  <2>3. Shape(y) /\ Consistent(y) /\ Onward(stopped, y) /\ y.replacement = stopped.replacement
    BY <1>1, StartsAfterStop DEF Sound
  <2> HIDE DEF y
  <2>4. Onward(x, y)
    BY <1>1, <2>2, <2>3, Continues DEF Sound
  <2>5. Stage(y) # "running"
    BY <1>1, <2>3 DEF Onward, Proceeds, Removed, SaysSomething
  <2> QED
    BY <1>1, <2>1, <2>2, <2>3, <2>4, <2>5 DEF Sound, Quieting
<1> QED
  BY <1>2, <1>3

\* A restart or a reload first sets fields that no event depends on.
SameProcess(x, z) ==
  /\ Shape(z) /\ z.lc.state = x.lc.state /\ z.process = x.process /\ z.ready = x.ready
  /\ z.contexts_removed = x.contexts_removed /\ NoNews(x, z)

LEMMA SameProcessIsSound ==
  ASSUME NEW x, NEW z, Consistent(x), SameProcess(x, z)
  PROVE  Sound(x, z) /\ Stage(z) = Stage(x)
  BY DEF SameProcess, Consistent, Sound, Onward, Proceeds, Stage, Quieting

LEMMA SoundSinceSame ==
  ASSUME NEW x, NEW y, NEW z, SameProcess(x, z), Sound(z, y)
  PROVE  Sound(x, y)
<1>1. Onward(x, y)
  BY DEF SameProcess, Sound, Onward, Proceeds, SaysSomething, NoNews, Stage
<1> QED
  BY <1>1 DEF Sound, SameProcess, Quieting

LEMMA HandleRestartIsSound ==
  ASSUME NEW i, NEW x, Shape(x), Consistent(x), NEW outcome \in SpawnOutcome
  PROVE  Sound(x, HandleRestart(i, x, outcome))
<1> DEFINE z == [x EXCEPT !.restart_pending = TRUE, !.lc = ResetForExplicitRestart(@)]
           w == [z EXCEPT !.restart_after_stop = TRUE]
           m == Moved(z, Stop(z.lc), "requested")
           y == HandleRestart(i, x, outcome)
<1>1. ResetForExplicitRestart(x.lc) \in LifecycleRecord /\ ResetForExplicitRestart(x.lc).state = x.lc.state
  BY StateOfReset DEF Shape
<1>2. SameProcess(x, z)
  BY <1>1 DEF SameProcess, Shape, NoNews
<1> HIDE DEF z
<1>3. SameProcess(x, w)
  BY <1>2 DEF SameProcess, Shape, NoNews
<1> HIDE DEF w
<1>4. CASE x.restart_pending
  <2>1. y = Emit(x, "restart_completed")
    BY <1>4 DEF HandleRestart
  <2>2. "restart_completed" \in Event /\ "restart_completed" \notin News
    BY DEF Event, News
  <2>3. SameProcess(x, y)
    BY <2>1, <2>2, Emits DEF SameProcess, NoNews
  <2> QED
    BY <2>3, SameProcessIsSound
<1>5. CASE ~x.restart_pending /\ z.lc.state \in {"failed", "stopped"}
  <2>1. y = StartExisting(i, z, outcome)
    BY <1>5 DEF HandleRestart, z
  <2>2. Sound(z, y)
    BY <1>2, <2>1, SameProcessIsSound, StartsExisting DEF SameProcess, Sound
  <2> QED
    BY <1>2, <2>2, SoundSinceSame
<1>6. CASE ~x.restart_pending /\ z.lc.state = "backoff"
  <2>1. y = StartExisting(i, m, outcome)
    BY <1>6 DEF HandleRestart, z
  <2>2. Stop(z.lc) \in LifecycleRecord /\ Stop(z.lc).state = "stopped"
    BY <1>2, <1>6, StateOfStop DEF SameProcess, Shape
  <2>3. Shape(m) /\ m.lc.state = "stopped" /\ Alike(z, m)
    BY <1>2, <2>2, Moves DEF SameProcess
  <2>4. Consistent(z) /\ Stage(z) = "absent"
    BY <1>2, <1>6 DEF Consistent, SameProcess, Stage
  <2> HIDE DEF m, y
  <2>5. Consistent(m) /\ Stage(m) = "absent"
    BY <1>6, <2>3, <2>4 DEF Consistent, Alike, ProcessState, Stage
  <2>6. Sound(m, y)
    BY <2>1, <2>3, <2>5, StartsExisting
  <2>7. Onward(z, y)
    BY <2>3, <2>4, <2>5, <2>6, Continues DEF Onward, Proceeds, Alike, Sound
  <2>8. Sound(z, y)
    BY <1>6, <2>6, <2>7 DEF Sound, Quieting
  <2> QED
    BY <1>2, <2>8, SoundSinceSame DEF y
<1>7. CASE ~x.restart_pending /\ z.lc.state \notin {"failed", "stopped", "backoff"}
  <2>1. y = HandleStop(i, w, outcome)
    BY <1>7 DEF HandleRestart, z, w
  <2>2. Sound(w, y)
    BY <1>3, <2>1, SameProcessIsSound, HandleStopIsSound DEF SameProcess, Sound
  <2> QED
    BY <1>3, <2>2, SoundSinceSame
<1> QED
  BY <1>4, <1>5, <1>6, <1>7

LEMMA CancelsRestart ==
  ASSUME NEW x, Shape(x), Consistent(x), NEW version \in Versions \cup {NoVersion}
  PROVE  LET y == [CancelRestart(x) EXCEPT !.replacement = version]
         IN  SameProcess(x, y) /\ y.replacement = version
<1> DEFINE z == [x EXCEPT !.restart_after_stop = FALSE]
           c == CompleteRestart(z)
<1>1. Shape(z) /\ z.lc = x.lc /\ z.process = x.process /\ z.ready = x.ready
      /\ z.contexts_removed = x.contexts_removed /\ z.emitted = x.emitted
  BY DEF Shape
<1> HIDE DEF z
<1>2. Shape(c) /\ c.lc = x.lc /\ c.process = x.process /\ c.ready = x.ready
      /\ c.contexts_removed = x.contexts_removed /\ NoNews(x, c)
  BY <1>1, CompletesRestart DEF Alike, NoNews
<1>3. CancelRestart(x) = c
  BY DEF CancelRestart, z
<1> HIDE DEF c
<1> QED
  BY <1>2, <1>3 DEF SameProcess, Shape, NoNews

--------------------------------------------------------------------------------
(* What time, the process and its output do to an instance.                       *)

LEMMA SignalsKeepProcess ==
  ASSUME NEW x, Shape(x), NEW delivered
  PROVE  LET y == SendDueSignal(x, delivered)
         IN  /\ Shape(y) /\ y.lc.state = x.lc.state /\ (y.process = "none") = (x.process = "none")
             /\ y.ready = x.ready /\ y.contexts_removed = x.contexts_removed /\ y.emitted = x.emitted
<1> DEFINE signal == DueSignal(x.lc)
           next == SignalSent(x.lc, signal)
           process == IF x.process = "alive" /\ signal = "kill" /\ delivered THEN "killed" ELSE x.process
<1>1. CASE x.process = "none" \/ signal = "none"
  BY <1>1 DEF SendDueSignal
<1>2. CASE ~(x.process = "none" \/ signal = "none")
  <2>1. SendDueSignal(x, delivered) = [x EXCEPT !.lc = next, !.process = process]
    BY <1>2 DEF SendDueSignal
  <2>2. next \in LifecycleRecord /\ next.state = x.lc.state
    BY <1>2, StateOfSent DEF Shape
  <2>3. process \in ProcessStatus /\ process # "none"
    BY <1>2 DEF Shape, ProcessStatus
  <2> HIDE DEF next, process, signal
  <2> QED
    BY <1>2, <2>1, <2>2, <2>3 DEF Shape
<1> QED
  BY <1>1, <1>2

LEMMA AdvancedIsSound ==
  ASSUME NEW x, Shape(x), Consistent(x), NEW outcome \in SpawnOutcome, NEW delivered
  PROVE  Sound(x, Advanced(x, outcome, delivered))
<1> DEFINE next == Tick(x.lc)
           expired == Moved(EmitContextRemoval(x), next, "handshake_timeout")
           spawned == Spawn(Moved(x, next, "requested"), outcome)
           ticked == CASE HandshakeExpired(x.lc) -> expired
                       [] BackoffElapsed(x.lc) -> spawned
                       [] OTHER -> [x EXCEPT !.lc = next]
<1>1. /\ next \in LifecycleRecord
      /\ next.state = CASE HandshakeExpired(x.lc) -> "stopping"
                        [] BackoffElapsed(x.lc) -> "starting"
                        [] OTHER -> x.lc.state
  BY StateOfTick DEF Shape
<1> HIDE DEF next
<1>2. CASE HandshakeExpired(x.lc)
  <2>1. x.lc.state = "starting" /\ next.state = "stopping" /\ ~BackoffElapsed(x.lc)
    BY <1>1, <1>2 DEF HandshakeExpired, BackoffElapsed
  <2>2. Shape(expired) /\ Consistent(expired) /\ Removed(expired) /\ expired.lc = next
        /\ expired.process = x.process
    BY <1>1, <2>1, EndsProcess
  <2>3. ticked = expired
    BY <1>2, <2>1
  <2> QED
    BY <2>1, <2>2, <2>3, SignalsKeepProcess
    DEF Advanced, next, Sound, Onward, Consistent, Removed, Stage, Quieting
<1>3. CASE BackoffElapsed(x.lc) /\ ~HandshakeExpired(x.lc)
  <2> DEFINE z == Moved(x, next, "requested")
  <2>1. x.lc.state = "backoff" /\ next.state = "starting"
    BY <1>1, <1>3 DEF BackoffElapsed
  <2>2. Shape(z) /\ z.lc = next /\ Alike(x, z)
    BY <1>1, Moves
  <2> HIDE DEF z
  <2>3. z.process = "none" /\ z.lc.state = "starting"
    BY <2>1, <2>2 DEF Alike, Consistent, ProcessState
  <2>4. LET y == Spawn(z, outcome)
        IN  /\ Shape(y) /\ Consistent(y)
            /\ Removed(y) \/ (Stage(y) = "starting" /\ NoNews(z, y))
    BY <2>2, <2>3, Spawns
  <2>5. ticked = Spawn(z, outcome)
    BY <1>3 DEF z
  <2> HIDE DEF ticked
  <2>6. Shape(ticked) /\ Consistent(ticked) /\ Onward(x, ticked)
    BY <2>1, <2>2, <2>4, <2>5 DEF Onward, Proceeds, Stage, Alike, NoNews
  <2>7. Advanced(x, outcome, delivered) = SendDueSignal(ticked, delivered)
    BY DEF Advanced, ticked, next
  <2>8. Shape(Advanced(x, outcome, delivered)) /\ Consistent(Advanced(x, outcome, delivered))
    BY <2>6, <2>7, SignalsKeepProcess DEF Consistent
  <2>9. Onward(x, Advanced(x, outcome, delivered))
    BY <2>6, <2>7, SignalsKeepProcess
    DEF Onward, Proceeds, Removed, SaysSomething, Stage, NoNews
  <2> QED
    BY <2>1, <2>8, <2>9 DEF Sound, Quieting
<1>4. CASE ~HandshakeExpired(x.lc) /\ ~BackoffElapsed(x.lc)
  <2> DEFINE z == [x EXCEPT !.lc = next]
  <2>1. SameProcess(x, z)
    BY <1>1, <1>4 DEF SameProcess, Shape, NoNews
  <2>2. Advanced(x, outcome, delivered) = SendDueSignal(z, delivered)
    BY <1>4 DEF Advanced, next
  <2> HIDE DEF z
  <2>3. Sound(x, z)
    BY <2>1, SameProcessIsSound
  <2> DEFINE y == SendDueSignal(z, delivered)
  <2>4. /\ Shape(y) /\ y.lc.state = z.lc.state /\ (y.process = "none") = (z.process = "none")
        /\ y.ready = z.ready /\ y.contexts_removed = z.contexts_removed /\ y.emitted = z.emitted
    BY <2>3, SignalsKeepProcess DEF Sound
  <2> HIDE DEF y
  <2>5. Consistent(y) /\ Stage(y) = Stage(z) /\ NoNews(z, y)
    BY <2>3, <2>4 DEF Sound, Consistent, Stage, NoNews
  <2>6. Sound(x, y)
    BY <2>1, <2>3, <2>4, <2>5 DEF Sound, Onward, Proceeds, Removed, SaysSomething, NoNews, SameProcess,
                                  Quieting
  <2> QED
    BY <2>2, <2>6 DEF y
<1> QED
  BY <1>2, <1>3, <1>4

LEMMA FailureIsSound ==
  ASSUME NEW x, Shape(x), Consistent(x), NEW cause \in FailureCause
  PROVE  Sound(x, BeginFailure(x, cause))
<1> DEFINE y == BeginFailure(x, cause)
<1>1. /\ Shape(y) /\ Consistent(y) /\ y.process = x.process
      /\ y = x \/ (Removed(y) /\ y.lc.state = "stopping")
  BY BeginsFailure
<1> HIDE DEF y
<1> QED
  BY <1>1 DEF Sound, Onward, Proceeds, NoNews, Quieting, y

LEMMA ViolationIsSound ==
  ASSUME NEW x, Shape(x), Consistent(x), NEW rolling
  PROVE  Sound(x, RecordViolation(x, rolling))
<1> DEFINE z == [x EXCEPT !.violations = Lower(@ + 1, ViolationLimit)]
<1>1. SameProcess(x, z)
  BY SmallValues DEF SameProcess, Shape, NoNews
<1>2. RecordViolation(x, rolling) \in {z, BeginFailure(z, "protocol_violation")}
  BY DEF RecordViolation
<1> HIDE DEF z
<1>3. Sound(x, z)
  BY <1>1, SameProcessIsSound
<1>4. Sound(z, BeginFailure(z, "protocol_violation"))
  BY <1>3, SmallValues, FailureIsSound DEF Sound
<1> QED
  BY <1>1, <1>2, <1>3, <1>4, SoundSinceSame

LEMMA ReadyIsSound ==
  ASSUME NEW x, Shape(x), Consistent(x), x.process # "none", x.lc.state # "stopping", NEW rolling
  PROVE  Sound(x, HandleReady(x, rolling))
<1>1. CASE x.ready
  BY <1>1, ViolationIsSound DEF HandleReady
<1>2. CASE ~x.ready
  <2> DEFINE z == [x EXCEPT !.violations = 0, !.ready = TRUE]
             y == Moved(z, Ready(x.lc), "requested")
  <2>1. x.lc.state = "starting"
    BY <1>2 DEF Consistent, ProcessState
  <2>2. Shape(z) /\ z.process = x.process /\ z.contexts_removed = x.contexts_removed /\ z.ready
        /\ z.emitted = x.emitted /\ z.lc = x.lc
    BY SmallValues DEF Shape
  <2> HIDE DEF z
  <2>3. Ready(x.lc) \in LifecycleRecord /\ Ready(x.lc).state = "running"
    BY StateOfReady DEF Shape
  <2>4. Shape(y) /\ y.lc = Ready(x.lc) /\ Alike(z, y)
    BY <2>2, <2>3, Moves
  <2>5. HandleReady(x, rolling) = y
    BY <1>2 DEF HandleReady, z
  <2> HIDE DEF y
  <2>6. Consistent(y)
    BY <2>1, <2>2, <2>3, <2>4 DEF Consistent, Alike, ProcessState
  <2>7. Onward(x, y)
    BY <2>1, <2>2, <2>3, <2>4 DEF Onward, Proceeds, Stage, Alike, NoNews
  <2>8. y.lc.state # "backoff" /\ x.process # "none"
    BY <2>3, <2>4
  <2> QED
    BY <2>4, <2>5, <2>6, <2>7, <2>8 DEF Sound, Quieting
<1> QED
  BY <1>1, <1>2

LEMMA MessageIsSound ==
  ASSUME NEW x, Shape(x), Consistent(x), x.emitted = {}, NEW rolling
  PROVE  Sound(x, HandleMessage(x, rolling))
<1>1. CASE ~x.ready \/ x.lc.state # "running"
  BY <1>1, ViolationIsSound DEF HandleMessage
<1>2. CASE ~(~x.ready \/ x.lc.state # "running")
  <2> DEFINE z == [x EXCEPT !.violations = 0]
  <2>1. SameProcess(x, z) /\ z.emitted = {}
    BY SmallValues DEF SameProcess, Shape, NoNews
  <2>2. HandleMessage(x, rolling) = Emit(z, "message")
    BY <1>2 DEF HandleMessage
  <2> HIDE DEF z
  <2> DEFINE y == Emit(z, "message")
  <2>3. "message" \in Event
    BY DEF Event
  <2>4. Shape(y) /\ y.lc = z.lc /\ y.emitted = {"message"} /\ y.process = z.process
        /\ y.ready = z.ready /\ y.contexts_removed = z.contexts_removed
    BY <2>1, <2>3, Emits DEF SameProcess
  <2> HIDE DEF y
  <2>5. Stage(x) = "running" /\ Stage(y) = "running"
    BY <1>2, <2>1, <2>4 DEF Stage, SameProcess
  <2>6. Consistent(y)
    BY <2>1, <2>4 DEF Consistent, SameProcess
  <2>7. SaysSomething(x, y)
    BY <2>4, <2>5 DEF SaysSomething, News
  <2>8. Quieting(x, y)
    BY <2>1, <2>4 DEF Quieting, SameProcess
  <2> QED
    BY <2>2, <2>4, <2>6, <2>7, <2>8 DEF Sound, Onward, y
<1> QED
  BY <1>1, <1>2

LEMMA ReapingIsSound ==
  ASSUME NEW i, NEW x, Shape(x), Consistent(x), x.process \in ExitedProcess,
         NEW outcome \in SpawnOutcome
  PROVE  Sound(x, HandleReaped(i, Reaped(x), outcome))
<1> DEFINE r == EmitContextRemoval(x)
           cause == EffectiveCause(x.lc, x.process)
           lc == Exited(r.lc, x.process)
           m == Moved(r, lc, cause)
           z == Reaped(x)
           y == HandleReaped(i, z, outcome)
<1> SUFFICES Sound(x, y)
  OBVIOUS
<1>1. /\ Shape(r) /\ r.contexts_removed /\ r.lc = x.lc
      /\ x.contexts_removed => r = x
      /\ ~x.contexts_removed => "contexts_removed" \in r.emitted
  BY RemovesContexts
<1> HIDE DEF r
<1>2. lc \in LifecycleRecord /\ lc.state \in {"stopped", "backoff", "failed"}
  BY <1>1, StateOfExited DEF Shape, StopCause, FailureCause, ExitedProcess
<1> HIDE DEF lc
<1>3. Shape(m) /\ m.lc = lc /\ Alike(r, m)
  BY <1>1, <1>2, Moves
<1>4. z = [m EXCEPT !.process = "none"]
  BY DEF Reaped, r, lc
<1> HIDE DEF m
<1>5. /\ Shape(z) /\ z.lc = lc /\ z.process = "none" /\ z.contexts_removed /\ z.emitted = m.emitted
  BY <1>1, <1>3, <1>4 DEF Shape, ProcessStatus, Alike
<1> HIDE DEF z
<1>6. Consistent(z) /\ Stage(z) = "absent"
  BY <1>2, <1>5 DEF Consistent, ProcessState, Stage
<1>7. Onward(x, z)
  <2>1. CASE x.contexts_removed
    <3>1. Stage(x) = "absent"
      BY <2>1 DEF Consistent, Stage
    <3> QED
      BY <1>1, <1>3, <1>5, <1>6, <2>1, <3>1 DEF Onward, Proceeds, Alike, NoNews
  <2>2. CASE ~x.contexts_removed
    <3>1. "contexts_removed" \in z.emitted
      BY <1>1, <1>3, <1>5, <2>2 DEF Alike, NoNews, News
    <3> QED
      BY <1>6, <3>1 DEF Onward, Removed
  <2> QED
    BY <2>1, <2>2
<1>8. CASE AwaitsReplacement(z)
  <2>1. z.lc.state = "stopped"
    BY <1>8 DEF AwaitsReplacement
  <2>2. y = z
    BY <1>8, <2>1 DEF HandleReaped
  <2> QED
    BY <1>5, <1>6, <1>7, <2>1, <2>2 DEF Sound, Quieting
<1>9. CASE ~AwaitsReplacement(z) /\ z.lc.state = "stopped" /\ z.restart_after_stop /\ ~global_shutdown
  <2>1. y = StartExisting(i, [z EXCEPT !.restart_after_stop = FALSE], outcome)
    BY <1>9 DEF HandleReaped
  <2>2. Shape(y) /\ Consistent(y) /\ Onward(z, y)
    BY <1>5, <1>6, <2>1, StartsAfterStop
  <2> HIDE DEF y
  <2>3. Onward(x, y)
    BY <1>6, <1>7, <2>2, Continues
  <2> QED
    BY <1>9, <2>2, <2>3 DEF Sound, Quieting
<1>10. CASE /\ ~(AwaitsReplacement(z) \/ (z.lc.state = "stopped" /\ z.restart_after_stop /\ ~global_shutdown))
            /\ z.lc.state = "backoff" /\ global_shutdown
  <2>1. y = Moved(z, Stop(z.lc), "requested")
    BY <1>10 DEF HandleReaped
  <2>2. Stop(z.lc) \in LifecycleRecord /\ Stop(z.lc).state = "stopped"
    BY <1>5, <1>10, StateOfStop DEF Shape
  <2>3. Shape(y) /\ y.lc.state = "stopped" /\ Alike(z, y)
    BY <1>5, <2>1, <2>2, Moves
  <2> HIDE DEF y
  <2>4. Consistent(y) /\ Stage(y) = "absent"
    BY <1>5, <2>3 DEF Consistent, Alike, ProcessState, Stage
  <2>5. Onward(x, y)
    BY <1>6, <1>7, <2>3, <2>4, Continues DEF Onward, Proceeds, Alike
  <2> QED
    BY <1>5, <2>3, <2>4, <2>5 DEF Sound, Quieting, Alike
<1>11. CASE /\ ~(AwaitsReplacement(z) \/ (z.lc.state = "stopped" /\ z.restart_after_stop /\ ~global_shutdown))
            /\ ~(z.lc.state = "backoff" /\ global_shutdown)
  <2>1. y = z
    BY <1>11 DEF HandleReaped
  <2> QED
    BY <1>5, <1>6, <1>7, <1>11, <2>1 DEF Sound, Quieting
<1> QED
  BY <1>8, <1>9, <1>10, <1>11

--------------------------------------------------------------------------------
(* What an operation keeps: the definition that an instance has, the one that it is *)
(* to be replaced with, a restart until its report, and the room that it takes.     *)

Tracks(x, y) ==
  /\ x.emitted \subseteq y.emitted
  /\ x.restart_pending => y.restart_pending \/ "restart_completed" \in y.emitted

Keeps(x, y) == y.version = x.version /\ y.replacement = x.replacement /\ Tracks(x, y)

\* An instance that becomes active finds room.
Handled(room, x, y) == Keeps(x, y) /\ (IsActive(y) => IsActive(x) \/ room)

LEMMA KeepsOn ==
  ASSUME NEW x, NEW y, NEW z, Keeps(x, z), Keeps(z, y)
  PROVE  Keeps(x, y)
  BY DEF Keeps, Tracks

LEMMA HandledOn ==
  ASSUME NEW x, NEW y, NEW z, NEW room, Handled(room, x, z), Handled(room, z, y)
  PROVE  Handled(room, x, y)
  BY KeepsOn DEF Handled

LEMMA HandledAnyway ==
  ASSUME NEW x, NEW y, NEW room, Handled(FALSE, x, y)
  PROVE  Handled(room, x, y)
  BY DEF Handled

LEMMA EmitKeeps ==
  ASSUME NEW x, Shape(x), NEW event
  PROVE  Keeps(x, Emit(x, event))
  BY DEF Keeps, Tracks, Emit, Shape

LEMMA CompleteKeeps ==
  ASSUME NEW x, Shape(x)
  PROVE  Keeps(x, CompleteRestart(x))
<1> DEFINE z == [x EXCEPT !.restart_pending = FALSE]
<1>1. /\ z.version = x.version /\ z.replacement = x.replacement /\ z.emitted = x.emitted
      /\ Emit(z, "restart_completed").version = z.version
      /\ Emit(z, "restart_completed").replacement = z.replacement
      /\ Emit(z, "restart_completed").emitted = z.emitted \cup {"restart_completed"}
  BY DEF Shape, Emit
<1> QED
  BY <1>1 DEF CompleteRestart, Keeps, Tracks

LEMMA MoveKeeps ==
  ASSUME NEW x, Shape(x), NEW next \in LifecycleRecord, NEW cause
  PROVE  Keeps(x, Moved(x, next, cause))
<1> DEFINE z == [x EXCEPT !.lc = next]
<1>1. Shape(z) /\ Keeps(x, z)
  BY DEF Shape, Keeps, Tracks
<1>2. Moved(x, next, cause) \in {z, CompleteRestart(z)}
  BY DEF Moved
<1> HIDE DEF z
<1> QED
  BY <1>1, <1>2, CompleteKeeps, KeepsOn

LEMMA RemovalKeeps ==
  ASSUME NEW x, Shape(x)
  PROVE  Keeps(x, EmitContextRemoval(x))
<1> DEFINE z == [x EXCEPT !.contexts_removed = TRUE]
<1>1. Shape(z) /\ Keeps(x, z) /\ Keeps(x, x)
  BY DEF Shape, Keeps, Tracks
<1>2. EmitContextRemoval(x) \in {x, Emit(z, "contexts_removed")}
  BY DEF EmitContextRemoval
<1> HIDE DEF z
<1> QED
  BY <1>1, <1>2, EmitKeeps, KeepsOn

LEMMA MoveAfterRemovalKeeps ==
  ASSUME NEW x, Shape(x), NEW next \in LifecycleRecord, NEW cause
  PROVE  /\ Keeps(x, Moved(EmitContextRemoval(x), next, cause))
         /\ Moved(EmitContextRemoval(x), next, cause).lc = next
  BY RemovesContexts, RemovalKeeps, MoveKeeps, Moves, KeepsOn

LEMMA FailureIsHandled ==
  ASSUME NEW x, Shape(x), NEW cause \in FailureCause
  PROVE  Handled(FALSE, x, BeginFailure(x, cause))
<1>1. CASE CanFail(x.lc, cause)
  <2>1. Fail(x.lc, cause) \in LifecycleRecord
    BY StateOfFail DEF Shape
  <2>2. Keeps(x, BeginFailure(x, cause))
    BY <1>1, <2>1, MoveAfterRemovalKeeps DEF BeginFailure
  <2>3. IsActive(x)
    BY <1>1 DEF CanFail, IsActive, ProcessState
  <2> QED
    BY <2>2, <2>3 DEF Handled
<1>2. CASE ~CanFail(x.lc, cause)
  BY <1>2 DEF BeginFailure, Handled, Keeps, Tracks
<1> QED
  BY <1>1, <1>2

LEMMA SpawnKeeps ==
  ASSUME NEW x, Shape(x), NEW outcome \in SpawnOutcome
  PROVE  Keeps(x, Spawn(x, outcome))
<1> DEFINE fresh == [x EXCEPT !.ready = FALSE, !.violations = 0, !.contexts_removed = FALSE,
                              !.eof_for = Unset]
           alive == [fresh EXCEPT !.process = "alive"]
           removed == EmitContextRemoval(fresh)
           lc == Exited(removed.lc, "spawn_error")
<1>1. Shape(fresh) /\ Keeps(x, fresh)
  BY SmallValues DEF Shape, Keeps, Tracks
<1> HIDE DEF fresh
<1>2. Shape(alive) /\ Keeps(fresh, alive)
  BY <1>1 DEF Shape, Keeps, Tracks, ProcessStatus
<1> HIDE DEF alive
<1>3. lc \in LifecycleRecord
  BY <1>1, RemovesContexts, StateOfExited DEF Shape, StopCause, FailureCause
<1>4. Spawn(x, outcome) \in {Moved(removed, lc, "spawn_error"), BeginFailure(alive, "unresponsive"), alive}
  BY Outcomes DEF Spawn, fresh, alive
<1> HIDE DEF lc
<1>5. Keeps(fresh, Moved(removed, lc, "spawn_error"))
  BY <1>1, <1>3, MoveAfterRemovalKeeps
<1>6. Keeps(alive, BeginFailure(alive, "unresponsive"))
  BY <1>2, SmallValues, FailureIsHandled DEF Handled
<1> HIDE DEF removed
<1> QED
  BY <1>1, <1>2, <1>4, <1>5, <1>6, KeepsOn

LEMMA StartKeeps ==
  ASSUME NEW x, Shape(x), NEW outcome \in SpawnOutcome
  PROVE  Keeps(x, Started(x, outcome))
<1>1. Start(x.lc) \in LifecycleRecord
  BY StateOfStart DEF Shape
<1> QED
  BY <1>1, Moves, MoveKeeps, SpawnKeeps, KeepsOn DEF Started

LEMMA StartExistingIsHandled ==
  ASSUME NEW i, NEW x, Shape(x), NEW outcome \in SpawnOutcome
  PROVE  Handled(HasCapacity(Without(i)), x, StartExisting(i, x, outcome))
<1>1. CASE global_shutdown \/ ~HasCapacity(Without(i)) \/ ~CanStart(x.lc)
  <2>1. StartExisting(i, x, outcome) = CompleteRestart(x)
    BY <1>1 DEF StartExisting
  <2> QED
    BY <2>1, CompleteKeeps, CompletesRestart DEF Handled, IsActive
<1>2. CASE ~(global_shutdown \/ ~HasCapacity(Without(i)) \/ ~CanStart(x.lc))
  <2>1. StartExisting(i, x, outcome) = Started(x, outcome)
    BY <1>2 DEF StartExisting
  <2> QED
    BY <1>2, <2>1, StartKeeps DEF Handled
<1> QED
  BY <1>1, <1>2

LEMMA StopRequestIsHandled ==
  ASSUME NEW x, Shape(x)
  PROVE  Handled(FALSE, x, StopRequested(x))
<1>1. /\ Stop(x.lc) \in LifecycleRecord
      /\ Stop(x.lc).state = IF x.lc.state \in {"starting", "running"} THEN "stopping" ELSE "stopped"
  BY StateOfStop DEF Shape
<1>2. CASE x.lc.state \in {"stopping", "stopped"}
  BY <1>2 DEF StopRequested, Handled, Keeps, Tracks
<1>3. CASE x.lc.state \in {"starting", "running"}
  <2>1. EmitContextRemoval(x).lc = x.lc
    BY RemovesContexts
  <2>2. StopRequested(x) = Moved(EmitContextRemoval(x), Stop(x.lc), "requested")
    BY <1>3, <2>1 DEF StopRequested
  <2>3. IsActive(x)
    BY <1>3 DEF IsActive, ProcessState
  <2> QED
    BY <1>1, <2>2, <2>3, MoveAfterRemovalKeeps DEF Handled
<1>4. CASE x.lc.state \notin {"starting", "running", "stopping", "stopped"}
  <2>1. StopRequested(x) = Moved(x, Stop(x.lc), "requested")
    BY <1>4 DEF StopRequested
  <2>2. StopRequested(x).lc.state = "stopped"
    BY <1>1, <1>4, <2>1, Moves
  <2> QED
    BY <1>1, <2>1, <2>2, MoveKeeps DEF Handled, IsActive, ProcessState
<1> QED
  BY <1>2, <1>3, <1>4

LEMMA StartAfterStopIsHandled ==
  ASSUME NEW i, NEW x, Shape(x), NEW outcome \in SpawnOutcome
  PROVE  Handled(HasCapacity(Without(i)), x,
                 StartExisting(i, [x EXCEPT !.restart_after_stop = FALSE], outcome))
<1> DEFINE z == [x EXCEPT !.restart_after_stop = FALSE]
<1>1. Shape(z) /\ Handled(HasCapacity(Without(i)), x, z)
  BY DEF Shape, Handled, Keeps, Tracks, IsActive
<1> HIDE DEF z
<1>2. Handled(HasCapacity(Without(i)), z, StartExisting(i, z, outcome))
  BY <1>1, StartExistingIsHandled
<1> QED
  BY <1>1, <1>2, HandledOn DEF z

LEMMA HandleStopIsHandled ==
  ASSUME NEW i, NEW x, Shape(x), Consistent(x), NEW outcome \in SpawnOutcome
  PROVE  Handled(HasCapacity(Without(i)), x, HandleStop(i, x, outcome))
<1> DEFINE stopped == StopRequested(x)
           started == StartExisting(i, [stopped EXCEPT !.restart_after_stop = FALSE], outcome)
<1>1. Shape(stopped) /\ Handled(HasCapacity(Without(i)), x, stopped)
  BY StopRequestIsSound, StopRequestIsHandled, HandledAnyway DEF Sound
<1>2. HandleStop(i, x, outcome) \in {stopped, started}
  BY DEF HandleStop
<1> HIDE DEF stopped
<1>3. Handled(HasCapacity(Without(i)), stopped, started)
  BY <1>1, StartAfterStopIsHandled
<1> HIDE DEF started
<1> QED
  BY <1>1, <1>2, <1>3, HandledOn

\* A restart that is accepted is either pending or reported at once.
LEMMA HandleRestartIsHandled ==
  ASSUME NEW i, NEW x, Shape(x), Consistent(x), NEW outcome \in SpawnOutcome
  PROVE  LET y == HandleRestart(i, x, outcome)
         IN  /\ Handled(HasCapacity(Without(i)), x, y)
             /\ y.restart_pending \/ "restart_completed" \in y.emitted
<1> DEFINE room == HasCapacity(Without(i))
           z == [x EXCEPT !.restart_pending = TRUE, !.lc = ResetForExplicitRestart(@)]
           w == [z EXCEPT !.restart_after_stop = TRUE]
           m == Moved(z, Stop(z.lc), "requested")
           y == HandleRestart(i, x, outcome)
<1>1. CASE x.restart_pending
  <2>1. y = Emit(x, "restart_completed")
    BY <1>1 DEF HandleRestart
  <2>2. "restart_completed" \in Event
    BY DEF Event
  <2>3. y.lc = x.lc /\ y.emitted = x.emitted \cup {"restart_completed"}
    BY <2>1, <2>2, Emits
  <2>4. Keeps(x, y)
    BY <2>1, EmitKeeps
  <2> HIDE DEF y
  <2> QED
    BY <2>3, <2>4 DEF Handled, IsActive, y
<1>2. CASE ~x.restart_pending
  <2>1. ResetForExplicitRestart(x.lc) \in LifecycleRecord
        /\ ResetForExplicitRestart(x.lc).state = x.lc.state
    BY StateOfReset DEF Shape
  <2>2. /\ Shape(z) /\ Handled(room, x, z) /\ z.restart_pending /\ z.lc.state = x.lc.state
        /\ z.process = x.process /\ z.contexts_removed = x.contexts_removed /\ z.ready = x.ready
    BY <1>2, <2>1 DEF Shape, Handled, Keeps, Tracks, IsActive
  <2> HIDE DEF z
  <2>3. /\ Shape(w) /\ Handled(room, z, w) /\ w.restart_pending /\ w.lc = z.lc
        /\ w.process = z.process /\ w.contexts_removed = z.contexts_removed /\ w.ready = z.ready
    BY <2>2 DEF Shape, Handled, Keeps, Tracks, IsActive
  <2> HIDE DEF w
  <2>4. Consistent(w)
    BY <2>2, <2>3 DEF Consistent
  <2>5. Handled(room, w, HandleStop(i, w, outcome))
    BY <2>3, <2>4, HandleStopIsHandled
  <2>6. Handled(room, z, StartExisting(i, z, outcome))
    BY <2>2, StartExistingIsHandled
  <2>7. CASE z.lc.state = "backoff"
    <3>1. y = StartExisting(i, m, outcome)
      BY <1>2, <2>7 DEF HandleRestart, z
    <3>2. Stop(z.lc) \in LifecycleRecord /\ Stop(z.lc).state = "stopped"
      BY <2>2, <2>7, StateOfStop DEF Shape
    <3>3. Shape(m) /\ Keeps(z, m) /\ IsActive(z)
      BY <2>2, <2>7, <3>2, Moves, MoveKeeps DEF IsActive
    <3> HIDE DEF m, y
    <3>4. Handled(room, z, m) /\ Handled(room, m, y)
      BY <3>1, <3>3, StartExistingIsHandled DEF Handled
    <3>5. Handled(room, z, y)
      BY <3>4, HandledOn
    <3>6. Handled(room, x, y)
      BY <2>2, <3>5, HandledOn
    <3> QED
      BY <2>2, <3>5, <3>6 DEF Handled, Keeps, Tracks, y
  <2>8. CASE z.lc.state \in {"failed", "stopped"}
    <3>1. y = StartExisting(i, z, outcome)
      BY <1>2, <2>8 DEF HandleRestart, z
    <3> HIDE DEF y
    <3>2. Handled(room, x, y)
      BY <2>2, <2>6, <3>1, HandledOn
    <3> QED
      BY <2>2, <2>6, <3>1, <3>2 DEF Handled, Keeps, Tracks, y
  <2>9. CASE z.lc.state \notin {"failed", "stopped", "backoff"}
    <3>1. y = HandleStop(i, w, outcome)
      BY <1>2, <2>9 DEF HandleRestart, z, w
    <3> HIDE DEF y
    <3>2. Handled(room, x, w)
      BY <2>2, <2>3, HandledOn
    <3>3. Handled(room, x, y)
      BY <2>5, <3>1, <3>2, HandledOn
    <3> QED
      BY <2>3, <2>5, <3>1, <3>3 DEF Handled, Keeps, Tracks, y
  <2> QED
    BY <2>7, <2>8, <2>9
<1> QED
  BY <1>1, <1>2

LEMMA CancelTracks ==
  ASSUME NEW x, Shape(x), NEW version \in Versions \cup {NoVersion}
  PROVE  LET y == [CancelRestart(x) EXCEPT !.replacement = version]
         IN  /\ Tracks(x, y) /\ y.version = x.version /\ y.replacement = version
             /\ IsActive(y) = IsActive(x)
<1> DEFINE z == [x EXCEPT !.restart_after_stop = FALSE]
           c == CompleteRestart(z)
<1>1. Shape(z) /\ Keeps(x, z) /\ z.lc = x.lc
  BY DEF Shape, Keeps, Tracks
<1> HIDE DEF z
<1>2. Shape(c) /\ Keeps(x, c) /\ c.lc = x.lc
  BY <1>1, CompletesRestart, CompleteKeeps, KeepsOn
<1>3. CancelRestart(x) = c
  BY DEF CancelRestart, z
<1> HIDE DEF c
<1> QED
  BY <1>2, <1>3 DEF Keeps, Tracks, Shape, IsActive

LEMMA SignalIsHandled ==
  ASSUME NEW x, Shape(x), NEW delivered
  PROVE  Handled(FALSE, x, SendDueSignal(x, delivered))
<1> DEFINE lc == SignalSent(x.lc, DueSignal(x.lc))
           process == IF x.process = "alive" /\ DueSignal(x.lc) = "kill" /\ delivered
                      THEN "killed" ELSE x.process
           y == [x EXCEPT !.lc = lc, !.process = process]
<1>1. SendDueSignal(x, delivered) \in {x, y}
  BY DEF SendDueSignal
<1>2. Keeps(x, y) /\ Keeps(x, x)
  <2> HIDE DEF lc, process
  <2> QED
    BY DEF Shape, Keeps, Tracks
<1>3. SendDueSignal(x, delivered).lc.state = x.lc.state
  BY SignalsKeepProcess
<1> HIDE DEF y
<1> QED
  BY <1>1, <1>2, <1>3 DEF Handled, IsActive

LEMMA AdvancedIsHandled ==
  ASSUME NEW x, Shape(x), Consistent(x), NEW outcome \in SpawnOutcome, NEW delivered
  PROVE  Handled(FALSE, x, Advanced(x, outcome, delivered))
<1> DEFINE next == Tick(x.lc)
           ticked == CASE HandshakeExpired(x.lc) ->
                            Moved(EmitContextRemoval(x), next, "handshake_timeout")
                       [] BackoffElapsed(x.lc) -> Spawn(Moved(x, next, "requested"), outcome)
                       [] OTHER -> [x EXCEPT !.lc = next]
<1>1. /\ next \in LifecycleRecord
      /\ next.state = CASE HandshakeExpired(x.lc) -> "stopping"
                        [] BackoffElapsed(x.lc) -> "starting"
                        [] OTHER -> x.lc.state
  BY StateOfTick DEF Shape
<1> HIDE DEF next
<1>2. Shape(ticked) /\ Handled(FALSE, x, ticked)
  <2>1. CASE HandshakeExpired(x.lc)
    <3>1. ~BackoffElapsed(x.lc) /\ IsActive(x)
      BY <2>1 DEF HandshakeExpired, BackoffElapsed, IsActive, ProcessState
    <3>2. ticked = Moved(EmitContextRemoval(x), next, "handshake_timeout")
      BY <2>1, <3>1
    <3> QED
      BY <1>1, <3>1, <3>2, RemovesContexts, Moves, MoveAfterRemovalKeeps DEF Handled
  <2>2. CASE BackoffElapsed(x.lc) /\ ~HandshakeExpired(x.lc)
    <3> DEFINE z == Moved(x, next, "requested")
    <3>1. ticked = Spawn(z, outcome) /\ IsActive(x)
      BY <2>2 DEF BackoffElapsed, IsActive
    <3>2. Shape(z) /\ Keeps(x, z) /\ z.lc = next /\ z.process = x.process
      BY <1>1, Moves, MoveKeeps DEF Alike
    <3>3. z.process = "none" /\ z.lc.state = "starting"
      BY <1>1, <2>2, <3>2 DEF BackoffElapsed, Consistent, ProcessState
    <3> HIDE DEF z, ticked
    <3>4. Keeps(x, ticked)
      BY <3>1, <3>2, SpawnKeeps, KeepsOn
    <3>5. Shape(ticked)
      BY <3>1, <3>2, <3>3, Spawns
    <3> QED
      BY <3>1, <3>4, <3>5 DEF Handled
  <2>3. CASE ~HandshakeExpired(x.lc) /\ ~BackoffElapsed(x.lc)
    BY <1>1, <2>3 DEF Shape, Handled, Keeps, Tracks, IsActive
  <2> QED
    BY <2>1, <2>2, <2>3
<1>3. Advanced(x, outcome, delivered) = SendDueSignal(ticked, delivered)
  BY DEF Advanced, next
<1> HIDE DEF ticked
<1>4. Handled(FALSE, ticked, SendDueSignal(ticked, delivered))
  BY <1>2, SignalIsHandled
<1>5. Handled(FALSE, x, SendDueSignal(ticked, delivered))
  BY <1>2, <1>4, HandledOn
<1> QED
  BY <1>3, <1>5

LEMMA ViolationIsHandled ==
  ASSUME NEW x, Shape(x), NEW rolling
  PROVE  Handled(FALSE, x, RecordViolation(x, rolling))
<1> DEFINE z == [x EXCEPT !.violations = Lower(@ + 1, ViolationLimit)]
<1>1. Shape(z) /\ Handled(FALSE, x, z)
  BY SmallValues DEF Shape, Handled, Keeps, Tracks, IsActive
<1>2. RecordViolation(x, rolling) \in {z, BeginFailure(z, "protocol_violation")}
  BY DEF RecordViolation
<1> HIDE DEF z
<1>3. Handled(FALSE, z, BeginFailure(z, "protocol_violation"))
  BY <1>1, SmallValues, FailureIsHandled
<1> QED
  BY <1>1, <1>2, <1>3, HandledOn

LEMMA ReadyIsHandled ==
  ASSUME NEW x, Shape(x), Consistent(x), x.process # "none", NEW rolling
  PROVE  Handled(FALSE, x, HandleReady(x, rolling))
<1> DEFINE z == [x EXCEPT !.violations = 0, !.ready = TRUE]
<1>1. Shape(z) /\ Keeps(x, z) /\ z.lc = x.lc
  BY SmallValues DEF Shape, Keeps, Tracks
<1>2. HandleReady(x, rolling) \in {RecordViolation(x, rolling), Moved(z, Ready(x.lc), "requested")}
  BY DEF HandleReady
<1> HIDE DEF z
<1>3. Ready(x.lc) \in LifecycleRecord
  BY StateOfReady DEF Shape
<1>4. Keeps(x, Moved(z, Ready(x.lc), "requested")) /\ IsActive(x)
  BY <1>1, <1>3, MoveKeeps, KeepsOn DEF Consistent, IsActive
<1> QED
  BY <1>2, <1>4, ViolationIsHandled DEF Handled

LEMMA MessageIsHandled ==
  ASSUME NEW x, Shape(x), NEW rolling
  PROVE  Handled(FALSE, x, HandleMessage(x, rolling))
<1> DEFINE z == [x EXCEPT !.violations = 0]
<1>1. Shape(z) /\ Keeps(x, z) /\ z.lc = x.lc
  BY SmallValues DEF Shape, Keeps, Tracks
<1>2. HandleMessage(x, rolling) \in {RecordViolation(x, rolling), Emit(z, "message")}
  BY DEF HandleMessage
<1> HIDE DEF z
<1>3. Keeps(x, Emit(z, "message")) /\ Emit(z, "message").lc = x.lc
  BY <1>1, EmitKeeps, Emits, KeepsOn DEF Event
<1> QED
  BY <1>2, <1>3, ViolationIsHandled DEF Handled, IsActive

LEMMA ReapingIsHandled ==
  ASSUME NEW i, NEW x, Shape(x), Consistent(x), x.process \in ExitedProcess,
         NEW outcome \in SpawnOutcome
  PROVE  Handled(FALSE, x, HandleReaped(i, Reaped(x), outcome))
<1> DEFINE r == EmitContextRemoval(x)
           cause == EffectiveCause(x.lc, x.process)
           lc == Exited(r.lc, x.process)
           m == Moved(r, lc, cause)
           z == Reaped(x)
           y == HandleReaped(i, z, outcome)
<1>1. lc \in LifecycleRecord
  BY RemovesContexts, StateOfExited DEF Shape, StopCause, FailureCause, ExitedProcess
<1>2. z = [m EXCEPT !.process = "none"]
  BY DEF Reaped
<1> HIDE DEF lc, cause
<1>3. Shape(m) /\ Keeps(x, m)
  BY <1>1, RemovesContexts, Moves, MoveAfterRemovalKeeps
<1> HIDE DEF m
<1>4. Shape(z) /\ Keeps(x, z)
  BY <1>2, <1>3 DEF Shape, Keeps, Tracks, ProcessStatus
<1>5. y \in {z, StartExisting(i, [z EXCEPT !.restart_after_stop = FALSE], outcome),
             Moved(z, Stop(z.lc), "requested")}
  BY DEF HandleReaped
<1> HIDE DEF z, y
<1>6. Keeps(z, StartExisting(i, [z EXCEPT !.restart_after_stop = FALSE], outcome))
  BY <1>4, StartAfterStopIsHandled DEF Handled
<1>7. Keeps(z, Moved(z, Stop(z.lc), "requested"))
  <2>1. Stop(z.lc) \in LifecycleRecord
    BY <1>4, StateOfStop DEF Shape
  <2> QED
    BY <1>4, <2>1, MoveKeeps
<1>8. Keeps(x, y)
  BY <1>4, <1>5, <1>6, <1>7, KeepsOn
<1>9. IsActive(x)
  BY DEF Consistent, IsActive, ExitedProcess
<1> QED
  BY <1>8, <1>9 DEF Handled, y, z

--------------------------------------------------------------------------------
(* What a step does to all instances.                                             *)

\* What the thread and its client have before them, of the type it should be.
AgendaInv ==
  /\ global_shutdown \in BOOLEAN /\ phase \in Phase /\ cursor \in Ids
  /\ config \in Configurations
  /\ launching \subseteq {i \in Ids : config[i] # NoVersion}
  /\ pending_starts \in Seq(Ids \X Versions) /\ work \in Seq(Ids)

\* The inductive invariant of the processes and their contexts.
SupervisedInv ==
  /\ \A i \in DOMAIN instances :
       Shape(instances[i]) /\ Consistent(instances[i]) /\ instances[i].emitted = {}
  /\ global_shutdown => \A i \in DOMAIN instances : instances[i].lc.state # "backoff"
  /\ \A i \in published : i \in Ids /\ i \in DOMAIN instances /\ instances[i].lc.state = "running"
  /\ AgendaInv

LEMMA ConfiguredVersion ==
  ASSUME SupervisedInv, NEW i \in Ids
  PROVE  config[i] \in Versions \cup {NoVersion}
  BY SupervisorAssumption DEF SupervisedInv, AgendaInv

StageIn(known, i) == IF i \in DOMAIN known THEN Stage(known[i]) ELSE "absent"

\* What a module may go through from one step to the next, with what is emitted.
Follows(before, after, emitted) ==
  \/ /\ emitted \cap News = {}
     /\ \/ after = before
        \/ before = "absent" /\ after = "starting"
        \/ before = "starting" /\ after = "running"
  \/ "contexts_removed" \in emitted /\ after \in {"absent", "starting"}
  \/ before = "running" /\ after = "running" /\ emitted \cap News = {"message"}

\* What the application sees of it.
Heard(before, after, was, is) ==
  \/ after = before /\ (is <=> was)
  \/ before = "running" /\ after = "running" /\ is
  \/ ~is /\ \/ after \in {"absent", "starting"}
            \/ before = "starting" /\ after = "running"

\* What becomes of the contexts of i.
Publishes(i, emitted) ==
  published' \in IF "contexts_removed" \in emitted THEN {published \ {i}}
                 ELSE IF "message" \in emitted THEN {published, published \cup {i}} ELSE {published}

PromiseKept ==
  \A i \in Ids : Heard(StageIn(instances, i), StageIn(instances', i), i \in published, i \in published')

NothingSpawned == global_shutdown => Processes(instances') \subseteq Processes(instances)

SoundStep ==
  /\ \A i \in DOMAIN instances' :
       Shape(instances'[i]) /\ Consistent(instances'[i]) /\ instances'[i].emitted = {}
  /\ global_shutdown' => \A i \in DOMAIN instances' : instances'[i].lc.state # "backoff"
  /\ \A i \in published' : i \in Ids /\ i \in DOMAIN instances' /\ instances'[i].lc.state = "running"
  /\ published' \subseteq Ids
  /\ PromiseKept /\ NothingSpawned

LEMMA OnwardFollows ==
  ASSUME NEW x, NEW y, x.emitted = {}, Onward(x, y)
  PROVE  Follows(Stage(x), Stage(y), y.emitted)
  BY DEF Onward, Proceeds, Removed, SaysSomething, Follows, NoNews, News

LEMMA Delivers ==
  ASSUME NEW y, Shape(y), Consistent(y)
  PROVE  LET z == [y EXCEPT !.emitted = {}]
         IN  /\ Shape(z) /\ Consistent(z) /\ z.emitted = {} /\ Stage(z) = Stage(y)
             /\ z.lc = y.lc /\ z.process = y.process
<1> DEFINE z == [y EXCEPT !.emitted = {}]
<1>1. /\ Shape(z) /\ z.lc = y.lc /\ z.process = y.process /\ z.ready = y.ready
      /\ z.contexts_removed = y.contexts_removed /\ z.emitted = {}
  BY DEF Shape
<1> HIDE DEF z
<1>2. Consistent(z) /\ Stage(z) = Stage(y)
  BY <1>1 DEF Consistent, Stage
<1> QED
  BY <1>1, <1>2 DEF z

LEMMA StageIsRunning ==
  ASSUME NEW known, NEW i
  PROVE  StageIn(known, i) = "running" <=> i \in DOMAIN known /\ known[i].lc.state = "running"
  BY DEF StageIn, Stage

\* A step that changes one instance.
LEMMA OneInstanceIsSound ==
  ASSUME SupervisedInv, NEW i, NEW emitted,
         DOMAIN instances' \ {i} = DOMAIN instances \ {i},
         \A j \in DOMAIN instances \ {i} : instances'[j] = instances[j],
         i \in DOMAIN instances' =>
           /\ Shape(instances'[i]) /\ Consistent(instances'[i]) /\ instances'[i].emitted = {}
           /\ global_shutdown => instances'[i].lc.state # "backoff",
         global_shutdown /\ i \in Processes(instances') => i \in Processes(instances),
         Follows(StageIn(instances, i), StageIn(instances', i), emitted),
         i \in Ids \/ StageIn(instances', i) # "running" \/ "message" \notin emitted,
         Publishes(i, emitted), global_shutdown' = global_shutdown
  PROVE  SoundStep
<1> DEFINE before == StageIn(instances, i)
           after == StageIn(instances', i)
<1>1. i \in published => before = "running"
  BY StageIsRunning DEF SupervisedInv
<1>2. /\ i \in published' => after = "running"
      /\ i \in published' => i \in Ids
      /\ Heard(before, after, i \in published, i \in published')
  <2>1. CASE "contexts_removed" \in emitted
    <3>1. i \notin published'
      BY <2>1 DEF Publishes
    <3>2. after \in {"absent", "starting"}
      BY <2>1 DEF Follows, News
    <3> QED
      BY <3>1, <3>2 DEF Heard
  <2>2. CASE "contexts_removed" \notin emitted /\ "message" \in emitted
    <3>1. published' \in {published, published \cup {i}}
      BY <2>2 DEF Publishes
    <3>2. before = "running" /\ after = "running"
      BY <2>2 DEF Follows, News
    <3>3. i \in Ids
      BY <2>2, <3>2
    <3> QED
      BY <3>1, <3>2, <3>3 DEF Heard
  <2>3. CASE "contexts_removed" \notin emitted /\ "message" \notin emitted
    <3>1. published' = published
      BY <2>3 DEF Publishes
    <3>2. \/ after = before
          \/ before = "absent" /\ after = "starting"
          \/ before = "starting" /\ after = "running"
      BY <2>3 DEF Follows, News
    <3> HIDE DEF before, after
    <3> QED
      BY <1>1, <3>1, <3>2 DEF Heard, SupervisedInv
  <2> QED
    BY <2>1, <2>2, <2>3
<1>3. \A j : j # i =>
        /\ j \in published' <=> j \in published
        /\ j \in DOMAIN instances' <=> j \in DOMAIN instances
        /\ j \in DOMAIN instances => instances'[j] = instances[j]
  <2> TAKE j
  <2> HAVE j # i
  <2>1. j \in published' <=> j \in published
    BY DEF Publishes
  <2>2. j \in DOMAIN instances' \ {i} <=> j \in DOMAIN instances \ {i}
    OBVIOUS
  <2>3. j \in DOMAIN instances' <=> j \in DOMAIN instances
    BY <2>2
  <2> QED
    BY <2>1, <2>3
<1>4. \A j \in published' : j \in Ids /\ j \in DOMAIN instances' /\ instances'[j].lc.state = "running"
  <2> TAKE j \in published'
  <2>1. CASE j = i
    BY <2>1, <1>2, StageIsRunning
  <2>2. CASE j # i
    <3>1. j \in published /\ j \in DOMAIN instances /\ instances'[j] = instances[j]
      BY <2>2, <1>3 DEF SupervisedInv
    <3>2. j \in DOMAIN instances'
      BY <3>1, <2>2, <1>3
    <3> QED
      BY <3>1, <3>2 DEF SupervisedInv
  <2> QED
    BY <2>1, <2>2
<1>5. PromiseKept
  <2> SUFFICES ASSUME NEW j \in Ids
               PROVE  Heard(StageIn(instances, j), StageIn(instances', j),
                            j \in published, j \in published')
    BY DEF PromiseKept
  <2>1. CASE j = i
    BY <2>1, <1>2
  <2>2. CASE j # i
    <3>1. StageIn(instances', j) = StageIn(instances, j)
      BY <2>2, <1>3 DEF StageIn
    <3>2. j \in published' <=> j \in published
      BY <2>2, <1>3
    <3> QED
      BY <3>1, <3>2 DEF Heard
  <2> QED
    BY <2>1, <2>2
<1>6. NothingSpawned
  BY <1>3 DEF NothingSpawned, Processes
<1>7. \A j \in DOMAIN instances' :
        Shape(instances'[j]) /\ Consistent(instances'[j]) /\ instances'[j].emitted = {}
  BY <1>3 DEF SupervisedInv
<1>8. global_shutdown' => \A j \in DOMAIN instances' : instances'[j].lc.state # "backoff"
  BY <1>3 DEF SupervisedInv
<1> QED
  BY <1>4, <1>5, <1>6, <1>7, <1>8 DEF SoundStep

LEMMA DeliveredPublishes ==
  ASSUME NEW i, NEW emitted, Delivered(i, emitted)
  PROVE  Publishes(i, emitted)
  BY DEF Delivered, Publishes

LEMMA UpdateIsSound ==
  ASSUME SupervisedInv, NEW i, i \in DOMAIN instances, NEW y, Sound(instances[i], y),
         i \in Ids \/ Stage(y) # "running",
         instances' = Updated(instances, i, y), Publishes(i, y.emitted),
         global_shutdown' = global_shutdown
  PROVE  SoundStep
<1> DEFINE z == [y EXCEPT !.emitted = {}]
<1>1. instances' = [j \in DOMAIN instances \cup {i} |-> IF j = i THEN z ELSE instances[j]]
  BY DEF Updated
<1>2. /\ Shape(z) /\ Consistent(z) /\ z.emitted = {} /\ Stage(z) = Stage(y)
      /\ z.lc = y.lc /\ z.process = y.process
  BY Delivers DEF Sound
<1> HIDE DEF z
<1>3. /\ DOMAIN instances' = DOMAIN instances /\ instances'[i] = z
      /\ \A j \in DOMAIN instances \ {i} : instances'[j] = instances[j]
  BY <1>1
<1>4. StageIn(instances', i) = Stage(y) /\ StageIn(instances, i) = Stage(instances[i])
  BY <1>2, <1>3 DEF StageIn
<1>5. Follows(StageIn(instances, i), StageIn(instances', i), y.emitted)
  BY <1>4, OnwardFollows DEF Sound, SupervisedInv
<1>6. global_shutdown /\ i \in Processes(instances') => i \in Processes(instances)
  BY <1>2, <1>3 DEF Processes, Sound, Quieting, SupervisedInv
<1>7. global_shutdown => z.lc.state # "backoff"
  BY <1>2 DEF Sound, Quieting, SupervisedInv
<1> QED
  BY <1>2, <1>3, <1>4, <1>5, <1>6, <1>7, OneInstanceIsSound

LEMMA StoreIsSound ==
  ASSUME SupervisedInv, NEW i, i \in DOMAIN instances, NEW y, Sound(instances[i], y),
         i \in Ids \/ Stage(y) # "running",
         Store(i, y), global_shutdown' = global_shutdown
  PROVE  SoundStep
  BY UpdateIsSound, DeliveredPublishes DEF Store

\* `known` is what a step has made of the instances so far: i may have changed, with
\* the events in `earlier`.
Underway(known, i, earlier) ==
  /\ DOMAIN known \ {i} = DOMAIN instances \ {i}
  /\ \A j \in DOMAIN instances \ {i} : known[j] = instances[j]
  /\ i \in DOMAIN known =>
       /\ Shape(known[i]) /\ Consistent(known[i]) /\ known[i].emitted = {}
       /\ global_shutdown => known[i].lc.state # "backoff"
  /\ global_shutdown /\ i \in Processes(known) => i \in Processes(instances)
  /\ Follows(StageIn(instances, i), StageIn(known, i), earlier)
  /\ i \in Ids \/ StageIn(known, i) # "running" \/ "message" \notin earlier

LEMMA UnderwayIsSound ==
  ASSUME SupervisedInv, NEW i, NEW known, NEW earlier, Underway(known, i, earlier),
         instances' = known, Delivered(i, earlier), global_shutdown' = global_shutdown
  PROVE  SoundStep
  BY OneInstanceIsSound, DeliveredPublishes DEF Underway

\* What has not changed, but for an instance without a process that is dropped.
LEMMA DroppingIsUnderway ==
  ASSUME SupervisedInv, NEW i, NEW known, NEW earlier, Underway(known, i, earlier),
         NEW rest, DOMAIN rest = DOMAIN known \ {i}, \A j \in DOMAIN rest : rest[j] = known[j],
         StageIn(known, i) = "absent"
  PROVE  Underway(rest, i, earlier)
<1>1. i \notin DOMAIN rest /\ StageIn(rest, i) = "absent"
  BY DEF StageIn
<1>2. DOMAIN rest \ {i} = DOMAIN instances \ {i}
  BY DEF Underway
<1>3. \A j \in DOMAIN instances \ {i} : rest[j] = instances[j]
  BY <1>2 DEF Underway
<1> QED
  BY <1>1, <1>2, <1>3 DEF Underway, Processes

LEMMA NewInstanceHasShape ==
  ASSUME NEW version \in Versions
  PROVE  /\ Shape(NewInstance(version)) /\ NewInstance(version).process = "none"
         /\ NewInstance(version).emitted = {}
<1> DEFINE lc == NewLifecycle(PolicyOf[version])
<1>1. lc \in LifecycleRecord
  BY StateOfNew, SupervisorAssumption
<1> HIDE DEF lc
<1>2. NewInstance(version) =
        [version |-> version, lc |-> lc, process |-> "none", ready |-> FALSE,
         restart_after_stop |-> FALSE, restart_pending |-> FALSE, replacement |-> NoVersion,
         contexts_removed |-> TRUE, eof_for |-> Unset, violations |-> 0, emitted |-> {}]
  BY DEF NewInstance, lc
<1> QED
  BY <1>1, <1>2, SmallValues DEF Shape, ProcessStatus

LEMMA HandleStartIsSound ==
  ASSUME SupervisedInv, NEW i, NEW version \in Versions, NEW outcome \in SpawnOutcome,
         NEW known, NEW earlier, Underway(known, i, earlier),
         HandleStart(known, i, version, outcome, earlier), global_shutdown' = global_shutdown
  PROVE  SoundStep
<1> DEFINE rest == [j \in DOMAIN known \ {i} |-> known[j]]
           instance == Started(NewInstance(version), outcome)
           rejected == global_shutdown \/ (i \in DOMAIN known /\ IsActive(known[i]))
<1>1. CASE rejected
  <2>1. instances' = known /\ Delivered(i, earlier)
    BY <1>1 DEF HandleStart
  <2> QED
    BY <2>1, UnderwayIsSound
<1>2. ~rejected => StageIn(known, i) = "absent"
  BY DEF IsActive, ProcessState, StageIn, Stage
<1>3. CASE ~rejected /\ ~HasCapacity(rest)
  <2>1. instances' = rest /\ Delivered(i, earlier)
    BY <1>3 DEF HandleStart
  <2>2. Underway(rest, i, earlier)
    BY <1>2, <1>3, DroppingIsUnderway
  <2> QED
    BY <2>1, <2>2, UnderwayIsSound
<1>4. CASE ~rejected /\ HasCapacity(rest)
  <2> DEFINE z == [instance EXCEPT !.emitted = {}]
             emitted == earlier \cup instance.emitted
  <2>1. instances' = Updated(rest, i, instance) /\ Delivered(i, emitted)
    BY <1>4 DEF HandleStart
  <2>2. /\ Shape(instance) /\ Consistent(instance)
        /\ Removed(instance) \/ (Stage(instance) = "starting" /\ instance.emitted \cap News = {})
    BY NewInstanceHasShape, Starts DEF NoNews
  <2>3. ~global_shutdown /\ StageIn(known, i) = "absent"
    BY <1>2, <1>4
  <2>4. Underway(rest, i, earlier)
    BY <2>3, DroppingIsUnderway
  <2> HIDE DEF rejected, instance
  <2>5. /\ Shape(z) /\ Consistent(z) /\ z.emitted = {} /\ Stage(z) = Stage(instance)
    BY <2>2, Delivers
  <2>6. instances' = [j \in DOMAIN rest \cup {i} |-> IF j = i THEN z ELSE rest[j]]
    BY <2>1 DEF Updated
  <2> HIDE DEF z, rest
  <2>7. /\ DOMAIN instances' \ {i} = DOMAIN instances \ {i}
        /\ \A j \in DOMAIN instances \ {i} : instances'[j] = instances[j]
        /\ i \in DOMAIN instances' /\ instances'[i] = z
    BY <2>4, <2>6 DEF Underway
  <2>8. StageIn(instances', i) = Stage(instance) /\ Stage(instance) \in {"absent", "starting"}
    BY <2>2, <2>5, <2>7 DEF StageIn, Removed
  <2>9. Follows(StageIn(instances, i), "absent", earlier)
    BY <2>3 DEF Underway
  <2>10. Follows(StageIn(instances, i), StageIn(instances', i), emitted)
    BY <2>2, <2>8, <2>9 DEF Follows, Removed, News
  <2> HIDE DEF emitted
  <2> QED
    BY <2>1, <2>3, <2>5, <2>7, <2>8, <2>10, OneInstanceIsSound, DeliveredPublishes
<1> QED
  BY <1>1, <1>3, <1>4

LEMMA StartReplacementIsSound ==
  ASSUME SupervisedInv, NEW i, NEW outcome \in SpawnOutcome,
         NEW known, NEW earlier, Underway(known, i, earlier),
         StartReplacement(known, i, outcome, earlier), global_shutdown' = global_shutdown
  PROVE  SoundStep
<1> DEFINE replaces == i \in DOMAIN known /\ Quiescent(known[i]) /\ known[i].replacement # NoVersion
           rest == [j \in DOMAIN known \ {i} |-> known[j]]
<1>1. CASE ~replaces
  BY <1>1, UnderwayIsSound DEF StartReplacement
<1>2. CASE replaces
  <2>1. HandleStart(rest, i, known[i].replacement, outcome, earlier)
    BY <1>2 DEF StartReplacement
  <2>2. StageIn(known, i) = "absent"
    BY <1>2 DEF Quiescent, StageIn, Stage
  <2>3. Underway(rest, i, earlier)
    BY <2>2, DroppingIsUnderway
  <2>4. known[i].replacement \in Versions
    BY <1>2 DEF Underway, Shape
  <2> QED
    BY <2>1, <2>3, <2>4, HandleStartIsSound
<1> QED
  BY <1>1, <1>2

LEMMA NothingIsUnderway ==
  ASSUME SupervisedInv, NEW i
  PROVE  Underway(instances, i, {})
  BY DEF Underway, SupervisedInv, Follows

\* An instance that has changed within the step.
LEMMA ChangedIsUnderway ==
  ASSUME SupervisedInv, NEW i, i \in DOMAIN instances, NEW y, Sound(instances[i], y),
         i \in Ids \/ Stage(y) # "running"
  PROVE  Underway(Updated(instances, i, y), i, y.emitted)
<1> DEFINE z == [y EXCEPT !.emitted = {}]
           known == Updated(instances, i, y)
<1>1. known = [j \in DOMAIN instances \cup {i} |-> IF j = i THEN z ELSE instances[j]]
  BY DEF Updated
<1>2. /\ Shape(z) /\ Consistent(z) /\ z.emitted = {} /\ Stage(z) = Stage(y)
      /\ z.lc = y.lc /\ z.process = y.process
  BY Delivers DEF Sound
<1> HIDE DEF z, known
<1>3. /\ DOMAIN known = DOMAIN instances /\ known[i] = z
      /\ \A j \in DOMAIN instances \ {i} : known[j] = instances[j]
  BY <1>1
<1>4. StageIn(known, i) = Stage(y) /\ StageIn(instances, i) = Stage(instances[i])
  BY <1>2, <1>3 DEF StageIn
<1>5. Follows(StageIn(instances, i), StageIn(known, i), y.emitted)
  BY <1>4, OnwardFollows DEF Sound, SupervisedInv
<1>6. global_shutdown /\ i \in Processes(known) => i \in Processes(instances)
  BY <1>2, <1>3 DEF Processes, Sound, Quieting, SupervisedInv
<1>7. global_shutdown => z.lc.state # "backoff"
  BY <1>2 DEF Sound, Quieting, SupervisedInv
<1> QED
  BY <1>2, <1>3, <1>4, <1>5, <1>6, <1>7 DEF Underway, known

\* A step that goes over all instances; none starts to speak.
LEMMA AllInstancesAreSound ==
  ASSUME SupervisedInv, NEW known, DOMAIN known = DOMAIN instances,
         \A i \in DOMAIN instances : Sound(instances[i], known[i]),
         StoreAll(known),
         global_shutdown' = global_shutdown \/
           (~global_shutdown /\ \A i \in DOMAIN instances : known[i].lc.state # "backoff")
  PROVE  SoundStep
<1> DEFINE z(i) == [known[i] EXCEPT !.emitted = {}]
<1>1. instances' = [i \in DOMAIN known |-> z(i)]
  BY DEF StoreAll
<1>2. ASSUME NEW i \in DOMAIN instances
      PROVE  /\ Shape(z(i)) /\ Consistent(z(i)) /\ z(i).emitted = {} /\ Stage(z(i)) = Stage(known[i])
             /\ z(i).lc = known[i].lc /\ z(i).process = known[i].process
  BY <1>2, Delivers DEF Sound
<1> HIDE DEF z
<1>3. DOMAIN instances' = DOMAIN instances /\ \A i \in DOMAIN instances : instances'[i] = z(i)
  BY <1>1
<1>4. \A i : i \in published' <=> i \in published /\ ~(i \in DOMAIN known /\ "contexts_removed" \in known[i].emitted)
  BY DEF StoreAll
<1>5. ASSUME NEW i \in DOMAIN instances
      PROVE  Follows(Stage(instances[i]), Stage(known[i]), known[i].emitted)
  BY <1>5, OnwardFollows DEF Sound, SupervisedInv
<1>6. \A i \in published' : i \in Ids /\ i \in DOMAIN instances' /\ instances'[i].lc.state = "running"
  <2> TAKE i \in published'
  <2>1. i \in Ids /\ i \in DOMAIN instances /\ instances[i].lc.state = "running"
        /\ "contexts_removed" \notin known[i].emitted
    BY <1>4 DEF SupervisedInv
  <2>2. Stage(instances[i]) = "running"
    BY <2>1 DEF Stage
  <2>3. Stage(known[i]) = "running"
    BY <1>5, <2>1, <2>2 DEF Follows
  <2> QED
    BY <1>2, <1>3, <2>1, <2>3 DEF Stage
<1>7. PromiseKept
  <2> SUFFICES ASSUME NEW i \in Ids
               PROVE  Heard(StageIn(instances, i), StageIn(instances', i),
                            i \in published, i \in published')
    BY DEF PromiseKept
  <2>1. CASE i \notin DOMAIN instances
    BY <1>3, <1>4, <2>1 DEF StageIn, Heard
  <2>2. CASE i \in DOMAIN instances
    <3>1. StageIn(instances, i) = Stage(instances[i]) /\ StageIn(instances', i) = Stage(known[i])
      BY <1>2, <1>3, <2>2 DEF StageIn
    <3>2. Follows(Stage(instances[i]), Stage(known[i]), known[i].emitted)
      BY <1>5, <2>2
    <3>3. i \in published => Stage(instances[i]) = "running"
      BY <2>2 DEF SupervisedInv, Stage
    <3>4. i \in published' <=> i \in published /\ "contexts_removed" \notin known[i].emitted
      BY <1>4, <2>2
    <3> QED
      BY <3>1, <3>2, <3>3, <3>4 DEF Heard, Follows, News
  <2> QED
    BY <2>1, <2>2
<1>8. NothingSpawned
  BY <1>2, <1>3 DEF NothingSpawned, Processes, Sound, Quieting, SupervisedInv
<1>9. global_shutdown' => \A i \in DOMAIN instances' : instances'[i].lc.state # "backoff"
  BY <1>2, <1>3 DEF Sound, Quieting, SupervisedInv
<1>10. \A i \in DOMAIN instances' :
         Shape(instances'[i]) /\ Consistent(instances'[i]) /\ instances'[i].emitted = {}
  BY <1>2, <1>3
<1> QED
  BY <1>6, <1>7, <1>8, <1>9, <1>10 DEF SoundStep

--------------------------------------------------------------------------------
(* The steps of the thread.                                                       *)

LEMMA QuietStepIsSound ==
  ASSUME SupervisedInv, UNCHANGED <<instances, published, global_shutdown>>
  PROVE  SoundStep
<1>1. PromiseKept /\ NothingSpawned
  BY DEF PromiseKept, NothingSpawned, Heard
<1> QED
  BY <1>1 DEF SupervisedInv, SoundStep

LEMMA CommandIsSound ==
  ASSUME SupervisedInv, NEW i \in Ids, Command(i)
  PROVE  SoundStep
<1>1. CASE StartCommand(i)
  <2>1. PICK outcome \in SpawnOutcome : HandleStart(instances, i, config[i], outcome, {})
    BY <1>1 DEF StartCommand
  <2>2. global_shutdown' = global_shutdown
    BY <1>1 DEF StartCommand
  <2>3. config[i] \in Versions
    BY <1>1, ConfiguredVersion DEF StartCommand, SupervisedInv, AgendaInv
  <2> QED
    BY <2>1, <2>2, <2>3, NothingIsUnderway, HandleStartIsSound
<1>2. CASE StopCommand(i)
  <2>1. PICK outcome \in SpawnOutcome : Store(i, HandleStop(i, instances[i], outcome))
    BY <1>2 DEF StopCommand
  <2>2. i \in DOMAIN instances /\ global_shutdown' = global_shutdown
    BY <1>2 DEF StopCommand
  <2>3. Sound(instances[i], HandleStop(i, instances[i], outcome))
    BY <2>2, HandleStopIsSound DEF SupervisedInv
  <2> QED
    BY <2>1, <2>2, <2>3, StoreIsSound
<1>3. CASE RestartCommand(i)
  <2>1. PICK outcome \in SpawnOutcome :
          LET instance == HandleRestart(i, instances[i], outcome)
          IN  /\ instances' = Updated(instances, i, instance)
              /\ published' = IF "contexts_removed" \in instance.emitted
                              THEN published \ {i} ELSE published
              /\ pending_restarts' = IF "restart_completed" \in instance.emitted
                                     THEN pending_restarts ELSE pending_restarts \cup {i}
    BY <1>3 DEF RestartCommand
  <2> DEFINE y == HandleRestart(i, instances[i], outcome)
  <2>2. i \in DOMAIN instances /\ global_shutdown' = global_shutdown
    BY <1>3 DEF RestartCommand
  <2>3. Sound(instances[i], y)
    BY <2>2, HandleRestartIsSound DEF SupervisedInv
  <2>4. instances' = Updated(instances, i, y) /\ Publishes(i, y.emitted)
    BY <2>1 DEF Publishes
  <2> QED
    BY <2>2, <2>3, <2>4, UpdateIsSound
<1>4. CASE SendCommand(i)
  <2>1. /\ i \in DOMAIN instances /\ global_shutdown' = global_shutdown
        /\ Store(i, BeginFailure(instances[i], "unresponsive"))
    BY <1>4 DEF SendCommand
  <2>2. Sound(instances[i], BeginFailure(instances[i], "unresponsive"))
    BY <2>1, SmallValues, FailureIsSound DEF SupervisedInv
  <2> QED
    BY <2>1, <2>2, StoreIsSound
<1> QED
  BY <1>1, <1>2, <1>3, <1>4 DEF Command

LEMMA ReconfigureStepIsSound ==
  ASSUME SupervisedInv, ReconfigureStep
  PROVE  SoundStep
<1> DEFINE i == Head(work)
<1>0. i \in Ids
  BY DEF ReconfigureStep, SupervisedInv, AgendaInv
<1>1. global_shutdown' = global_shutdown
  BY DEF ReconfigureStep
<1>2. CASE ReconfigureStop(i)
  <2>1. CASE i \notin DOMAIN instances
    BY <1>1, <1>2, <2>1, QuietStepIsSound DEF ReconfigureStop
  <2>2. CASE i \in DOMAIN instances
    <3> DEFINE z == [CancelRestart(instances[i]) EXCEPT !.replacement = NoVersion]
    <3>1. PICK outcome \in SpawnOutcome : Store(i, HandleStop(i, z, outcome))
      BY <1>2, <2>2 DEF ReconfigureStop
    <3>2. SameProcess(instances[i], z)
      BY <2>2, CancelsRestart DEF SupervisedInv
    <3> HIDE DEF z
    <3> DEFINE y == HandleStop(i, z, outcome)
    <3>3. Shape(z) /\ Consistent(z)
      BY <2>2, <3>2, SameProcessIsSound DEF SupervisedInv, Sound
    <3>4. Sound(instances[i], y) /\ Stage(y) # "running"
      BY <3>2, <3>3, HandleStopIsSound, SoundSinceSame
    <3>5. Store(i, y)
      BY <3>1
    <3> HIDE DEF y
    <3> QED
      BY <1>1, <2>2, <3>4, <3>5, StoreIsSound
  <2> QED
    BY <2>1, <2>2
<1>3. CASE ReconfigureNew(i)
  <2>1. CASE UNCHANGED <<instances, published>>
    BY <1>1, <2>1, QuietStepIsSound
  <2>2. CASE \E outcome \in SpawnOutcome : HandleStart(instances, i, config[i], outcome, {})
    <3>1. config[i] \in Versions
      BY <1>0, <1>3, ConfiguredVersion DEF ReconfigureNew
    <3> QED
      BY <1>1, <2>2, <3>1, NothingIsUnderway, HandleStartIsSound
  <2> QED
    BY <1>3, <2>1, <2>2 DEF ReconfigureNew
<1>4. CASE ReconfigureKnown(i)
  <2> DEFINE z == [CancelRestart(instances[i]) EXCEPT !.replacement = config[i]]
  <2>1. i \in DOMAIN instances
    BY <1>4 DEF ReconfigureKnown
  <2>2. PICK outcome \in SpawnOutcome :
          LET y == HandleStop(i, z, outcome)
          IN  StartReplacement(Updated(instances, i, y), i, outcome, y.emitted)
    BY <1>4 DEF ReconfigureKnown
  <2>3. SameProcess(instances[i], z)
    BY <1>0, <2>1, ConfiguredVersion, CancelsRestart DEF SupervisedInv
  <2> HIDE DEF z
  <2> DEFINE y == HandleStop(i, z, outcome)
  <2>4. Shape(z) /\ Consistent(z)
    BY <2>1, <2>3, SameProcessIsSound DEF SupervisedInv, Sound
  <2>5. Sound(instances[i], y) /\ Stage(y) # "running"
    BY <2>3, <2>4, HandleStopIsSound, SoundSinceSame
  <2>6. StartReplacement(Updated(instances, i, y), i, outcome, y.emitted)
    BY <2>2
  <2> HIDE DEF y
  <2>7. Underway(Updated(instances, i, y), i, y.emitted)
    BY <2>1, <2>5, ChangedIsUnderway
  <2> QED
    BY <1>1, <2>6, <2>7, StartReplacementIsSound
<1> QED
  BY <1>1, <1>2, <1>3, <1>4 DEF ReconfigureStep

LEMMA ShutdownIsSound ==
  ASSUME SupervisedInv, ShutdownCommand
  PROVE  SoundStep
<1> DEFINE known == [i \in DOMAIN instances |-> StopRequested(instances[i])]
<1>1. \A i \in DOMAIN instances :
        Sound(instances[i], known[i]) /\ known[i].lc.state # "backoff"
  BY StopRequestIsSound DEF SupervisedInv
<1>2. ~global_shutdown /\ StoreAll(known)
  BY DEF ShutdownCommand, Accepting
<1>3. DOMAIN known = DOMAIN instances
  OBVIOUS
<1> HIDE DEF known
<1> QED
  BY <1>1, <1>2, <1>3, AllInstancesAreSound

LEMMA AdvanceIsSound ==
  ASSUME SupervisedInv, AdvanceLifecycles
  PROVE  SoundStep
<1>1. PICK outcome \in [DOMAIN instances -> SpawnOutcome],
           delivered \in [DOMAIN instances -> IF "signal" \in Faults THEN BOOLEAN ELSE {TRUE}] :
        StoreAll([i \in DOMAIN instances |-> Advanced(instances[i], outcome[i], delivered[i])])
  BY DEF AdvanceLifecycles
<1> DEFINE known == [i \in DOMAIN instances |-> Advanced(instances[i], outcome[i], delivered[i])]
<1>2. \A i \in DOMAIN instances : Sound(instances[i], known[i])
  BY AdvancedIsSound DEF SupervisedInv
<1>3. StoreAll(known) /\ DOMAIN known = DOMAIN instances
  BY <1>1
<1>4. global_shutdown' = global_shutdown
  BY DEF AdvanceLifecycles
<1> HIDE DEF known
<1> QED
  BY <1>2, <1>3, <1>4, AllInstancesAreSound

LEMMA ServiceIsSound ==
  ASSUME SupervisedInv, NEW i \in Ids, Service(i)
  PROVE  SoundStep
<1>1. i \in DOMAIN instances /\ global_shutdown' = global_shutdown
  BY DEF Service, ServiceLine, ServiceEof, ServiceError
<1>2. Shape(instances[i]) /\ Consistent(instances[i]) /\ instances[i].emitted = {}
  BY <1>1 DEF SupervisedInv
<1>3. CASE ServiceLine(i)
  <2>1. instances[i].process # "none" /\ instances[i].lc.state # "stopping"
    BY <1>3 DEF ServiceLine
  <2>2. PICK rolling \in BOOLEAN :
          \/ Store(i, HandleReady(instances[i], rolling))
          \/ Store(i, HandleMessage(instances[i], rolling))
          \/ Store(i, RecordViolation(instances[i], rolling))
    BY <1>3 DEF ServiceLine
  <2>3. /\ Sound(instances[i], HandleReady(instances[i], rolling))
        /\ Sound(instances[i], HandleMessage(instances[i], rolling))
        /\ Sound(instances[i], RecordViolation(instances[i], rolling))
    BY <1>2, <2>1, ReadyIsSound, MessageIsSound, ViolationIsSound
  <2> QED
    BY <1>1, <2>2, <2>3, StoreIsSound
<1>4. CASE ServiceEof(i)
  <2> DEFINE y == [instances[i] EXCEPT !.eof_for = 0]
  <2>1. SameProcess(instances[i], y)
    BY <1>2, SmallValues DEF SameProcess, Shape, NoNews
  <2>2. Sound(instances[i], y)
    BY <1>2, <2>1, SameProcessIsSound
  <2>3. Store(i, y)
    BY <1>4 DEF ServiceEof
  <2> HIDE DEF y
  <2> QED
    BY <1>1, <2>2, <2>3, StoreIsSound
<1>5. CASE ServiceError(i)
  <2>1. Store(i, BeginFailure(instances[i], "io_error"))
    BY <1>5 DEF ServiceError
  <2>2. Sound(instances[i], BeginFailure(instances[i], "io_error"))
    BY <1>2, SmallValues, FailureIsSound
  <2> QED
    BY <1>1, <2>1, <2>2, StoreIsSound
<1> QED
  BY <1>3, <1>4, <1>5 DEF Service

LEMMA ReapIsSound ==
  ASSUME SupervisedInv, Reap
  PROVE  SoundStep
<1> DEFINE x == instances[cursor]
<1>1. global_shutdown' = global_shutdown /\ cursor \in Ids
  BY DEF Reap, SupervisedInv, AgendaInv
<1>3. CASE NothingToReap(cursor)
  BY <1>1, <1>3, QuietStepIsSound DEF NothingToReap
<1>4. CASE ~NothingToReap(cursor)
  <2>1. cursor \in DOMAIN instances /\ x.process # "none"
    BY <1>4 DEF Reap, ReapExited, ReapAlive, ReapFailed, ExitedProcess
  <2>2. Shape(x) /\ Consistent(x)
    BY <2>1 DEF SupervisedInv
  <2>3. \E y : Store(cursor, y) /\ Sound(x, y)
    <3>1. CASE ReapExited(cursor)
      <4>1. PICK outcome \in SpawnOutcome : Store(cursor, HandleReaped(cursor, Reaped(x), outcome))
            /\ x.process \in ExitedProcess
        BY <3>1 DEF ReapExited
      <4> QED
        BY <2>1, <2>2, <4>1, ReapingIsSound
    <3>2. CASE ReapAlive(cursor)
      <4>1. Sound(x, x)
        BY <2>2 DEF Sound, Onward, Proceeds, NoNews, Quieting
      <4>2. Store(cursor, x) \/ Store(cursor, BeginFailure(x, "io_error"))
        BY <3>2 DEF ReapAlive
      <4> QED
        BY <2>2, <4>1, <4>2, SmallValues, FailureIsSound
    <3>3. CASE ReapFailed(cursor)
      <4>1. Store(cursor, BeginFailure(x, "io_error"))
        BY <3>3 DEF ReapFailed
      <4> QED
        BY <2>2, <4>1, SmallValues, FailureIsSound
    <3> QED
      BY <1>4, <3>1, <3>2, <3>3 DEF Reap
  <2> QED
    BY <1>1, <2>1, <2>3, StoreIsSound
<1> QED
  BY <1>3, <1>4

LEMMA ReplacementsAreSound ==
  ASSUME SupervisedInv, ReplaceReaped \/ StartPending
  PROVE  SoundStep
<1>1. global_shutdown' = global_shutdown
  BY DEF ReplaceReaped, StartPending
<1>2. CASE ReplaceReaped
  BY <1>1, <1>2, NothingIsUnderway, StartReplacementIsSound DEF ReplaceReaped
<1>3. CASE StartPending
  <2>1. Head(pending_starts)[2] \in Versions
    BY <1>3 DEF StartPending, CanStartPending, SupervisedInv, AgendaInv
  <2> QED
    BY <1>1, <1>3, <2>1, NothingIsUnderway, HandleStartIsSound DEF StartPending
<1> QED
  BY <1>2, <1>3

\* A process that exits, and time that passes.
LEMMA ExitIsSound ==
  ASSUME SupervisedInv, NEW i \in Ids, ProcessExits(i)
  PROVE  SoundStep
<1>1. PICK status \in ProcessStatus \ {"none"} :
        instances[i].process # "none" /\ instances' = [instances EXCEPT ![i].process = status]
  BY DEF ProcessExits, ProcessStatus, ExitedProcess
<1>2. /\ i \in DOMAIN instances
      /\ published' = published /\ global_shutdown' = global_shutdown
  BY DEF ProcessExits
<1> DEFINE y == [instances[i] EXCEPT !.process = status]
<1>3. /\ Shape(instances[i]) /\ Consistent(instances[i]) /\ instances[i].emitted = {}
  BY <1>2 DEF SupervisedInv
<1>4. /\ Shape(y) /\ y.lc = instances[i].lc /\ y.process = status /\ y.ready = instances[i].ready
      /\ y.contexts_removed = instances[i].contexts_removed /\ y.emitted = {}
  BY <1>3 DEF Shape
<1>5. /\ DOMAIN instances' = DOMAIN instances /\ instances'[i] = y
      /\ \A j \in DOMAIN instances \ {i} : instances'[j] = instances[j]
  BY <1>1, <1>2
<1> HIDE DEF y
<1>6. Consistent(y) /\ Stage(y) = Stage(instances[i])
  BY <1>1, <1>3, <1>4 DEF Consistent, Stage
<1>7. StageIn(instances', i) = StageIn(instances, i)
  BY <1>2, <1>5, <1>6 DEF StageIn
<1>8. i \in Processes(instances)
  BY <1>1, <1>2 DEF Processes
<1>9. global_shutdown => y.lc.state # "backoff"
  BY <1>2, <1>4 DEF SupervisedInv
<1>10. Follows(StageIn(instances, i), StageIn(instances', i), {}) /\ Publishes(i, {})
  BY <1>2, <1>7 DEF Follows, Publishes
<1> QED
  BY <1>2, <1>4, <1>5, <1>6, <1>8, <1>9, <1>10, OneInstanceIsSound

LEMMA PollIsSound ==
  ASSUME SupervisedInv, Poll
  PROVE  SoundStep
<1>1. PICK time \in {0, 1} : Polled(time)
  BY DEF Poll
<1>2. UNCHANGED <<global_shutdown, published>>
  BY <1>1 DEF Polled
<1>3. CASE time = 0
  BY <1>1, <1>2, <1>3, QuietStepIsSound DEF Polled
<1>4. CASE time = 1
  <2> DEFINE y(i) == [instances[i] EXCEPT !.lc = Elapsed(@), !.eof_for = Older(@, EofGrace)]
  <2>1. instances' = [i \in DOMAIN instances |-> y(i)]
    <3>1. time # 0
      BY <1>4
    <3> QED
      BY <1>1, <3>1, Zenon DEF Polled
  <2>2. ASSUME NEW i \in DOMAIN instances
        PROVE  /\ Shape(y(i)) /\ Consistent(y(i)) /\ y(i).emitted = {}
               /\ y(i).lc.state = instances[i].lc.state /\ y(i).process = instances[i].process
    <3> DEFINE lc == Elapsed(instances[i].lc)
               eof == Older(instances[i].eof_for, EofGrace)
    <3>1. Shape(instances[i]) /\ Consistent(instances[i]) /\ instances[i].emitted = {}
      BY <2>2 DEF SupervisedInv
    <3>2. lc \in LifecycleRecord /\ lc.state = instances[i].lc.state
      BY <3>1, StateOfElapsed DEF Shape
    <3>3. y(i) = [instances[i] EXCEPT !.lc = lc, !.eof_for = eof]
      OBVIOUS
    <3>5. eof \in Span(EofGrace)
      BY <3>1, SupervisorAssumption, OlderInSpan DEF Shape
    <3> HIDE DEF lc, eof, y
    <3>4. /\ Shape(y(i)) /\ y(i).lc = lc /\ y(i).process = instances[i].process
          /\ y(i).ready = instances[i].ready /\ y(i).emitted = {}
          /\ y(i).contexts_removed = instances[i].contexts_removed
      BY <3>1, <3>2, <3>3, <3>5 DEF Shape
    <3> QED
      BY <3>1, <3>2, <3>4 DEF Consistent
  <2> HIDE DEF y
  <2>3. DOMAIN instances' = DOMAIN instances /\ \A i \in DOMAIN instances : instances'[i] = y(i)
    BY <2>1
  <2>4. PromiseKept
    <3>1. \A i \in Ids : StageIn(instances', i) = StageIn(instances, i)
      BY <2>2, <2>3 DEF StageIn, Stage
    <3> QED
      BY <1>2, <3>1 DEF PromiseKept, Heard
  <2>5. NothingSpawned
    BY <2>2, <2>3 DEF NothingSpawned, Processes
  <2> QED
    BY <1>2, <2>2, <2>3, <2>4, <2>5 DEF SoundStep, SupervisedInv
<1> QED
  BY <1>3, <1>4

LEMMA EveryStepIsSound ==
  ASSUME SupervisedInv, [Next]_vars
  PROVE  SoundStep
<1>1. CASE \E i \in Ids : Command(i) \/ Service(i) \/ ProcessExits(i)
  BY <1>1, CommandIsSound, ServiceIsSound, ExitIsSound
<1>2. CASE ReconfigureStep \/ ShutdownCommand \/ AdvanceLifecycles \/ Poll
  BY <1>2, ReconfigureStepIsSound, ShutdownIsSound, AdvanceIsSound, PollIsSound
<1>3. CASE ReplaceReaped \/ StartPending
  BY <1>3, ReplacementsAreSound
<1>4. CASE Reap
  BY <1>4, ReapIsSound
<1>5. CASE ReconfigureCommand \/ CommandsDone \/ ServiceDone \/ ReapDone \/ Done \/ UNCHANGED vars
  <2>1. UNCHANGED <<instances, published, global_shutdown>>
    BY <1>5 DEF ReconfigureCommand, CommandsDone, ServiceDone, ReapDone, Done, vars
  <2> QED
    BY <2>1, QuietStepIsSound
<1> QED
  BY <1>1, <1>2, <1>3, <1>4, <1>5 DEF Next

\* The commands that wait, the ids that a loop still has before it, and where it is.
LEMMA WithoutIsStarts ==
  ASSUME NEW i, pending_starts \in Seq(Ids \X Versions)
  PROVE  WithoutStart(i) \in Seq(Ids \X Versions)
<1> DEFINE queued == {n \in DOMAIN pending_starts : pending_starts[n][1] = i}
           n == CHOOSE n \in queued : TRUE
<1>1. CASE queued = {}
  BY <1>1 DEF WithoutStart
<1>2. CASE queued # {}
  <2>1. n \in 1..Len(pending_starts)
    BY <1>2
  <2>2. WithoutStart(i) = SubSeq(pending_starts, 1, n - 1)
                            \o SubSeq(pending_starts, n + 1, Len(pending_starts))
    BY <1>2 DEF WithoutStart
  <2> HIDE DEF n
  <2>3. /\ SubSeq(pending_starts, 1, n - 1) \in Seq(Ids \X Versions)
        /\ SubSeq(pending_starts, n + 1, Len(pending_starts)) \in Seq(Ids \X Versions)
    BY <2>1, SubSeqProperties
  <2> QED
    BY <2>2, <2>3, ConcatProperties
<1> QED
  BY <1>1, <1>2

LEMMA InOrderIsIds ==
  ASSUME NEW ids \in SUBSET Ids
  PROVE  InOrder(ids) \in Seq(ids) /\ \A i \in ids : \E n \in DOMAIN InOrder(ids) : InOrder(ids)[n] = i
<1> DEFINE below(i) == {j \in ids : j < i}
           at(n) == CHOOSE i \in ids : Cardinality(below(i)) = n - 1
<1>1. IsFiniteSet(ids) /\ Cardinality(ids) \in Nat /\ ids \subseteq Nat
  <2>1. N \in Int /\ ids \in SUBSET (1..N)
    BY SupervisorAssumption DEF Ids
  <2>2. IsFiniteSet(1..N)
    BY <2>1, FS_Interval
  <2>3. IsFiniteSet(ids)
    BY <2>1, <2>2, FS_Subset
  <2>4. ids \subseteq Nat
    BY <2>1
  <2> QED
    BY <2>3, <2>4, FS_CardinalityType
<1>2. ASSUME NEW i \in ids
      PROVE  /\ Cardinality(below(i)) \in Nat /\ Cardinality(below(i)) < Cardinality(ids)
             /\ IsFiniteSet(below(i))
  <2>1. below(i) \in SUBSET ids /\ below(i) # ids
    BY <1>1
  <2> QED
    BY <1>1, <2>1, FS_Subset, FS_CardinalityType
<1>3. ASSUME NEW i \in ids, NEW j \in ids, Cardinality(below(i)) = Cardinality(below(j))
      PROVE  i = j
  <2>1. ASSUME NEW a \in ids, NEW b \in ids, a < b
        PROVE  Cardinality(below(a)) # Cardinality(below(b))
    <3>1. a \in Nat /\ b \in Nat /\ \A k \in ids : k \in Nat
      BY <1>1
    <3>2. \A k \in below(a) : k \in below(b)
      <4>1. \A x, y, z \in Nat : x < y /\ y < z => x < z
        OBVIOUS
      <4> QED
        BY <2>1, <3>1, <4>1
    <3>3. a \in below(b) /\ a \notin below(a)
      BY <2>1, <3>1
    <3>4. below(a) \in SUBSET below(b)
      BY <3>2
    <3> QED
      BY <1>2, <3>3, <3>4, FS_Subset
  <2> QED
    BY <1>1, <1>3, <2>1
<1> DEFINE place == [i \in ids |-> Cardinality(below(i)) + 1]
<1> HIDE DEF below
<1>4. place \in Injection(ids, 1..Cardinality(ids))
  <2>1. place \in [ids -> 1..Cardinality(ids)]
    BY <1>1, <1>2
  <2>2. \A i, j \in ids : place[i] = place[j] => i = j
    BY <1>2, <1>3
  <2> QED
    BY <2>1, <2>2 DEF Injection, IsInjective
<1>5. \A n \in 1..Cardinality(ids) : \E i \in ids : place[i] = n
  <2>1. IsFiniteSet(1..Cardinality(ids)) /\ Cardinality(1..Cardinality(ids)) = Cardinality(ids)
    BY <1>1, FS_Interval
  <2>2. place \in Surjection(ids, 1..Cardinality(ids))
    BY <1>4, <2>1, FS_Injection
  <2> QED
    BY <2>2 DEF Surjection
<1>6. ASSUME NEW n \in 1..Cardinality(ids)
      PROVE  at(n) \in ids /\ Cardinality(below(at(n))) = n - 1
  <2>1. \E i \in ids : Cardinality(below(i)) = n - 1
    BY <1>2, <1>5
  <2> QED
    BY <2>1
<1>7. ASSUME NEW i \in ids
      PROVE  place[i] \in 1..Cardinality(ids) /\ at(place[i]) = i
  <2>1. place[i] \in 1..Cardinality(ids) /\ place[i] - 1 = Cardinality(below(i))
    BY <1>1, <1>2
  <2> QED
    BY <1>3, <1>6, <2>1
<1>8. InOrder(ids) = [n \in 1..Cardinality(ids) |-> at(n)]
  BY DEF InOrder, below
<1> HIDE DEF at, place
<1>9. InOrder(ids) \in Seq(ids) /\ DOMAIN InOrder(ids) = 1..Cardinality(ids)
  BY <1>1, <1>6, <1>8
<1> QED
  BY <1>7, <1>8, <1>9

LEMMA AgendaKept ==
  ASSUME AgendaInv, [Next]_vars
  PROVE  AgendaInv'
<1>1. CASE \E i \in Ids : Command(i)
  <2>1. launching' \subseteq launching /\ UNCHANGED <<pending_starts, global_shutdown, phase, cursor, work, config>>
    BY <1>1 DEF Command, StartCommand, StopCommand, RestartCommand, SendCommand
  <2> QED
    BY <2>1 DEF AgendaInv
<1>2. CASE ReconfigureCommand
  <2>1. PICK next \in Configurations :
          LET changed == {i \in Ids : next[i] # config[i]}
              stops == {i \in changed : next[i] = NoVersion}
          IN  config' = next /\ work' = InOrder(stops) \o InOrder(changed \ stops)
    BY <1>2 DEF ReconfigureCommand
  <2>2. ASSUME NEW a \in SUBSET Ids, NEW b \in SUBSET Ids
        PROVE  InOrder(a) \o InOrder(b) \in Seq(Ids)
    <3>1. InOrder(a) \in Seq(Ids) /\ InOrder(b) \in Seq(Ids)
      BY InOrderIsIds
    <3> QED
      BY <3>1, ConcatProperties
  <2>3. work' \in Seq(Ids)
    BY <2>1, <2>2
  <2>4. launching = {} /\ phase' = "reconfigure"
        /\ UNCHANGED <<pending_starts, global_shutdown, cursor, launching>>
    BY <1>2 DEF ReconfigureCommand, Accepting
  <2> QED
    BY <2>1, <2>3, <2>4 DEF AgendaInv, Phase
<1>3. CASE ReconfigureStep
  <2> DEFINE i == Head(work)
  <2>1. i \in Ids /\ Tail(work) \in Seq(Ids)
    BY <1>3 DEF ReconfigureStep, AgendaInv
  <2>2. pending_starts' \in Seq(Ids \X Versions)
    <3>1. CASE ReconfigureStop(i)
      BY <3>1, WithoutIsStarts DEF ReconfigureStop, AgendaInv
    <3>2. CASE ReconfigureNew(i)
      <4>1. <<i, config[i]>> \in Ids \X Versions
        BY <2>1, <3>2, SupervisorAssumption DEF ReconfigureNew, AgendaInv
      <4> HIDE DEF i
      <4> QED
        BY <3>2, <4>1 DEF ReconfigureNew, AgendaInv
    <3>3. CASE ReconfigureKnown(i)
      BY <3>3 DEF ReconfigureKnown, AgendaInv
    <3> QED
      BY <1>3, <3>1, <3>2, <3>3 DEF ReconfigureStep
  <2>3. phase' \in Phase /\ work' = Tail(work) /\ UNCHANGED <<global_shutdown, cursor, config, launching>>
    BY <1>3 DEF ReconfigureStep, Phase
  <2> QED
    BY <2>1, <2>2, <2>3 DEF AgendaInv
<1>4. CASE ShutdownCommand
  BY <1>4 DEF ShutdownCommand, AgendaInv
<1>5. CASE CommandsDone \/ AdvanceLifecycles \/ ServiceDone \/ ReapDone \/ Poll
  <2>1. phase' \in Phase /\ cursor' \in {1, cursor}
        /\ UNCHANGED <<pending_starts, global_shutdown, work, config, launching>>
    BY <1>5 DEF CommandsDone, AdvanceLifecycles, ServiceDone, ReapDone, Poll, Polled, Phase
  <2>2. 1 \in Ids
    BY SupervisorAssumption DEF Ids
  <2> QED
    BY <2>1, <2>2 DEF AgendaInv
<1>6. CASE \E i \in Ids : Service(i) \/ ProcessExits(i)
  <2>1. UNCHANGED <<pending_starts, global_shutdown, phase, cursor, work, config, launching>>
    BY <1>6 DEF Service, ServiceLine, ServiceEof, ServiceError, ProcessExits
  <2> QED
    BY <2>1 DEF AgendaInv
<1>7. CASE Reap
  <2>1. work' \in {work, Append(work, cursor)}
    BY <1>7 DEF Reap, ReapExited, ReapAlive, ReapFailed, NothingToReap
  <2>2. cursor' \in Ids /\ phase' \in Phase
    BY <1>7, SupervisorAssumption DEF Reap, AgendaInv, Phase, Ids
  <2>3. UNCHANGED <<pending_starts, global_shutdown, config, launching>>
    BY <1>7 DEF Reap
  <2> QED
    BY <2>1, <2>2, <2>3 DEF AgendaInv
<1>8. CASE ReplaceReaped \/ StartPending
  <2>1. /\ pending_starts' = pending_starts \/ (pending_starts # << >> /\ pending_starts' = Tail(pending_starts))
        /\ work' = work \/ (work # << >> /\ work' = Tail(work))
        /\ UNCHANGED <<global_shutdown, phase, cursor, config, launching>>
    BY <1>8 DEF ReplaceReaped, StartPending, CanStartPending
  <2>2. /\ work \in Seq(Ids) /\ (work # << >> => Tail(work) \in Seq(Ids))
        /\ pending_starts \in Seq(Ids \X Versions)
        /\ pending_starts # << >> => Tail(pending_starts) \in Seq(Ids \X Versions)
    BY DEF AgendaInv
  <2> QED
    BY <2>1, <2>2 DEF AgendaInv
<1>9. CASE Done \/ UNCHANGED vars
  BY <1>9 DEF Done, vars, AgendaInv
<1> QED
  BY <1>1, <1>2, <1>3, <1>4, <1>5, <1>6, <1>7, <1>8, <1>9 DEF Next

LEMMA SupervisedInitially == Init => SupervisedInv
<1> SUFFICES ASSUME Init PROVE SupervisedInv
  OBVIOUS
<1>1. DOMAIN instances = {}
  BY DEF Init
<1>2. AgendaInv
  <2>1. 1 \in Ids /\ "commands" \in Phase /\ << >> \in Seq(Ids) /\ << >> \in Seq(Ids \X Versions)
    BY SupervisorAssumption DEF Ids, Phase
  <2> QED
    BY <2>1 DEF Init, AgendaInv
<1> QED
  BY <1>1, <1>2 DEF Init, SupervisedInv

LEMMA StepKeepsInv == SupervisedInv /\ [Next]_vars => SupervisedInv'
<1> SUFFICES ASSUME SupervisedInv, [Next]_vars PROVE SupervisedInv'
  OBVIOUS
<1>1. SoundStep /\ AgendaInv'
  BY EveryStepIsSound, AgendaKept DEF SupervisedInv
<1> QED
  BY <1>1 DEF SoundStep, SupervisedInv

--------------------------------------------------------------------------------
(* The limit, the replacements and the restarts.                                  *)

KnownInv == DOMAIN instances \subseteq Ids /\ pending_restarts \subseteq Ids

Active(known) == {j \in DOMAIN known : IsActive(known[j])}

LEMMA ActiveIsFinite ==
  ASSUME NEW known, DOMAIN known \subseteq Ids
  PROVE  /\ IsFiniteSet(Active(known)) /\ ActiveIn(known) = Cardinality(Active(known))
         /\ ActiveIn(known) \in Nat
<1>1. N \in Int
  BY SupervisorAssumption
<1>2. IsFiniteSet(1..N)
  BY <1>1, FS_Interval
<1>3. Active(known) \in SUBSET (1..N)
  BY DEF Active, Ids
<1>4. IsFiniteSet(Active(known))
  BY <1>2, <1>3, FS_Subset
<1> QED
  BY <1>4, FS_CardinalityType DEF ActiveIn, Active

LEMMA OneMore ==
  ASSUME NEW S, IsFiniteSet(S), NEW x
  PROVE  Cardinality(S \cup {x}) <= Cardinality(S) + 1
<1>1. Cardinality(S) \in Nat
  BY FS_CardinalityType
<1>2. Cardinality(S \cup {x}) = IF x \in S THEN Cardinality(S) ELSE Cardinality(S) + 1
  BY FS_AddElement
<1> QED
  BY <1>1, <1>2

\* A step that changes the instance i at most.
Touches(known, i) ==
  /\ DOMAIN known \ {i} = DOMAIN instances \ {i}
  /\ \A j \in DOMAIN instances \ {i} : known[j] = instances[j]

Found(known, i) == i \in DOMAIN known /\ IsActive(known[i])

LEMMA LimitKept ==
  ASSUME KnownInv, NEW i \in Ids, NEW known, Touches(known, i),
         Found(known, i) => Found(instances, i) \/ HasCapacity(Without(i)), WithinLimit
  PROVE  ActiveIn(known) <= MaximumInstances
<1> DEFINE before == Active(instances)
           after == Active(known)
           rest == before \ {i}
<1>1. DOMAIN known \subseteq Ids
  BY DEF KnownInv, Touches
<1>2. /\ IsFiniteSet(before) /\ IsFiniteSet(after)
      /\ ActiveIn(instances) = Cardinality(before) /\ ActiveIn(known) = Cardinality(after)
      /\ ActiveIn(instances) \in Nat /\ ActiveIn(known) \in Nat
  BY <1>1, ActiveIsFinite DEF KnownInv
<1>3. after \ {i} = rest
  BY DEF Active, Touches
<1>4. MaximumInstances \in Nat
  BY SupervisorAssumption
<1>5. CASE Found(known, i) => Found(instances, i)
  <2>1. after \in SUBSET before
    BY <1>3, <1>5 DEF Active, Found
  <2>2. Cardinality(after) <= Cardinality(before)
    BY <1>2, <2>1, FS_Subset
  <2> QED
    BY <1>2, <1>4, <2>2 DEF WithinLimit
<1>6. CASE Found(known, i) /\ HasCapacity(Without(i))
  <2>1. Active(Without(i)) = rest /\ DOMAIN Without(i) \subseteq Ids
    BY DEF Active, Without, KnownInv
  <2>2. IsFiniteSet(rest) /\ Cardinality(rest) \in Nat /\ Cardinality(rest) < MaximumInstances
    BY <1>6, <2>1, ActiveIsFinite DEF HasCapacity
  <2>3. after = rest \cup {i}
    BY <1>3, <1>6 DEF Active, Found
  <2>4. Cardinality(rest \cup {i}) <= Cardinality(rest) + 1
    BY <2>2, OneMore
  <2> QED
    BY <1>2, <1>4, <2>2, <2>3, <2>4
<1> QED
  BY <1>5, <1>6

\* A step that handles the instances it finds: none comes or goes, none gets another
\* definition or replacement.
KeptStep ==
  /\ DOMAIN instances' = DOMAIN instances
  /\ \A i \in DOMAIN instances : /\ instances'[i].version = instances[i].version
                                 /\ instances'[i].replacement = instances[i].replacement
  /\ pending_restarts' \subseteq pending_restarts \cup Ids
  /\ launching # {} => pending_restarts' \subseteq pending_restarts
  /\ WithinLimit => WithinLimit'
  /\ PendingRestartsTracked => PendingRestartsTracked'

LEMMA QuietStepKeeps ==
  ASSUME UNCHANGED <<instances, pending_restarts>>
  PROVE  KeptStep
  BY DEF KeptStep, WithinLimit, PendingRestartsTracked

LEMMA UpdatedOne ==
  ASSUME NEW i, i \in DOMAIN instances, NEW y, Shape(y)
  PROVE  /\ DOMAIN Updated(instances, i, y) = DOMAIN instances
         /\ Touches(Updated(instances, i, y), i)
         /\ Updated(instances, i, y)[i].version = y.version
         /\ Updated(instances, i, y)[i].replacement = y.replacement
         /\ Updated(instances, i, y)[i].restart_pending = y.restart_pending
         /\ Updated(instances, i, y)[i].lc = y.lc
         /\ Updated(instances, i, y)[i].process = y.process
         /\ Updated(instances, i, y)[i].restart_after_stop = y.restart_after_stop
<1> DEFINE z == [y EXCEPT !.emitted = {}]
           known == Updated(instances, i, y)
<1>1. known = [j \in DOMAIN instances \cup {i} |-> IF j = i THEN z ELSE instances[j]]
  BY DEF Updated
<1>2. /\ z.version = y.version /\ z.replacement = y.replacement /\ z.lc = y.lc
      /\ z.restart_pending = y.restart_pending /\ z.process = y.process
      /\ z.restart_after_stop = y.restart_after_stop
  BY DEF Shape
<1> HIDE DEF z, known
<1>3. DOMAIN known = DOMAIN instances /\ known[i] = z
      /\ \A j \in DOMAIN instances \ {i} : known[j] = instances[j]
  BY <1>1
<1> QED
  BY <1>2, <1>3 DEF Touches, known, z

LEMMA StoreKeeps ==
  ASSUME KnownInv, NEW i \in Ids, i \in DOMAIN instances, NEW y, Shape(y),
         Handled(HasCapacity(Without(i)), instances[i], y), Store(i, y)
  PROVE  KeptStep
<1> DEFINE known == Updated(instances, i, y)
<1>1. instances' = known /\ Delivered(i, y.emitted)
  BY DEF Store
<1>2. /\ DOMAIN known = DOMAIN instances /\ Touches(known, i)
      /\ known[i].version = y.version /\ known[i].replacement = y.replacement
      /\ known[i].restart_pending = y.restart_pending /\ known[i].lc = y.lc
  BY UpdatedOne
<1> HIDE DEF known
<1>3. WithinLimit => WithinLimit'
  <2>1. Found(known, i) => Found(instances, i) \/ HasCapacity(Without(i))
    BY <1>2 DEF Found, Handled, IsActive
  <2> QED
    BY <1>1, <1>2, <2>1, LimitKept DEF WithinLimit
<1>4. PendingRestartsTracked => PendingRestartsTracked'
  <2> SUFFICES ASSUME PendingRestartsTracked, NEW j \in pending_restarts'
               PROVE  j \in DOMAIN instances' /\ instances'[j].restart_pending
    BY DEF PendingRestartsTracked
  <2>1. j \in pending_restarts /\ (j = i => "restart_completed" \notin y.emitted)
    BY <1>1 DEF Delivered
  <2>2. j \in DOMAIN instances /\ instances[j].restart_pending
    BY <2>1 DEF PendingRestartsTracked
  <2>3. CASE j = i
    BY <1>1, <1>2, <2>1, <2>2, <2>3 DEF Handled, Keeps, Tracks
  <2>4. CASE j # i
    BY <1>1, <1>2, <2>2, <2>4 DEF Touches
  <2> QED
    BY <2>3, <2>4
<1>5. pending_restarts' \subseteq pending_restarts
  BY <1>1 DEF Delivered
<1>6. \A j \in DOMAIN instances : /\ instances'[j].version = instances[j].version
                                  /\ instances'[j].replacement = instances[j].replacement
  BY <1>1, <1>2 DEF Touches, Handled, Keeps
<1> QED
  BY <1>1, <1>2, <1>3, <1>4, <1>5, <1>6 DEF KeptStep

LEMMA StoreAllKeeps ==
  ASSUME KnownInv, NEW known, DOMAIN known = DOMAIN instances,
         \A i \in DOMAIN instances : Shape(known[i]) /\ Handled(FALSE, instances[i], known[i]),
         StoreAll(known)
  PROVE  KeptStep
<1> DEFINE z(i) == [known[i] EXCEPT !.emitted = {}]
<1>1. instances' = [i \in DOMAIN known |-> z(i)]
  BY DEF StoreAll
<1>2. ASSUME NEW i \in DOMAIN instances
      PROVE  /\ z(i).version = known[i].version /\ z(i).replacement = known[i].replacement
             /\ z(i).restart_pending = known[i].restart_pending /\ z(i).lc = known[i].lc
  BY <1>2 DEF Shape
<1> HIDE DEF z
<1>3. DOMAIN instances' = DOMAIN instances /\ \A i \in DOMAIN instances : instances'[i] = z(i)
  BY <1>1
<1>4. \A i : i \in pending_restarts'
             <=> i \in pending_restarts /\ ~(i \in DOMAIN known /\ "restart_completed" \in known[i].emitted)
  BY DEF StoreAll
<1>5. WithinLimit => WithinLimit'
  <2>1. Active(instances') \in SUBSET Active(instances)
    BY <1>2, <1>3 DEF Active, Handled, IsActive
  <2>2. /\ IsFiniteSet(Active(instances)) /\ ActiveIn(instances) = Cardinality(Active(instances))
        /\ ActiveIn(instances) \in Nat
        /\ ActiveIn(instances') = Cardinality(Active(instances')) /\ ActiveIn(instances') \in Nat
    BY <1>3, ActiveIsFinite DEF KnownInv
  <2>3. Cardinality(Active(instances')) <= Cardinality(Active(instances))
    BY <2>1, <2>2, FS_Subset
  <2> QED
    BY <2>2, <2>3, SupervisorAssumption DEF WithinLimit
<1>6. PendingRestartsTracked => PendingRestartsTracked'
  <2> SUFFICES ASSUME PendingRestartsTracked, NEW i \in pending_restarts'
               PROVE  i \in DOMAIN instances' /\ instances'[i].restart_pending
    BY DEF PendingRestartsTracked
  <2>1. i \in DOMAIN instances /\ instances[i].restart_pending
    BY <1>4 DEF PendingRestartsTracked
  <2>2. "restart_completed" \notin known[i].emitted
    BY <1>4, <2>1
  <2> QED
    BY <1>2, <1>3, <2>1, <2>2 DEF Handled, Keeps, Tracks
<1> QED
  BY <1>2, <1>3, <1>4, <1>5, <1>6 DEF KeptStep, Handled, Keeps

\* Steps in which an instance keeps all of this.
LEMMA UntouchedKeeps ==
  ASSUME DOMAIN instances' = DOMAIN instances, pending_restarts' = pending_restarts,
         \A i \in DOMAIN instances :
           /\ instances'[i].version = instances[i].version
           /\ instances'[i].replacement = instances[i].replacement
           /\ instances'[i].restart_pending = instances[i].restart_pending
           /\ instances'[i].lc.state = instances[i].lc.state
  PROVE  KeptStep
<1>1. \A i \in DOMAIN instances : IsActive(instances'[i]) <=> IsActive(instances[i])
  BY DEF IsActive
<1>2. {i \in DOMAIN instances' : IsActive(instances'[i])} = {i \in DOMAIN instances : IsActive(instances[i])}
  BY <1>1
<1>3. ActiveIn(instances') = ActiveIn(instances)
  BY <1>2 DEF ActiveIn
<1> QED
  BY <1>3 DEF KeptStep, WithinLimit, PendingRestartsTracked

LEMMA CommandKeeps ==
  ASSUME SupervisedInv, KnownInv, NEW i \in Ids, StopCommand(i) \/ RestartCommand(i) \/ SendCommand(i)
  PROVE  KeptStep
<1>1. i \in DOMAIN instances
  BY DEF StopCommand, RestartCommand, SendCommand
<1>2. Shape(instances[i]) /\ Consistent(instances[i])
  BY <1>1 DEF SupervisedInv
<1>3. CASE StopCommand(i)
  <2>1. PICK outcome \in SpawnOutcome : Store(i, HandleStop(i, instances[i], outcome))
    BY <1>3 DEF StopCommand
  <2> QED
    BY <1>1, <1>2, <2>1, HandleStopIsSound, HandleStopIsHandled, StoreKeeps DEF Sound
<1>4. CASE SendCommand(i)
  <2>1. Store(i, BeginFailure(instances[i], "unresponsive"))
    BY <1>4 DEF SendCommand
  <2> QED
    BY <1>1, <1>2, <2>1, SmallValues, FailureIsSound, FailureIsHandled, HandledAnyway, StoreKeeps DEF Sound
<1>5. CASE RestartCommand(i)
  <2>1. PICK outcome \in SpawnOutcome :
          LET instance == HandleRestart(i, instances[i], outcome)
          IN  /\ instances' = Updated(instances, i, instance)
              /\ pending_restarts' = IF "restart_completed" \in instance.emitted
                                     THEN pending_restarts ELSE pending_restarts \cup {i}
    BY <1>5 DEF RestartCommand
  <2> DEFINE y == HandleRestart(i, instances[i], outcome)
             known == Updated(instances, i, y)
  <2>2. /\ Shape(y) /\ Handled(HasCapacity(Without(i)), instances[i], y)
        /\ y.restart_pending \/ "restart_completed" \in y.emitted
    BY <1>2, HandleRestartIsSound, HandleRestartIsHandled DEF Sound
  <2>3. /\ instances' = known
        /\ pending_restarts' = IF "restart_completed" \in y.emitted
                               THEN pending_restarts ELSE pending_restarts \cup {i}
    BY <2>1
  <2> HIDE DEF y
  <2>4. /\ DOMAIN known = DOMAIN instances /\ Touches(known, i)
        /\ known[i].version = y.version /\ known[i].replacement = y.replacement
        /\ known[i].restart_pending = y.restart_pending /\ known[i].lc = y.lc
    BY <1>1, <2>2, UpdatedOne
  <2> HIDE DEF known
  <2>5. WithinLimit => WithinLimit'
    <3>1. Found(known, i) => Found(instances, i) \/ HasCapacity(Without(i))
      BY <1>1, <2>2, <2>4 DEF Found, Handled, IsActive
    <3> QED
      BY <2>3, <2>4, <3>1, LimitKept DEF WithinLimit
  <2>6. i \notin pending_restarts /\ launching = {}
    BY <1>5 DEF RestartCommand, Accepting
  <2>7. PendingRestartsTracked => PendingRestartsTracked'
    BY <1>1, <2>2, <2>3, <2>4, <2>6 DEF PendingRestartsTracked, Touches
  <2>8. \A j \in DOMAIN instances : /\ instances'[j].version = instances[j].version
                                    /\ instances'[j].replacement = instances[j].replacement
    BY <2>2, <2>3, <2>4 DEF Touches, Handled, Keeps
  <2> QED
    BY <2>3, <2>4, <2>5, <2>6, <2>7, <2>8 DEF KeptStep
<1> QED
  BY <1>3, <1>4, <1>5

LEMMA LoopKeeps ==
  ASSUME SupervisedInv, KnownInv, ShutdownCommand \/ AdvanceLifecycles
  PROVE  KeptStep
<1>1. CASE ShutdownCommand
  <2> DEFINE known == [i \in DOMAIN instances |-> StopRequested(instances[i])]
  <2>1. \A i \in DOMAIN instances : Shape(known[i]) /\ Handled(FALSE, instances[i], known[i])
    BY StopRequestIsSound, StopRequestIsHandled DEF SupervisedInv, Sound
  <2>2. DOMAIN known = DOMAIN instances /\ StoreAll(known)
    BY <1>1 DEF ShutdownCommand
  <2> HIDE DEF known
  <2> QED
    BY <2>1, <2>2, StoreAllKeeps
<1>2. CASE AdvanceLifecycles
  <2>1. PICK outcome \in [DOMAIN instances -> SpawnOutcome],
             delivered \in [DOMAIN instances -> IF "signal" \in Faults THEN BOOLEAN ELSE {TRUE}] :
          StoreAll([i \in DOMAIN instances |-> Advanced(instances[i], outcome[i], delivered[i])])
    BY <1>2 DEF AdvanceLifecycles
  <2> DEFINE known == [i \in DOMAIN instances |-> Advanced(instances[i], outcome[i], delivered[i])]
  <2>2. \A i \in DOMAIN instances : Shape(known[i]) /\ Handled(FALSE, instances[i], known[i])
    BY AdvancedIsSound, AdvancedIsHandled DEF SupervisedInv, Sound
  <2>3. DOMAIN known = DOMAIN instances /\ StoreAll(known)
    BY <2>1
  <2> HIDE DEF known
  <2> QED
    BY <2>2, <2>3, StoreAllKeeps
<1> QED
  BY <1>1, <1>2

LEMMA ServiceKeeps ==
  ASSUME SupervisedInv, KnownInv, NEW i \in Ids, Service(i)
  PROVE  KeptStep
<1> DEFINE x == instances[i]
<1>1. i \in DOMAIN instances /\ Shape(x) /\ Consistent(x) /\ x.emitted = {} /\ x.process # "none"
  BY DEF Service, ServiceLine, ServiceEof, ServiceError, SupervisedInv
<1>2. \E y : Store(i, y) /\ Shape(y) /\ Handled(FALSE, x, y)
  <2>1. CASE ServiceLine(i)
    <3>1. PICK rolling \in BOOLEAN :
            \/ Store(i, HandleReady(x, rolling))
            \/ Store(i, HandleMessage(x, rolling))
            \/ Store(i, RecordViolation(x, rolling))
      BY <2>1 DEF ServiceLine
    <3>2. x.lc.state # "stopping"
      BY <2>1 DEF ServiceLine
    <3>3. /\ Shape(HandleReady(x, rolling)) /\ Handled(FALSE, x, HandleReady(x, rolling))
          /\ Shape(HandleMessage(x, rolling)) /\ Handled(FALSE, x, HandleMessage(x, rolling))
          /\ Shape(RecordViolation(x, rolling)) /\ Handled(FALSE, x, RecordViolation(x, rolling))
      BY <1>1, <3>2, ReadyIsSound, ReadyIsHandled, MessageIsSound, MessageIsHandled,
         ViolationIsSound, ViolationIsHandled DEF Sound
    <3> QED
      BY <3>1, <3>3
  <2>2. CASE ServiceEof(i)
    <3> DEFINE y == [x EXCEPT !.eof_for = 0]
    <3>1. Shape(y) /\ Handled(FALSE, x, y)
      BY <1>1, SmallValues DEF Shape, Handled, Keeps, Tracks, IsActive
    <3>2. Store(i, y)
      BY <2>2 DEF ServiceEof
    <3> QED
      BY <3>1, <3>2
  <2>3. CASE ServiceError(i)
    <3>1. Store(i, BeginFailure(x, "io_error"))
      BY <2>3 DEF ServiceError
    <3> QED
      BY <1>1, <3>1, SmallValues, FailureIsSound, FailureIsHandled DEF Sound
  <2> QED
    BY <2>1, <2>2, <2>3 DEF Service
<1> QED
  BY <1>1, <1>2, StoreKeeps, HandledAnyway

LEMMA ReapKeeps ==
  ASSUME SupervisedInv, KnownInv, Reap
  PROVE  KeptStep
<1> DEFINE x == instances[cursor]
<1>1. cursor \in Ids
  BY DEF SupervisedInv, AgendaInv
<1>2. CASE NothingToReap(cursor)
  BY <1>2, QuietStepKeeps DEF NothingToReap
<1>3. CASE ~NothingToReap(cursor)
  <2>1. cursor \in DOMAIN instances /\ Shape(x) /\ Consistent(x)
    BY <1>3 DEF Reap, ReapExited, ReapAlive, ReapFailed, SupervisedInv
  <2>2. \E y : Store(cursor, y) /\ Shape(y) /\ Handled(FALSE, x, y)
    <3>1. CASE ReapExited(cursor)
      <4>1. PICK outcome \in SpawnOutcome : Store(cursor, HandleReaped(cursor, Reaped(x), outcome))
        BY <3>1 DEF ReapExited
      <4>2. x.process \in ExitedProcess
        BY <3>1 DEF ReapExited
      <4> QED
        BY <2>1, <4>1, <4>2, ReapingIsSound, ReapingIsHandled DEF Sound
    <3>2. CASE ReapAlive(cursor) \/ ReapFailed(cursor)
      <4>1. Store(cursor, x) \/ Store(cursor, BeginFailure(x, "io_error"))
        BY <3>2 DEF ReapAlive, ReapFailed
      <4>2. Handled(FALSE, x, x)
        BY DEF Handled, Keeps, Tracks
      <4> QED
        BY <2>1, <4>1, <4>2, SmallValues, FailureIsSound, FailureIsHandled DEF Sound
    <3> QED
      BY <1>3, <3>1, <3>2 DEF Reap
  <2> QED
    BY <1>1, <2>1, <2>2, StoreKeeps, HandledAnyway
<1> QED
  BY <1>2, <1>3

LEMMA WorldKeeps ==
  ASSUME SupervisedInv, (\E i \in Ids : ProcessExits(i)) \/ Poll
  PROVE  KeptStep
<1>1. \A i \in DOMAIN instances : Shape(instances[i])
  BY DEF SupervisedInv
<1>2. ASSUME NEW i \in Ids, ProcessExits(i) PROVE KeptStep
  <2>1. PICK status : instances' = [instances EXCEPT ![i].process = status]
    BY <1>2 DEF ProcessExits
  <2>2. pending_restarts' = pending_restarts
    BY <1>2 DEF ProcessExits
  <2>3. DOMAIN instances' = DOMAIN instances
        /\ \A j \in DOMAIN instances : instances'[j] \in {instances[j], [instances[j] EXCEPT !.process = status]}
    BY <2>1
  <2>4. \A j \in DOMAIN instances :
          LET y == [instances[j] EXCEPT !.process = status]
          IN  /\ y.version = instances[j].version /\ y.replacement = instances[j].replacement
              /\ y.restart_pending = instances[j].restart_pending /\ y.lc = instances[j].lc
    BY <1>1 DEF Shape
  <2> QED
    BY <2>2, <2>3, <2>4, UntouchedKeeps
<1>3. ASSUME NEW time \in {0, 1}, Polled(time) PROVE KeptStep
  <2>1. pending_restarts' = pending_restarts
    BY <1>3 DEF Polled
  <2>2. CASE instances' = instances
    BY <2>1, <2>2, QuietStepKeeps
  <2>3. CASE instances' # instances
    <3> DEFINE y(i) == [instances[i] EXCEPT !.lc = Elapsed(@), !.eof_for = Older(@, EofGrace)]
    <3>1. instances' = [i \in DOMAIN instances |-> y(i)]
      BY <1>3, <2>3, Zenon DEF Polled
    <3>2. ASSUME NEW i \in DOMAIN instances
          PROVE  /\ y(i).version = instances[i].version /\ y(i).replacement = instances[i].replacement
                 /\ y(i).restart_pending = instances[i].restart_pending
                 /\ y(i).lc.state = instances[i].lc.state
      <4>1. /\ y(i).version = instances[i].version /\ y(i).replacement = instances[i].replacement
            /\ y(i).restart_pending = instances[i].restart_pending
            /\ y(i).lc = Elapsed(instances[i].lc)
        BY <1>1, <3>2 DEF Shape
      <4>2. Elapsed(instances[i].lc).state = instances[i].lc.state
        BY <1>1, <3>2, StateOfElapsed DEF Shape
      <4> QED
        BY <4>1, <4>2
    <3> HIDE DEF y
    <3> QED
      BY <2>1, <3>1, <3>2, UntouchedKeeps
  <2> QED
    BY <2>2, <2>3
<1> QED
  BY <1>2, <1>3 DEF Poll

--------------------------------------------------------------------------------
(* Starts, replacements and reloads.                                              *)

LEMMA RestIsWithout ==
  ASSUME NEW i, NEW known, Touches(known, i)
  PROVE  [j \in DOMAIN known \ {i} |-> known[j]] = Without(i)
  BY DEF Touches, Without

LEMMA StartOfNew ==
  ASSUME NEW version \in Versions, NEW outcome \in SpawnOutcome
  PROVE  LET y == Started(NewInstance(version), outcome)
         IN  Shape(y) /\ y.version = version /\ y.replacement = NoVersion
<1>1. /\ Shape(NewInstance(version)) /\ NewInstance(version).version = version
      /\ NewInstance(version).process = "none" /\ NewInstance(version).replacement = NoVersion
  BY NewInstanceHasShape DEF NewInstance
<1> QED
  BY <1>1, Starts, StartKeeps DEF Keeps

\* What a start makes of the instance i: what was there, nothing, or a new one.
StartsAs(known, i, version) ==
  /\ Touches(instances', i)
  /\ i \in DOMAIN instances' =>
       \/ i \in DOMAIN known /\ instances'[i] = known[i]
       \/ /\ HasCapacity(Without(i))
          /\ instances'[i].version = version /\ instances'[i].replacement = NoVersion
  /\ pending_restarts' \subseteq pending_restarts

LEMMA HandleStartTouches ==
  ASSUME NEW i, NEW known, Touches(known, i), NEW version \in Versions,
         NEW outcome \in SpawnOutcome, NEW earlier,
         HandleStart(known, i, version, outcome, earlier)
  PROVE  StartsAs(known, i, version)
<1> DEFINE rest == [j \in DOMAIN known \ {i} |-> known[j]]
           y == Started(NewInstance(version), outcome)
           z == [y EXCEPT !.emitted = {}]
<1>1. pending_restarts' \subseteq pending_restarts
  BY DEF HandleStart, Delivered
<1>2. rest = Without(i) /\ Touches(rest, i) /\ i \notin DOMAIN rest
  BY RestIsWithout DEF Touches
<1>3. instances' = known \/ instances' = rest \/ (HasCapacity(rest) /\ instances' = Updated(rest, i, y))
  BY DEF HandleStart
<1>4. z.version = version /\ z.replacement = NoVersion
  <2>1. Shape(y) /\ y.version = version /\ y.replacement = NoVersion
    BY StartOfNew
  <2> HIDE DEF y
  <2> QED
    BY <2>1 DEF Shape
<1>5. Updated(rest, i, y) = [j \in DOMAIN rest \cup {i} |-> IF j = i THEN z ELSE rest[j]]
  BY DEF Updated
<1> HIDE DEF rest, y, z
<1>6. Touches(Updated(rest, i, y), i) /\ Updated(rest, i, y)[i] = z
  BY <1>2, <1>5 DEF Touches
<1> QED
  BY <1>1, <1>2, <1>3, <1>4, <1>6 DEF StartsAs

LEMMA StartReplacementTouches ==
  ASSUME NEW i, NEW known, Touches(known, i), NEW outcome \in SpawnOutcome, NEW earlier,
         i \in DOMAIN known => known[i].replacement \in Versions \cup {NoVersion},
         StartReplacement(known, i, outcome, earlier)
  PROVE  /\ StartsAs(known, i, known[i].replacement)
         /\ i \in DOMAIN instances' => i \in DOMAIN known
         /\ instances' = known \/ known[i].replacement # NoVersion
<1> DEFINE rest == [j \in DOMAIN known \ {i} |-> known[j]]
<1>1. CASE i \in DOMAIN known /\ Quiescent(known[i]) /\ known[i].replacement # NoVersion
  <2>1. Touches(rest, i) /\ i \notin DOMAIN rest
    BY DEF Touches
  <2>2. HandleStart(rest, i, known[i].replacement, outcome, earlier)
    BY <1>1 DEF StartReplacement
  <2> HIDE DEF rest
  <2>3. StartsAs(rest, i, known[i].replacement)
    BY <1>1, <2>1, <2>2, HandleStartTouches
  <2> QED
    BY <1>1, <2>1, <2>3 DEF StartsAs
<1>2. CASE ~(i \in DOMAIN known /\ Quiescent(known[i]) /\ known[i].replacement # NoVersion)
  <2>1. instances' = known /\ Delivered(i, earlier)
    BY <1>2 DEF StartReplacement
  <2> QED
    BY <2>1 DEF StartsAs, Delivered
<1> QED
  BY <1>1, <1>2

\* An instance is of the definition configured, or is to be replaced with it.
UpToDate(x, version) ==
  /\ x.replacement \in {NoVersion, version}
  /\ version # NoVersion /\ x.version # version => x.replacement = version

ReconfiguredInv ==
  /\ WithinLimit
  /\ \A i \in DOMAIN instances : UpToDate(instances[i], config[i]) \/ Unreached(i)
  /\ DeferredAreWanted
  /\ launching # {} => pending_starts = << >> /\ phase # "reconfigure"

LEMMA ReconfiguredIsSound == ReconfiguredInv => ReconfigurationIsSound
  BY DEF ReconfiguredInv, ReconfigurationIsSound, ReplacementsAreLatest, UpToDate

\* Steps that handle the instances they find, outside a reload.
LEMMA KeptReconfigures ==
  ASSUME ReconfiguredInv, KeptStep, config' = config, phase # "reconfigure", phase' # "reconfigure",
         launching' \subseteq launching, pending_starts' \in {pending_starts, << >>}
  PROVE  ReconfiguredInv'
<1>1. \A i \in DOMAIN instances' : UpToDate(instances'[i], config'[i])
  BY DEF ReconfiguredInv, KeptStep, UpToDate, Unreached
<1>2. DeferredAreWanted'
  <2>1. CASE pending_starts' = << >>
    BY <2>1 DEF DeferredAreWanted
  <2>2. CASE pending_starts' = pending_starts
    BY <2>2 DEF ReconfiguredInv, DeferredAreWanted, Unreached, KeptStep
  <2> QED
    BY <2>1, <2>2
<1>3. launching' # {} => pending_starts' = << >>
  BY DEF ReconfiguredInv
<1> QED
  BY <1>1, <1>2, <1>3 DEF ReconfiguredInv, KeptStep

\* Steps that change the instance i, the queue of starts, or both.
LEMMA OneInstanceReconfigures ==
  ASSUME ReconfiguredInv, KnownInv, NEW i \in Ids, config' = config, launching' \subseteq launching,
         Touches(instances', i),
         i \in DOMAIN instances' /\ IsActive(instances'[i])
           => Found(instances, i) \/ HasCapacity(Without(i)),
         i \in DOMAIN instances' => UpToDate(instances'[i], config[i]),
         phase' \in {phase, "commands"},
         \A j \in Ids \ {i} : Unreached(j) => Unreached(j)',
         \A n \in DOMAIN pending_starts' :
           \/ /\ pending_starts'[n][1] # i
              /\ \E m \in DOMAIN pending_starts : pending_starts'[n] = pending_starts[m]
           \/ pending_starts'[n] = <<i, config[i]>> /\ i \notin DOMAIN instances',
         \A n \in DOMAIN pending_starts' : pending_starts'[n][1] \in Ids,
         \A m, n \in DOMAIN pending_starts' : pending_starts'[m][1] = pending_starts'[n][1] => m = n,
         launching # {} => pending_starts' = << >>, pending_restarts' \subseteq pending_restarts
  PROVE  ReconfiguredInv' /\ KnownInv'
<1> DEFINE known == instances'
<1>1. WithinLimit'
  <2>1. Found(known, i) => Found(instances, i) \/ HasCapacity(Without(i))
    BY DEF Found
  <2>2. WithinLimit
    BY DEF ReconfiguredInv
  <2>3. Touches(known, i)
    OBVIOUS
  <2> HIDE DEF known
  <2>4. ActiveIn(known) <= MaximumInstances
    BY <2>1, <2>2, <2>3, LimitKept
  <2> QED
    BY <2>4 DEF WithinLimit, known
<1>2. ASSUME NEW j \in DOMAIN instances' PROVE UpToDate(instances'[j], config'[j]) \/ Unreached(j)'
  <2>1. CASE j = i
    BY <2>1
  <2>2. CASE j # i
    <3>1. j \in DOMAIN instances /\ instances'[j] = instances[j] /\ j \in Ids
      BY <1>2, <2>2 DEF Touches, KnownInv
    <3> QED
      BY <2>2, <3>1 DEF ReconfiguredInv
  <2> QED
    BY <2>1, <2>2
<1>3. DeferredAreWanted'
  <2>1. ASSUME NEW n \in DOMAIN pending_starts', NEW j, pending_starts'[n][1] = j
        PROVE  j \notin DOMAIN instances' /\ (config'[j] = pending_starts'[n][2] \/ Unreached(j)')
    <3>1. CASE pending_starts'[n] = <<i, config[i]>> /\ i \notin DOMAIN instances'
      <4>1. j = i /\ pending_starts'[n][2] = config[i]
        BY <2>1, <3>1
      <4> QED
        BY <3>1, <4>1
    <3>2. CASE j # i /\ \E m \in DOMAIN pending_starts : pending_starts'[n] = pending_starts[m]
      <4>1. PICK m \in DOMAIN pending_starts : pending_starts'[n] = pending_starts[m]
        BY <3>2
      <4>2. /\ j \notin DOMAIN instances /\ j \in Ids
            /\ config[j] = pending_starts'[n][2] \/ Unreached(j)
        BY <2>1, <4>1 DEF ReconfiguredInv, DeferredAreWanted, Unreached
      <4>3. j \notin DOMAIN instances' /\ j \in Ids \ {i}
        BY <3>2, <4>2 DEF Touches
      <4>4. Unreached(j) => Unreached(j)'
        BY <4>3
      <4> QED
        BY <4>2, <4>3, <4>4
    <3> QED
      BY <2>1, <3>1, <3>2
  <2> QED
    BY <2>1 DEF DeferredAreWanted, Unreached
<1>4. launching' # {} => pending_starts' = << >> /\ phase' # "reconfigure"
  BY DEF ReconfiguredInv
<1>5. KnownInv'
  BY DEF KnownInv, Touches
<1> QED
  BY <1>1, <1>2, <1>3, <1>4, <1>5 DEF ReconfiguredInv

LEMMA TailOfWork ==
  ASSUME ReconfigureStep, AgendaInv
  PROVE  /\ Head(work) \in Ids /\ phase' \in {phase, "commands"}
         /\ \A j \in Ids \ {Head(work)} : Unreached(j) => Unreached(j)'
<1>1. /\ work \in Seq(Ids) /\ work # << >> /\ work' = Tail(work)
      /\ phase = "reconfigure" /\ phase' = IF Tail(work) = << >> THEN "commands" ELSE phase
  BY DEF ReconfigureStep, AgendaInv
<1>2. ASSUME NEW j \in Ids \ {Head(work)}, Unreached(j) PROVE Unreached(j)'
  <2>1. PICK m \in DOMAIN work : work[m] = j
    BY <1>2 DEF Unreached
  <2>2. m \in 2..Len(work)
    BY <1>1, <1>2, <2>1
  <2>3. m - 1 \in DOMAIN Tail(work) /\ Tail(work)[m - 1] = j
    BY <1>1, <2>1, <2>2
  <2>4. Tail(work) # << >>
    BY <2>3
  <2> QED
    BY <1>1, <2>3, <2>4 DEF Unreached
<1> QED
  BY <1>1, <1>2

\* The starts that wait for room, of modules that are not there, each of them once.
LEMMA QueueFacts ==
  ASSUME ReconfiguredInv, AgendaInv
  PROVE  /\ \A n \in DOMAIN pending_starts : /\ pending_starts[n] \in Ids \X Versions
                                             /\ pending_starts[n][1] \notin DOMAIN instances
         /\ \A m, n \in DOMAIN pending_starts :
              pending_starts[m][1] = pending_starts[n][1] => m = n
  BY DEF ReconfiguredInv, DeferredAreWanted, AgendaInv

\* WithoutStart leaves what is queued of other modules, and nothing of i.
LEMMA WithoutStartFacts ==
  ASSUME ReconfiguredInv, AgendaInv, NEW i \in Ids
  PROVE  /\ \A n \in DOMAIN WithoutStart(i) :
              /\ WithoutStart(i)[n][1] # i
              /\ \E m \in DOMAIN pending_starts : WithoutStart(i)[n] = pending_starts[m]
         /\ \A m, n \in DOMAIN WithoutStart(i) :
              WithoutStart(i)[m][1] = WithoutStart(i)[n][1] => m = n
<1> DEFINE queued == {n \in DOMAIN pending_starts : pending_starts[n][1] = i}
           k == CHOOSE n \in queued : TRUE
           w == WithoutStart(i)
<1>1. CASE queued = {}
  <2>1. w = pending_starts /\ \A n \in DOMAIN pending_starts : pending_starts[n][1] # i
    BY <1>1 DEF WithoutStart
  <2> QED
    BY <2>1, QueueFacts
<1>2. CASE queued # {}
  <2>1. k \in DOMAIN pending_starts /\ pending_starts[k][1] = i
    BY <1>2
  <2>2. w = SubSeq(pending_starts, 1, k - 1) \o SubSeq(pending_starts, k + 1, Len(pending_starts))
    BY <1>2 DEF WithoutStart
  <2>3. pending_starts \in Seq(Ids \X Versions)
    BY DEF AgendaInv
  <2> HIDE DEF k, w
  <2> DEFINE at(n) == IF n < k THEN n ELSE n + 1
  <2> DEFINE front == SubSeq(pending_starts, 1, k - 1)
             back == SubSeq(pending_starts, k + 1, Len(pending_starts))
  <2>6. /\ front \in Seq(Ids \X Versions) /\ Len(front) = k - 1
        /\ \A n \in 1..(k - 1) : front[n] = pending_starts[n]
    BY <2>1, <2>3, SubSeqProperties
  <2>7. /\ back \in Seq(Ids \X Versions) /\ Len(back) = Len(pending_starts) - k
        /\ \A n \in 1..(Len(pending_starts) - k) : back[n] = pending_starts[k + n]
    BY <2>1, <2>3, SubSeqProperties
  <2> HIDE DEF front, back
  <2>8. /\ DOMAIN w = 1..(Len(front) + Len(back))
        /\ \A n \in 1..(Len(front) + Len(back)) :
             w[n] = IF n <= Len(front) THEN front[n] ELSE back[n - Len(front)]
    BY <2>2, <2>6, <2>7 DEF front, back
  <2>4. /\ DOMAIN w = 1..(Len(pending_starts) - 1)
        /\ \A n \in DOMAIN w : w[n] = pending_starts[at(n)] /\ at(n) \in DOMAIN pending_starts /\ at(n) # k
    <3>1. k \in 1..Len(pending_starts) /\ Len(pending_starts) \in Nat
      BY <2>1, <2>3
    <3>2. DOMAIN w = 1..(Len(pending_starts) - 1)
      BY <2>6, <2>7, <2>8, <3>1
    <3>3. ASSUME NEW n \in DOMAIN w, n < k PROVE w[n] = pending_starts[n]
      BY <2>6, <2>8, <3>1, <3>2, <3>3
    <3>4. ASSUME NEW n \in DOMAIN w, ~(n < k) PROVE w[n] = pending_starts[n + 1]
      <4>1. n - (k - 1) \in 1..(Len(pending_starts) - k) /\ k + (n - (k - 1)) = n + 1
        BY <3>1, <3>2, <3>4
      <4>2. w[n] = back[n - (k - 1)]
        BY <2>6, <2>8, <3>1, <3>2, <3>4
      <4> QED
        BY <2>7, <4>1, <4>2
    <3> QED
      BY <2>3, <3>1, <3>2, <3>3, <3>4
  <2>5. \A m, n \in DOMAIN w : at(m) = at(n) => m = n
    BY <2>1, <2>3, <2>4
  <2> HIDE DEF at
  <2> QED
    BY <2>1, <2>4, <2>5, QueueFacts DEF w
<1> QED
  BY <1>1, <1>2

LEMMA StopReconfigures ==
  ASSUME SupervisedInv, KnownInv, ReconfiguredInv, ReconfigureStep, ReconfigureStop(Head(work))
  PROVE  ReconfiguredInv' /\ KnownInv'
<1> DEFINE i == Head(work)
<1>1. AgendaInv /\ i \in Ids /\ phase' \in {phase, "commands"}
      /\ \A j \in Ids \ {i} : Unreached(j) => Unreached(j)'
  BY TailOfWork DEF SupervisedInv
<1>2. config' = config /\ launching' = launching /\ launching = {} /\ config[i] = NoVersion
  BY DEF ReconfigureStep, ReconfigureStop, ReconfiguredInv
<1>3. pending_starts' = WithoutStart(i)
  BY DEF ReconfigureStop
<1>4. /\ Touches(instances', i) /\ pending_restarts' \subseteq pending_restarts
      /\ i \in DOMAIN instances' => /\ UpToDate(instances'[i], NoVersion)
                                    /\ IsActive(instances'[i])
                                         => Found(instances, i) \/ HasCapacity(Without(i))
  <2>1. CASE i \notin DOMAIN instances
    BY <2>1 DEF ReconfigureStop, Touches
  <2>2. CASE i \in DOMAIN instances
    <3> DEFINE x == instances[i]
               z == [CancelRestart(x) EXCEPT !.replacement = NoVersion]
    <3>1. PICK outcome \in SpawnOutcome : Store(i, HandleStop(i, z, outcome))
      BY <2>2 DEF ReconfigureStop
    <3>2. Shape(x) /\ Consistent(x) /\ NoVersion \in Versions \cup {NoVersion}
      BY <2>2 DEF SupervisedInv
    <3>3. Shape(z) /\ Consistent(z) /\ z.replacement = NoVersion /\ IsActive(z) = IsActive(x)
      <4>1. SameProcess(x, z) /\ z.replacement = NoVersion
        BY <3>2, CancelsRestart
      <4>2. IsActive(z) = IsActive(x)
        BY <3>2, CancelTracks
      <4> QED
        BY <3>2, <4>1, <4>2, SameProcessIsSound DEF Sound
    <3> HIDE DEF z
    <3> DEFINE y == HandleStop(i, z, outcome)
               known == Updated(instances, i, y)
    <3>4. Shape(y) /\ Handled(HasCapacity(Without(i)), z, y)
      BY <3>3, HandleStopIsSound, HandleStopIsHandled DEF Sound
    <3>5. Store(i, y)
      BY <3>1
    <3> HIDE DEF y
    <3>6. /\ Touches(known, i) /\ DOMAIN known = DOMAIN instances
          /\ known[i].replacement = y.replacement /\ known[i].lc = y.lc
      BY <2>2, <3>4, UpdatedOne
    <3>7. instances' = known /\ pending_restarts' \subseteq pending_restarts
      BY <3>5 DEF Store, Delivered
    <3> HIDE DEF known
    <3> QED
      BY <2>2, <3>3, <3>4, <3>6, <3>7 DEF Handled, Keeps, UpToDate, Found, IsActive
  <2> QED
    BY <2>1, <2>2
<1>5. /\ \A n \in DOMAIN pending_starts' :
           /\ pending_starts'[n][1] # i /\ pending_starts'[n][1] \in Ids
           /\ \E m \in DOMAIN pending_starts : pending_starts'[n] = pending_starts[m]
      /\ \A m, n \in DOMAIN pending_starts' : pending_starts'[m][1] = pending_starts'[n][1] => m = n
  BY <1>1, <1>3, WithoutStartFacts, QueueFacts
<1> HIDE DEF i
<1> QED
  BY <1>1, <1>2, <1>4, <1>5, OneInstanceReconfigures

LEMMA NewReconfigures ==
  ASSUME SupervisedInv, KnownInv, ReconfiguredInv, ReconfigureStep, ReconfigureNew(Head(work))
  PROVE  ReconfiguredInv' /\ KnownInv'
<1> DEFINE i == Head(work)
           queued == \E n \in DOMAIN pending_starts : pending_starts[n][1] = i
<1>1. AgendaInv /\ i \in Ids /\ phase' \in {phase, "commands"}
      /\ \A j \in Ids \ {i} : Unreached(j) => Unreached(j)'
  BY TailOfWork DEF SupervisedInv
<1>2. /\ config' = config /\ launching' = launching /\ launching = {}
      /\ i \notin DOMAIN instances /\ config[i] \in Versions
  BY <1>1, ConfiguredVersion DEF ReconfigureStep, ReconfigureNew, ReconfiguredInv
<1>3. CASE queued \/ ~HasCapacity(instances)
  <2>1. /\ UNCHANGED <<instances, pending_restarts>>
        /\ queued => pending_starts' = [n \in DOMAIN pending_starts |->
                       IF pending_starts[n][1] = i THEN <<i, config[i]>> ELSE pending_starts[n]]
        /\ ~queued => pending_starts' = Append(pending_starts, <<i, config[i]>>)
    BY <1>3 DEF ReconfigureNew
  <2>2. Touches(instances', i) /\ i \notin DOMAIN instances'
    BY <1>2, <2>1 DEF Touches
  <2>3. /\ \A n \in DOMAIN pending_starts' :
             \/ /\ pending_starts'[n][1] # i
                /\ \E m \in DOMAIN pending_starts : pending_starts'[n] = pending_starts[m]
             \/ pending_starts'[n] = <<i, config[i]>> /\ i \notin DOMAIN instances'
        /\ \A n \in DOMAIN pending_starts' : pending_starts'[n][1] \in Ids
        /\ \A m, n \in DOMAIN pending_starts' : pending_starts'[m][1] = pending_starts'[n][1] => m = n
    <3>1. CASE queued
      <4>1. DOMAIN pending_starts' = DOMAIN pending_starts
            /\ \A n \in DOMAIN pending_starts :
                 /\ pending_starts'[n][1] = pending_starts[n][1]
                 /\ pending_starts[n][1] # i => pending_starts'[n] = pending_starts[n]
                 /\ pending_starts[n][1] = i => pending_starts'[n] = <<i, config[i]>>
        BY <2>1, <3>1
      <4> QED
        BY <1>1, <2>2, <4>1, QueueFacts
    <3>2. CASE ~queued
      <4> DEFINE len == Len(pending_starts)
      <4>1. pending_starts \in Seq(Ids \X Versions) /\ len \in Nat /\ DOMAIN pending_starts = 1..len
        BY <1>1 DEF AgendaInv
      <4>2. /\ DOMAIN pending_starts' = 1..(len + 1)
            /\ pending_starts'[len + 1] = <<i, config[i]>>
            /\ \A n \in 1..len : pending_starts'[n] = pending_starts[n]
        <5>1. <<i, config[i]>> \in Ids \X Versions
          BY <1>1, <1>2
        <5>2. pending_starts' = Append(pending_starts, <<i, config[i]>>)
          BY <2>1, <3>2
        <5> HIDE DEF i, queued
        <5> QED
          BY <4>1, <5>1, <5>2, AppendProperties
      <4>3. \A n \in 1..len : pending_starts'[n][1] # i
        BY <3>2, <4>1, <4>2
      <4>4. \A n \in 1..(len + 1) : n \in 1..len \/ n = len + 1
        BY <4>1
      <4> HIDE DEF len, queued
      <4> QED
        BY <1>1, <2>2, <4>1, <4>2, <4>3, <4>4, QueueFacts
    <3> QED
      BY <3>1, <3>2
  <2> HIDE DEF i
  <2> QED
    BY <1>1, <1>2, <2>1, <2>2, <2>3, OneInstanceReconfigures
<1>4. CASE ~(queued \/ ~HasCapacity(instances))
  <2>1. PICK outcome \in SpawnOutcome : HandleStart(instances, i, config[i], outcome, {})
    BY <1>4 DEF ReconfigureNew
  <2>2. pending_starts' = pending_starts
    BY <1>4 DEF ReconfigureNew
  <2>3. StartsAs(instances, i, config[i])
    BY <1>2, <2>1, HandleStartTouches DEF Touches
  <2>4. \A n \in DOMAIN pending_starts : pending_starts[n][1] # i
    BY <1>4
  <2>5. \A n \in DOMAIN pending_starts : pending_starts[n][1] \in Ids
    BY <1>1, QueueFacts
  <2>6. \A m, n \in DOMAIN pending_starts : pending_starts[m][1] = pending_starts[n][1] => m = n
    BY <1>1, QueueFacts
  <2> HIDE DEF i, queued
  <2>7. i \in DOMAIN instances' => UpToDate(instances'[i], config[i]) /\ HasCapacity(Without(i))
    BY <1>2, <2>3 DEF StartsAs, UpToDate
  <2> QED
    BY <1>1, <1>2, <2>2, <2>3, <2>4, <2>5, <2>6, <2>7, OneInstanceReconfigures DEF StartsAs
<1> QED
  BY <1>3, <1>4

LEMMA KnownReconfigures ==
  ASSUME SupervisedInv, KnownInv, ReconfiguredInv, ReconfigureStep, ReconfigureKnown(Head(work))
  PROVE  ReconfiguredInv' /\ KnownInv'
<1> DEFINE i == Head(work)
           x == instances[i]
           z == [CancelRestart(x) EXCEPT !.replacement = config[i]]
<1>1. AgendaInv /\ i \in Ids /\ phase' \in {phase, "commands"}
      /\ \A j \in Ids \ {i} : Unreached(j) => Unreached(j)'
  BY TailOfWork DEF SupervisedInv
<1>2. /\ config' = config /\ launching' = launching /\ launching = {}
      /\ i \in DOMAIN instances /\ config[i] \in Versions /\ pending_starts' = pending_starts
  BY <1>1, ConfiguredVersion DEF ReconfigureStep, ReconfigureKnown, ReconfiguredInv
<1>3. PICK outcome \in SpawnOutcome :
        LET stopped == HandleStop(i, z, outcome)
        IN  StartReplacement(Updated(instances, i, stopped), i, outcome, stopped.emitted)
  BY DEF ReconfigureKnown
<1>4. Shape(x) /\ Consistent(x)
  BY <1>2 DEF SupervisedInv
<1>5. Shape(z) /\ Consistent(z) /\ z.replacement = config[i] /\ IsActive(z) = IsActive(x)
  <2>1. SameProcess(x, z) /\ z.replacement = config[i]
    BY <1>2, <1>4, CancelsRestart
  <2>2. IsActive(z) = IsActive(x)
    BY <1>2, <1>4, CancelTracks
  <2> QED
    BY <1>4, <2>1, <2>2, SameProcessIsSound DEF Sound
<1> HIDE DEF z
<1> DEFINE y == HandleStop(i, z, outcome)
           known == Updated(instances, i, y)
<1>6. Shape(y) /\ Handled(HasCapacity(Without(i)), z, y)
  BY <1>5, HandleStopIsSound, HandleStopIsHandled DEF Sound
<1>7. StartReplacement(known, i, outcome, y.emitted)
  BY <1>3
<1> HIDE DEF y
<1>8. /\ Touches(known, i) /\ DOMAIN known = DOMAIN instances
      /\ known[i].replacement = y.replacement /\ known[i].lc = y.lc
  BY <1>2, <1>6, UpdatedOne
<1>9. known[i].replacement = config[i]
      /\ (IsActive(known[i]) => Found(instances, i) \/ HasCapacity(Without(i)))
  BY <1>2, <1>5, <1>6, <1>8 DEF Handled, Keeps, Found, IsActive
<1> HIDE DEF known
<1>10. StartsAs(known, i, config[i])
  BY <1>2, <1>7, <1>8, <1>9, StartReplacementTouches
<1>11. i \in DOMAIN instances' => /\ UpToDate(instances'[i], config[i])
                                  /\ IsActive(instances'[i])
                                       => Found(instances, i) \/ HasCapacity(Without(i))
  BY <1>9, <1>10 DEF StartsAs, UpToDate
<1>12. /\ \A n \in DOMAIN pending_starts : pending_starts[n][1] # i /\ pending_starts[n][1] \in Ids
       /\ \A m, n \in DOMAIN pending_starts : pending_starts[m][1] = pending_starts[n][1] => m = n
  BY <1>1, <1>2, QueueFacts
<1> HIDE DEF i, x
<1> QED
  BY <1>1, <1>2, <1>10, <1>11, <1>12, OneInstanceReconfigures DEF StartsAs

\* A reload has every module before it whose configuration changes.
LEMMA CommandReaches ==
  ASSUME ReconfigureCommand
  PROVE  /\ phase = "commands" /\ phase' = "reconfigure" /\ launching = {} /\ launching' = {}
         /\ UNCHANGED <<instances, pending_starts>>
         /\ \A i \in Ids : config'[i] = config[i] \/ Unreached(i)'
<1>1. PICK next \in Configurations :
        LET changed == {i \in Ids : next[i] # config[i]}
            stops == {i \in changed : next[i] = NoVersion}
        IN  config' = next /\ work' = InOrder(stops) \o InOrder(changed \ stops)
  BY DEF ReconfigureCommand
<1> DEFINE changed == {i \in Ids : next[i] # config[i]}
           stops == {i \in changed : next[i] = NoVersion}
           first == InOrder(stops)
           second == InOrder(changed \ stops)
<1>2. /\ phase = "commands" /\ phase' = "reconfigure" /\ launching = {} /\ launching' = {}
      /\ UNCHANGED <<instances, pending_starts>>
  BY DEF ReconfigureCommand, Accepting
<1>3. ASSUME NEW i \in changed PROVE Unreached(i)'
  <2>1. stops \in SUBSET Ids /\ changed \ stops \in SUBSET Ids
    OBVIOUS
  <2>2. /\ first \in Seq(stops) /\ \A j \in stops : \E n \in DOMAIN first : first[n] = j
        /\ second \in Seq(changed \ stops)
        /\ \A j \in changed \ stops : \E n \in DOMAIN second : second[n] = j
    BY <2>1, InOrderIsIds
  <2>3. work' = first \o second
    BY <1>1
  <2>4. i \in stops \/ i \in changed \ stops
    OBVIOUS
  <2> HIDE DEF first, second, stops
  <2>5. first \in Seq(changed \cup stops) /\ second \in Seq(changed \cup stops)
    BY <2>2
  <2>6. /\ DOMAIN first = 1..Len(first) /\ DOMAIN second = 1..Len(second)
        /\ Len(first) \in Nat /\ Len(second) \in Nat
        /\ DOMAIN work' = 1..(Len(first) + Len(second))
        /\ \A n \in 1..(Len(first) + Len(second)) :
             work'[n] = IF n <= Len(first) THEN first[n] ELSE second[n - Len(first)]
    BY <2>3, <2>5
  <2>7. \E m \in DOMAIN work' : work'[m] = i
    <3>1. CASE i \in stops
      BY <2>2, <2>6, <3>1
    <3>2. CASE i \in changed \ stops
      <4>1. PICK n \in 1..Len(second) : second[n] = i
        BY <2>2, <2>6, <3>2
      <4>2. /\ Len(first) + n \in 1..(Len(first) + Len(second)) /\ ~(Len(first) + n <= Len(first))
            /\ Len(first) + n - Len(first) = n
        BY <2>6
      <4> QED
        BY <2>6, <4>1, <4>2
    <3> QED
      BY <2>4, <3>1, <3>2
  <2> QED
    BY <1>2, <2>7 DEF Unreached
<1>4. \A i \in Ids : config'[i] = config[i] \/ Unreached(i)'
  BY <1>1, <1>3
<1> HIDE DEF changed, stops, first, second
<1> QED
  BY <1>2, <1>4

LEMMA CommandReconfigures ==
  ASSUME SupervisedInv, KnownInv, ReconfiguredInv, ReconfigureCommand
  PROVE  ReconfiguredInv'
<1>1. /\ phase = "commands" /\ phase' = "reconfigure" /\ launching = {} /\ launching' = {}
      /\ UNCHANGED <<instances, pending_starts>>
      /\ \A i \in Ids : config'[i] = config[i] \/ Unreached(i)'
  BY CommandReaches
<1>2. \A i \in DOMAIN instances' : UpToDate(instances'[i], config'[i]) \/ Unreached(i)'
  BY <1>1 DEF ReconfiguredInv, KnownInv, Unreached
<1>3. DeferredAreWanted'
  <2>1. \A n \in DOMAIN pending_starts : pending_starts[n][1] \in Ids
    BY QueueFacts DEF SupervisedInv
  <2> QED
    BY <1>1, <2>1 DEF ReconfiguredInv, DeferredAreWanted, Unreached
<1> QED
  BY <1>1, <1>2, <1>3 DEF ReconfiguredInv, WithinLimit

LEMMA StartCommandReconfigures ==
  ASSUME SupervisedInv, KnownInv, ReconfiguredInv, NEW i \in Ids, StartCommand(i)
  PROVE  ReconfiguredInv' /\ KnownInv'
<1>1. /\ i \in launching /\ launching' \subseteq launching /\ config' = config
      /\ phase = "commands" /\ phase' = phase /\ pending_starts' = pending_starts
  BY DEF StartCommand
<1>2. config[i] \in Versions
  BY <1>1, ConfiguredVersion DEF SupervisedInv, AgendaInv
<1>3. StartsAs(instances, i, config[i])
  BY <1>2, HandleStartTouches DEF StartCommand, Touches
<1>4. i \in DOMAIN instances' =>
        /\ UpToDate(instances'[i], config[i])
        /\ IsActive(instances'[i]) => Found(instances, i) \/ HasCapacity(Without(i))
  BY <1>1, <1>3 DEF StartsAs, UpToDate, ReconfiguredInv, Unreached, Found
<1>5. pending_starts' = << >> /\ \A n \in DOMAIN pending_starts' : FALSE
  BY <1>1 DEF ReconfiguredInv
<1>6. \A j \in Ids \ {i} : Unreached(j) => Unreached(j)'
  BY <1>1 DEF Unreached
<1> QED
  BY <1>1, <1>3, <1>4, <1>5, <1>6, OneInstanceReconfigures DEF StartsAs

\* reap_instances starts the replacements of what it has reaped, then what waits for room.
LEMMA ReplaceReconfigures ==
  ASSUME SupervisedInv, KnownInv, ReconfiguredInv, ReplaceReaped
  PROVE  ReconfiguredInv' /\ KnownInv'
<1> DEFINE i == Head(work)
<1>1. i \in Ids
  BY DEF ReplaceReaped, SupervisedInv, AgendaInv
<1>2. /\ launching' = launching /\ config' = config /\ phase = "replace" /\ phase' = phase
      /\ pending_starts' = pending_starts
  BY DEF ReplaceReaped
<1>3. PICK outcome \in SpawnOutcome : StartReplacement(instances, i, outcome, {})
  BY DEF ReplaceReaped
<1> HIDE DEF i
<1>4. i \in DOMAIN instances =>
        /\ instances[i].replacement \in Versions \cup {NoVersion}
        /\ UpToDate(instances[i], config[i])
  BY <1>2 DEF SupervisedInv, Shape, ReconfiguredInv, Unreached
<1>5. /\ StartsAs(instances, i, instances[i].replacement)
      /\ i \in DOMAIN instances' => i \in DOMAIN instances
      /\ instances' = instances \/ instances[i].replacement # NoVersion
  <2>1. Touches(instances, i)
    BY DEF Touches
  <2> QED
    BY <1>3, <1>4, <2>1, StartReplacementTouches
<1>6. i \in DOMAIN instances' =>
        /\ UpToDate(instances'[i], config[i])
        /\ IsActive(instances'[i]) => Found(instances, i) \/ HasCapacity(Without(i))
  BY <1>4, <1>5 DEF StartsAs, UpToDate, Found
<1>7. \A j \in Ids \ {i} : Unreached(j) => Unreached(j)'
  BY <1>2 DEF Unreached
<1>8. launching # {} => pending_starts' = << >>
  BY <1>2 DEF ReconfiguredInv
<1>9. /\ \A n \in DOMAIN pending_starts : pending_starts[n][1] \in Ids
      /\ \A n \in DOMAIN pending_starts :
           \/ pending_starts[n][1] # i
           \/ pending_starts[n] = <<i, config[i]>> /\ i \notin DOMAIN instances'
      /\ \A m, n \in DOMAIN pending_starts : pending_starts[m][1] = pending_starts[n][1] => m = n
  <2>1. AgendaInv
    BY DEF SupervisedInv
  <2>2. ASSUME NEW n \in DOMAIN pending_starts, pending_starts[n][1] = i
        PROVE  pending_starts[n] = <<i, config[i]>> /\ i \notin DOMAIN instances'
    <3>1. i \notin DOMAIN instances /\ pending_starts[n] \in Ids \X Versions
      BY <2>1, <2>2, QueueFacts
    <3>2. pending_starts[n][2] = config[i]
      BY <1>2, <2>2 DEF ReconfiguredInv, DeferredAreWanted, Unreached
    <3> QED
      BY <1>5, <2>2, <3>1, <3>2
  <2> QED
    BY <2>1, <2>2, QueueFacts
<1> QED
  BY <1>1, <1>2, <1>5, <1>6, <1>7, <1>8, <1>9, OneInstanceReconfigures DEF StartsAs

LEMMA PendingReconfigures ==
  ASSUME SupervisedInv, KnownInv, ReconfiguredInv, StartPending
  PROVE  ReconfiguredInv' /\ KnownInv'
<1> DEFINE i == Head(pending_starts)[1]
           version == Head(pending_starts)[2]
<1>1. AgendaInv /\ pending_starts \in Seq(Ids \X Versions) /\ pending_starts # << >>
  BY DEF StartPending, CanStartPending, SupervisedInv, AgendaInv
<1>2. /\ launching' = launching /\ config' = config /\ phase = "replace" /\ phase' = phase
      /\ pending_starts' = Tail(pending_starts)
  BY DEF StartPending
<1>3. /\ 1 \in DOMAIN pending_starts /\ pending_starts[1] = Head(pending_starts)
      /\ Head(pending_starts) \in Ids \X Versions
  BY <1>1
<1>4. i \in Ids /\ version \in Versions /\ i \notin DOMAIN instances /\ version = config[i]
  BY <1>1, <1>2, <1>3, QueueFacts DEF ReconfiguredInv, DeferredAreWanted, Unreached
<1>5. StartsAs(instances, i, version)
  <2>1. Touches(instances, i)
    BY DEF Touches
  <2> QED
    BY <1>4, <2>1, HandleStartTouches DEF StartPending
<1>6. /\ \A n \in DOMAIN pending_starts' :
           n + 1 \in DOMAIN pending_starts /\ n + 1 # 1 /\ pending_starts'[n] = pending_starts[n + 1]
      /\ \A m, n \in DOMAIN pending_starts' : m + 1 = n + 1 => m = n
  BY <1>1, <1>2
<1>7. /\ \A n \in DOMAIN pending_starts' : pending_starts'[n][1] \in Ids /\ pending_starts'[n][1] # i
      /\ \A m, n \in DOMAIN pending_starts' : pending_starts'[m][1] = pending_starts'[n][1] => m = n
  BY <1>1, <1>3, <1>6, QueueFacts
<1> HIDE DEF i, version
<1>8. i \in DOMAIN instances' => UpToDate(instances'[i], config[i]) /\ HasCapacity(Without(i))
  BY <1>4, <1>5 DEF StartsAs, UpToDate
<1>9. launching # {} => pending_starts' = << >>
  BY <1>1 DEF ReconfiguredInv
<1>10. \A j \in Ids \ {i} : Unreached(j) => Unreached(j)'
  BY <1>2 DEF Unreached
<1> QED
  BY <1>2, <1>4, <1>5, <1>6, <1>7, <1>8, <1>9, <1>10, OneInstanceReconfigures DEF StartsAs

\* Steps outside a reload that start nothing from the configuration.
Handling ==
  \/ \E i \in Ids : \/ StopCommand(i) \/ RestartCommand(i) \/ SendCommand(i)
                   \/ Service(i) \/ ProcessExits(i)
  \/ ShutdownCommand \/ CommandsDone \/ AdvanceLifecycles \/ ServiceDone
  \/ Reap \/ ReapDone \/ Poll

HandlingStep ==
  /\ Handling /\ KeptStep /\ config' = config /\ launching' = launching
  /\ phase # "reconfigure" /\ phase' # "reconfigure"
  /\ pending_starts' \in {pending_starts, << >>}

LEMMA KindsOfSteps ==
  ASSUME SupervisedInv, KnownInv, Next
  PROVE  \/ HandlingStep \/ Done
         \/ \E i \in Ids : StartCommand(i)
         \/ ReconfigureCommand \/ ReconfigureStep \/ ReplaceReaped \/ StartPending
<1>1. CASE \E i \in Ids : StopCommand(i) \/ RestartCommand(i) \/ SendCommand(i)
  <2>1. KeptStep
    BY <1>1, CommandKeeps
  <2>2. /\ phase = "commands" /\ UNCHANGED <<phase, config, launching, pending_starts>>
    BY <1>1 DEF StopCommand, RestartCommand, SendCommand, Accepting
  <2> QED
    BY <1>1, <2>1, <2>2 DEF HandlingStep, Handling
<1>2. CASE ShutdownCommand \/ AdvanceLifecycles
  <2>1. /\ phase \in {"commands", "advance"} /\ phase' \in {"commands", "service"}
        /\ config' = config /\ launching' = launching
        /\ pending_starts' \in {pending_starts, << >>}
    BY <1>2 DEF ShutdownCommand, AdvanceLifecycles, Accepting
  <2> QED
    BY <1>2, <2>1, LoopKeeps DEF HandlingStep, Handling
<1>3. CASE \E i \in Ids : Service(i)
  <2>1. phase = "service" /\ UNCHANGED <<phase, config, launching, pending_starts>>
    BY <1>3 DEF Service, ServiceLine, ServiceEof, ServiceError
  <2> QED
    BY <1>3, <2>1, ServiceKeeps DEF HandlingStep, Handling
<1>4. CASE Reap
  <2>1. phase = "reap" /\ phase' \in {"reap", "replace"} /\ UNCHANGED <<config, launching, pending_starts>>
    BY <1>4 DEF Reap
  <2> QED
    BY <1>4, <2>1, ReapKeeps DEF HandlingStep, Handling
<1>5. CASE (\E i \in Ids : ProcessExits(i)) \/ Poll
  <2>1. phase = "poll" /\ phase' \in {"poll", "commands"} /\ UNCHANGED <<config, launching, pending_starts>>
    BY <1>5 DEF ProcessExits, Poll, Polled
  <2> QED
    BY <1>5, <2>1, WorldKeeps DEF HandlingStep, Handling
<1>6. CASE CommandsDone \/ ServiceDone \/ ReapDone
  <2>1. /\ phase \in {"commands", "service", "replace"} /\ phase' \in {"advance", "reap", "done", "poll"}
        /\ UNCHANGED <<instances, pending_restarts, config, launching, pending_starts>>
    BY <1>6 DEF CommandsDone, ServiceDone, ReapDone
  <2> QED
    BY <1>6, <2>1, QuietStepKeeps DEF HandlingStep, Handling
<1> QED
  BY <1>1, <1>2, <1>3, <1>4, <1>5, <1>6 DEF Next, Command

LEMMA ReconfigurationKept ==
  ASSUME SupervisedInv, KnownInv, ReconfiguredInv, [Next]_vars
  PROVE  KnownInv' /\ ReconfiguredInv'
<1>1. CASE HandlingStep
  <2>1. ReconfiguredInv'
    BY <1>1, KeptReconfigures DEF HandlingStep
  <2> QED
    BY <1>1, <2>1 DEF HandlingStep, KnownInv, KeptStep
<1>2. CASE ReconfigureCommand
  <2>1. UNCHANGED <<instances, pending_restarts>>
    BY <1>2 DEF ReconfigureCommand
  <2> QED
    BY <1>2, <2>1, CommandReconfigures DEF KnownInv
<1>3. CASE (\E i \in Ids : StartCommand(i)) \/ ReplaceReaped \/ StartPending
  BY <1>3, StartCommandReconfigures, ReplaceReconfigures, PendingReconfigures
<1>4. CASE ReconfigureStep
  BY <1>4, StopReconfigures, NewReconfigures, KnownReconfigures DEF ReconfigureStep
<1>5. CASE Done \/ UNCHANGED vars
  BY <1>5 DEF Done, vars, KnownInv, ReconfiguredInv, WithinLimit, DeferredAreWanted, Unreached
<1> QED
  BY <1>1, <1>2, <1>3, <1>4, <1>5, KindsOfSteps

LEMMA ReconfiguredInitially == Init => KnownInv /\ ReconfiguredInv
<1> SUFFICES ASSUME Init PROVE KnownInv /\ ReconfiguredInv
  OBVIOUS
<1>1. /\ DOMAIN instances = {} /\ pending_starts = << >> /\ pending_restarts = {}
      /\ phase = "commands"
  BY DEF Init
<1>2. {i \in DOMAIN instances : IsActive(instances[i])} = {}
  BY <1>1
<1>3. ActiveIn(instances) = 0
  BY <1>2, FS_EmptySet DEF ActiveIn
<1>4. WithinLimit
  BY <1>3, SupervisorAssumption DEF WithinLimit
<1> QED
  BY <1>1, <1>4 DEF KnownInv, ReconfiguredInv, DeferredAreWanted

\* Without reloads nothing is deferred or replaced, and restarts begin after the launch.
RestartInv ==
  /\ PendingRestartsTracked
  /\ pending_starts = << >> /\ phase # "reconfigure"
  /\ \A i \in DOMAIN instances : instances[i].replacement = NoVersion
  /\ launching # {} => pending_restarts = {}

LEMMA RestartsKept ==
  ASSUME "reconfigure" \notin Commands, SupervisedInv, KnownInv, RestartInv, [Next]_vars
  PROVE  RestartInv'
<1>1. CASE HandlingStep
  BY <1>1 DEF HandlingStep, KeptStep, RestartInv
<1>2. CASE \E i \in Ids : StartCommand(i)
  <2>1. PICK i \in Ids : StartCommand(i)
    BY <1>2
  <2>2. /\ i \in launching /\ UNCHANGED <<pending_starts, phase>>
        /\ \E outcome \in SpawnOutcome : HandleStart(instances, i, config[i], outcome, {})
    BY <2>1 DEF StartCommand
  <2>3. config[i] \in Versions
    BY <2>2, ConfiguredVersion DEF SupervisedInv, AgendaInv
  <2>4. StartsAs(instances, i, config[i])
    BY <2>2, <2>3, HandleStartTouches DEF Touches
  <2>5. \A j \in DOMAIN instances' : instances'[j].replacement = NoVersion
    BY <2>4 DEF StartsAs, Touches, RestartInv
  <2>6. pending_restarts' = {}
    BY <2>2, <2>4 DEF StartsAs, RestartInv
  <2> QED
    BY <2>2, <2>5, <2>6 DEF RestartInv, PendingRestartsTracked
<1>3. CASE ReplaceReaped
  <2>1. PICK outcome \in SpawnOutcome : StartReplacement(instances, Head(work), outcome, {})
    BY <1>3 DEF ReplaceReaped
  <2>2. instances' = instances /\ pending_restarts' = pending_restarts
    BY <2>1 DEF StartReplacement, RestartInv, Delivered
  <2>3. UNCHANGED <<pending_starts, phase, launching>>
    BY <1>3 DEF ReplaceReaped
  <2> QED
    BY <2>2, <2>3 DEF RestartInv, PendingRestartsTracked
<1>4. ~ReconfigureCommand /\ ~ReconfigureStep /\ ~StartPending
  BY DEF ReconfigureCommand, Accepting, ReconfigureStep, StartPending, CanStartPending, RestartInv
<1>5. CASE Done \/ UNCHANGED vars
  BY <1>5 DEF Done, vars, RestartInv, PendingRestartsTracked
<1> QED
  BY <1>1, <1>2, <1>3, <1>4, <1>5, KindsOfSteps

--------------------------------------------------------------------------------
(* Outdated instances leave: what is stopping by request, or stopped, stays so.    *)

Ending(x) ==
  \/ x.lc.state = "stopping" /\ x.lc.pending_stop_cause = "requested"
  \/ x.lc.state = "stopped"

SameEnd(x, y) ==
  /\ y.lc.state = x.lc.state /\ y.lc.pending_stop_cause = x.lc.pending_stop_cause
  /\ y.restart_after_stop = x.restart_after_stop

LEMMA AdvanceLeavesEnding ==
  ASSUME NEW x, Shape(x), Ending(x), NEW outcome, NEW delivered
  PROVE  SameEnd(x, Advanced(x, outcome, delivered))
<1> DEFINE lc == x.lc
           ticked == [x EXCEPT !.lc = lc]
<1>1. lc \in LifecycleRecord /\ lc.state \in {"stopping", "stopped"}
  BY DEF Shape, Ending
<1>2. ~HandshakeExpired(lc) /\ ~BackoffElapsed(lc) /\ Tick(lc) = lc
  BY <1>1 DEF HandshakeExpired, BackoffElapsed, Tick, ResetBackoffIfHealthy
<1>3. ticked = x
  BY DEF Shape
<1>4. Advanced(x, outcome, delivered) = SendDueSignal(x, delivered)
  BY <1>2, <1>3 DEF Advanced
<1>5. ASSUME NEW signal
      PROVE  /\ SignalSent(lc, signal).state = lc.state
             /\ SignalSent(lc, signal).pending_stop_cause = lc.pending_stop_cause
  BY <1>1 DEF SignalSent, LifecycleRecord
<1> HIDE DEF lc
<1>6. ASSUME NEW signal, NEW process
      PROVE  LET y == [x EXCEPT !.lc = SignalSent(lc, signal), !.process = process]
             IN  y.lc = SignalSent(lc, signal) /\ y.restart_after_stop = x.restart_after_stop
  BY DEF Shape
<1>7. SendDueSignal(x, delivered) = x
      \/ \E signal, process :
           SendDueSignal(x, delivered) = [x EXCEPT !.lc = SignalSent(lc, signal), !.process = process]
  <2>1. x.lc = lc
    BY DEF lc
  <2> QED
    BY <2>1 DEF SendDueSignal
<1>8. SameEnd(x, SendDueSignal(x, delivered))
  <2>1. CASE SendDueSignal(x, delivered) = x
    BY <2>1 DEF SameEnd
  <2>2. ASSUME NEW signal, NEW process,
               SendDueSignal(x, delivered) = [x EXCEPT !.lc = SignalSent(lc, signal), !.process = process]
        PROVE  SameEnd(x, SendDueSignal(x, delivered))
    <3> DEFINE y == [x EXCEPT !.lc = SignalSent(lc, signal), !.process = process]
    <3>1. y.lc = SignalSent(lc, signal) /\ y.restart_after_stop = x.restart_after_stop
      BY <1>6
    <3>2. SendDueSignal(x, delivered) = y
      BY <2>2
    <3> HIDE DEF y
    <3>3. /\ y.lc.state = x.lc.state /\ y.lc.pending_stop_cause = x.lc.pending_stop_cause
          /\ y.restart_after_stop = x.restart_after_stop
      BY <1>5, <3>1 DEF lc
    <3> QED
      BY <3>2, <3>3 DEF SameEnd
  <2> QED
    BY <1>7, <2>1, <2>2
<1> QED
  BY <1>4, <1>8

LEMMA StopLeavesEnding ==
  ASSUME NEW i, NEW x, Ending(x), NEW outcome
  PROVE  StopRequested(x) = x /\ HandleStop(i, x, outcome) = x
  BY DEF Ending, StopRequested, HandleStop

LEMMA TimeLeavesEnding ==
  ASSUME NEW x, Shape(x)
  PROVE  SameEnd(x, [x EXCEPT !.lc = Elapsed(@), !.eof_for = Older(@, EofGrace)])
<1>1. Elapsed(x.lc).state = x.lc.state /\ Elapsed(x.lc).pending_stop_cause = x.lc.pending_stop_cause
  BY DEF Shape, LifecycleRecord, Elapsed
<1> QED
  BY <1>1 DEF Shape, SameEnd

\* The instance that a step stores is the only one it changes.
LEMMA StoreLeavesEnding ==
  ASSUME NEW i, i \in DOMAIN instances, Shape(instances[i]),
         NEW k, k \in DOMAIN instances, NEW y, Store(k, y),
         k = i => Shape(y) /\ SameEnd(instances[i], y)
  PROVE  SameEnd(instances[i], instances'[i])
<1>1. instances' = Updated(instances, k, y)
  BY DEF Store
<1>2. CASE k = i
  BY <1>1, <1>2, UpdatedOne DEF SameEnd
<1>3. CASE k # i
  <2>1. instances'[i] = instances[i]
    BY <1>1, <1>3 DEF Updated
  <2> QED
    BY <2>1 DEF SameEnd
<1> QED
  BY <1>2, <1>3

LEMMA StoreAllLeavesEnding ==
  ASSUME NEW i, i \in DOMAIN instances, NEW known, DOMAIN known = DOMAIN instances,
         StoreAll(known), Shape(known[i]), SameEnd(instances[i], known[i])
  PROVE  SameEnd(instances[i], instances'[i])
<1> DEFINE z(j) == [known[j] EXCEPT !.emitted = {}]
<1>1. instances' = [j \in DOMAIN known |-> z(j)]
  BY DEF StoreAll
<1>2. z(i).lc = known[i].lc /\ z(i).restart_after_stop = known[i].restart_after_stop
  BY DEF Shape
<1> HIDE DEF z
<1> QED
  BY <1>1, <1>2 DEF SameEnd

\* None of these steps disturbs an instance that ends.
LEMMA ServiceLeavesEnding ==
  ASSUME SupervisedInv, NEW i \in Ids, i \in DOMAIN instances, Ending(instances[i]),
         NEW k \in Ids, Service(k) \/ SendCommand(k) \/ StopCommand(k)
  PROVE  SameEnd(instances[i], instances'[i])
<1>1. k \in DOMAIN instances /\ Shape(instances[i]) /\ Consistent(instances[i])
  BY DEF Service, ServiceLine, ServiceEof, ServiceError, SendCommand, StopCommand, SupervisedInv
<1>2. SameEnd(instances[i], instances[i])
  BY DEF SameEnd
<1>3. CASE ServiceLine(k) \/ ServiceError(k) \/ SendCommand(k)
  <2>1. \E y : Store(k, y)
    BY <1>3 DEF ServiceLine, ServiceError, SendCommand
  <2>2. k # i
    <3>1. ASSUME k = i PROVE FALSE
      <4>1. CASE ServiceLine(k)
        BY <1>1, <3>1, <4>1 DEF ServiceLine, Ending, Consistent, ProcessState
      <4>2. CASE ServiceError(k) \/ SendCommand(k)
        BY <3>1, <4>2 DEF ServiceError, SendCommand, CanFail, Ending
      <4> QED
        BY <1>3, <4>1, <4>2
    <3> QED
      BY <3>1
  <2> QED
    BY <1>1, <2>1, <2>2, StoreLeavesEnding
<1>4. CASE ServiceEof(k)
  <2> DEFINE y == [instances[k] EXCEPT !.eof_for = 0]
  <2>1. Store(k, y)
    BY <1>4 DEF ServiceEof
  <2>2. k = i => Shape(y) /\ SameEnd(instances[i], y)
    BY <1>1, SmallValues DEF Shape, SameEnd
  <2> HIDE DEF y
  <2> QED
    BY <1>1, <2>1, <2>2, StoreLeavesEnding
<1>5. CASE StopCommand(k)
  <2>1. PICK outcome \in SpawnOutcome : Store(k, HandleStop(k, instances[k], outcome))
    BY <1>5 DEF StopCommand
  <2>2. k = i => HandleStop(k, instances[k], outcome) = instances[i]
    BY StopLeavesEnding
  <2> QED
    BY <1>1, <1>2, <2>1, <2>2, StoreLeavesEnding
<1> QED
  BY <1>3, <1>4, <1>5 DEF Service

LEMMA LoopLeavesEnding ==
  ASSUME SupervisedInv, NEW i \in Ids, i \in DOMAIN instances, Ending(instances[i]),
         ShutdownCommand \/ AdvanceLifecycles \/ Poll \/ \E k \in Ids : ProcessExits(k)
  PROVE  SameEnd(instances[i], instances'[i])
<1>1. Shape(instances[i]) /\ Consistent(instances[i])
  BY DEF SupervisedInv
<1>2. CASE ShutdownCommand
  <2> DEFINE known == [j \in DOMAIN instances |-> StopRequested(instances[j])]
  <2>1. DOMAIN known = DOMAIN instances /\ known[i] = instances[i]
    BY StopLeavesEnding
  <2>2. StoreAll(known)
    BY <1>2 DEF ShutdownCommand
  <2> HIDE DEF known
  <2>3. SameEnd(instances[i], known[i]) /\ Shape(known[i])
    BY <1>1, <2>1 DEF SameEnd
  <2> QED
    BY <2>1, <2>2, <2>3, StoreAllLeavesEnding
<1>3. CASE AdvanceLifecycles
  <2>1. PICK outcome \in [DOMAIN instances -> SpawnOutcome],
             delivered \in [DOMAIN instances -> IF "signal" \in Faults THEN BOOLEAN ELSE {TRUE}] :
          StoreAll([j \in DOMAIN instances |-> Advanced(instances[j], outcome[j], delivered[j])])
    BY <1>3 DEF AdvanceLifecycles
  <2> DEFINE known == [j \in DOMAIN instances |-> Advanced(instances[j], outcome[j], delivered[j])]
  <2>2. Shape(known[i]) /\ SameEnd(instances[i], known[i])
    BY <1>1, AdvancedIsSound, AdvanceLeavesEnding DEF Sound
  <2>3. DOMAIN known = DOMAIN instances /\ StoreAll(known)
    BY <2>1
  <2> HIDE DEF known
  <2> QED
    BY <2>2, <2>3, StoreAllLeavesEnding
<1>4. CASE Poll
  <2>1. PICK time \in {0, 1} : Polled(time)
    BY <1>4 DEF Poll
  <2> DEFINE y(j) == [instances[j] EXCEPT !.lc = Elapsed(@), !.eof_for = Older(@, EofGrace)]
  <2>2. instances' = instances \/ instances' = [j \in DOMAIN instances |-> y(j)]
    BY <2>1, Zenon DEF Polled
  <2>3. SameEnd(instances[i], y(i))
    BY <1>1, TimeLeavesEnding
  <2> HIDE DEF y
  <2> QED
    BY <2>2, <2>3 DEF SameEnd
<1>5. CASE \E k \in Ids : ProcessExits(k)
  <2>1. PICK k \in Ids : ProcessExits(k)
    BY <1>5
  <2>5. PICK status \in ExitedProcess : instances' = [instances EXCEPT ![k].process = status]
    BY <2>1 DEF ProcessExits, ExitedProcess
  <2>2. instances'[i] \in {instances[i], [instances[i] EXCEPT !.process = status]}
    BY <2>5
  <2>3. SameEnd(instances[i], instances[i]) /\ SameEnd(instances[i], [instances[i] EXCEPT !.process = status])
    BY <1>1 DEF SameEnd, Shape
  <2> QED
    BY <2>2, <2>3
<1> QED
  BY <1>2, <1>3, <1>4, <1>5

LEMMA RestartLeavesStopping ==
  ASSUME NEW i, NEW x, Shape(x), x.lc.state = "stopping", x.lc.pending_stop_cause = "requested",
         NEW outcome
  PROVE  LET y == HandleRestart(i, x, outcome)
         IN  /\ y.lc.state = "stopping" /\ y.lc.pending_stop_cause = "requested"
             /\ y.restart_after_stop \in {x.restart_after_stop, TRUE}
<1> DEFINE lc == ResetForExplicitRestart(x.lc)
           z == [x EXCEPT !.restart_pending = TRUE, !.lc = ResetForExplicitRestart(@)]
           w == [z EXCEPT !.restart_after_stop = TRUE]
<1>1. lc.state = "stopping" /\ lc.pending_stop_cause = "requested"
  BY DEF Shape, LifecycleRecord, ResetForExplicitRestart
<1>2. z.lc = lc /\ w.lc = lc /\ w.restart_after_stop = TRUE
  BY DEF Shape
<1>3. CASE x.restart_pending
  <2>1. HandleRestart(i, x, outcome) = Emit(x, "restart_completed")
    BY <1>3 DEF HandleRestart
  <2>2. LET y == Emit(x, "restart_completed")
        IN  y.lc = x.lc /\ y.restart_after_stop = x.restart_after_stop
    BY DEF Shape, Emit
  <2> QED
    BY <2>1, <2>2
<1>4. CASE ~x.restart_pending
  <2>1. HandleRestart(i, x, outcome) = HandleStop(i, w, outcome)
    <3>1. z.lc.state = "stopping"
      BY <1>1, <1>2
    <3> QED
      BY <1>4, <3>1 DEF HandleRestart
  <2>2. Ending(w)
    BY <1>1, <1>2 DEF Ending
  <2>3. HandleStop(i, w, outcome) = w
    BY <2>2, StopLeavesEnding
  <2> HIDE DEF w, lc
  <2> QED
    BY <1>1, <1>2, <2>1, <2>3
<1> QED
  BY <1>3, <1>4

\* A process that was asked to stop leaves its instance stopped, and nothing starts it
\* again unless a restart was asked for and no replacement.
LEMMA ReapingEnds ==
  ASSUME NEW i, NEW x, Shape(x), Consistent(x),
         x.lc.state = "stopping", x.lc.pending_stop_cause = "requested",
         x.restart_after_stop => x.replacement # NoVersion, NEW outcome
  PROVE  LET y == HandleReaped(i, Reaped(x), outcome)
         IN  /\ y = Reaped(x) /\ Shape(y) /\ y.lc.state = "stopped" /\ y.replacement = x.replacement
             /\ y.restart_after_stop = x.restart_after_stop
<1> DEFINE lc == Exited(x.lc, x.process)
           moved == [x EXCEPT !.lc = lc]
           r == [moved EXCEPT !.process = "none"]
<1>1. EffectiveCause(x.lc, x.process) = "requested"
  BY DEF EffectiveCause
<1>2. lc.state = "stopped" /\ lc \in LifecycleRecord
  <2>1. x.lc \in LifecycleRecord
    BY DEF Shape
  <2>2. ResetBackoffIfHealthy(x.lc) = x.lc
    BY DEF ResetBackoffIfHealthy
  <2> DEFINE cleared == ClearProcessState(x.lc)
  <2>3. lc = Settled(cleared, "requested")
    BY <1>1, <2>2 DEF Exited, IsFailure
  <2>4. cleared \in LifecycleRecord
    BY <2>1, LifecycleValues DEF ClearProcessState, LifecycleRecord
  <2> HIDE DEF cleared, lc
  <2>5. lc = [cleared EXCEPT !.state = "stopped"]
    BY <2>3 DEF Settled, LockedOut, IsFailure, ShouldRestart
  <2> QED
    BY <2>4, <2>5 DEF LifecycleRecord, ModuleState
<1>3. EmitContextRemoval(x) = x
  BY DEF Consistent, EmitContextRemoval
<1> HIDE DEF lc
<1>4. Moved(x, lc, "requested") = moved
  BY <1>2 DEF Moved
<1>5. Reaped(x) = r
  BY <1>1, <1>3, <1>4 DEF Reaped, lc
<1>6. /\ r.lc = lc /\ r.replacement = x.replacement
      /\ r.restart_after_stop = x.restart_after_stop
  BY DEF Shape
<1>7. Shape(r)
  BY <1>2 DEF Shape, ProcessStatus
<1> HIDE DEF r
<1>8. HandleReaped(i, r, outcome) = r
  BY <1>2, <1>6 DEF HandleReaped, AwaitsReplacement
<1> QED
  BY <1>2, <1>5, <1>6, <1>7, <1>8

\* The loop of reap_instances lists what it reaps for replacement, and keeps the list.
LEMMA ReapLeaves ==
  ASSUME SupervisedInv, NEW i \in Ids, i \in DOMAIN instances, Leaving(i), Reap
  PROVE  Leaving(i)'
<1> DEFINE x == instances[i]
<1>1. Shape(x) /\ Consistent(x) /\ Ending(x)
  BY DEF SupervisedInv, Leaving, Ending
<1>2. cursor \in Ids /\ work \in Seq(Ids) /\ config' = config /\ phase = "reap" /\ phase' \in {"reap", "replace"}
  BY DEF Reap, SupervisedInv, AgendaInv
<1>3. ToBeReplaced(i) => ToBeReplaced(i)'
  <2>1. work' = work \/ work' = Append(work, cursor)
    BY DEF Reap, ReapExited, ReapAlive, ReapFailed, NothingToReap
  <2>2. ASSUME NEW n \in DOMAIN work, work[n] = i
        PROVE  n \in DOMAIN work' /\ work'[n] = i
    BY <1>2, <2>1, <2>2
  <2> QED
    BY <1>2, <2>2 DEF ToBeReplaced
<1>4. SameEnd(x, instances'[i]) /\ instances'[i].replacement = x.replacement => Leaving(i)'
  BY <1>2, <1>3 DEF SameEnd, Leaving
<1>5. SameEnd(x, x)
  BY DEF SameEnd
<1>6. CASE ReapExited(cursor) /\ cursor = i
  <2>1. PICK outcome \in SpawnOutcome : Store(i, HandleReaped(i, Reaped(x), outcome))
    BY <1>6 DEF ReapExited
  <2>2. x.lc.state = "stopping" /\ x.lc.pending_stop_cause = "requested"
    BY <1>1, <1>6 DEF ReapExited, Ending, Consistent, ProcessState, ExitedProcess
  <2>3. x.replacement = config[i] /\ (x.restart_after_stop => config[i] # NoVersion)
    BY DEF Leaving
  <2> DEFINE y == HandleReaped(i, Reaped(x), outcome)
  <2>4. /\ y = Reaped(x) /\ Shape(y) /\ y.lc.state = "stopped" /\ y.replacement = x.replacement
        /\ y.restart_after_stop = x.restart_after_stop
    BY <1>1, <2>2, <2>3, ReapingEnds
  <2>5. work' = IF AwaitsReplacement(y) THEN Append(work, i) ELSE work
    BY <1>6, <2>4 DEF ReapExited
  <2>6. Store(i, y)
    BY <2>1
  <2> HIDE DEF y
  <2>7. /\ instances'[i].lc.state = "stopped" /\ instances'[i].replacement = x.replacement
        /\ instances'[i].restart_after_stop = x.restart_after_stop
    BY <2>4, <2>6, UpdatedOne DEF Store
  <2>8. config[i] # NoVersion => ToBeReplaced(i)'
    <3>1. ASSUME config[i] # NoVersion PROVE work' = Append(work, i)
      BY <2>3, <2>4, <2>5, <3>1 DEF AwaitsReplacement
    <3>2. ASSUME work' = Append(work, i)
          PROVE  Len(work) + 1 \in DOMAIN work' /\ work'[Len(work) + 1] = i
      BY <1>2, <3>2
    <3> QED
      BY <1>2, <3>1, <3>2 DEF ToBeReplaced
  <2> QED
    BY <1>2, <2>3, <2>7, <2>8 DEF Leaving
<1>7. CASE ~(ReapExited(cursor) /\ cursor = i)
  <2>1. SameEnd(x, instances'[i]) /\ instances'[i].replacement = x.replacement
    <3>1. CASE cursor # i
      <4>1. instances' = instances \/ \E y : Store(cursor, y) /\ cursor \in DOMAIN instances
        BY DEF Reap, ReapExited, ReapAlive, ReapFailed, NothingToReap
      <4>2. instances'[i] = x
        BY <3>1, <4>1 DEF Store, Updated
      <4> QED
        BY <1>5, <4>2
    <3>2. CASE cursor = i
      <4>1. instances' = instances \/ Store(i, x)
        <5>1. BeginFailure(x, "io_error") = x
          BY <1>1 DEF BeginFailure, CanFail, Ending
        <5> QED
          BY <1>7, <3>2, <5>1 DEF Reap, ReapAlive, ReapFailed, NothingToReap
      <4> QED
        BY <1>1, <1>5, <4>1, UpdatedOne DEF Store, SameEnd
    <3> QED
      BY <3>1, <3>2
  <2> QED
    BY <1>4, <2>1
<1> QED
  BY <1>6, <1>7

\* A replacement that is due takes the place of the instance, or leaves none.
LEMMA QuiescentIsReplaced ==
  ASSUME NEW i, NEW known, Touches(known, i), i \in DOMAIN known, Quiescent(known[i]),
         known[i].replacement \in Versions, known[i].replacement # NoVersion,
         NEW outcome \in SpawnOutcome, NEW earlier, StartReplacement(known, i, outcome, earlier)
  PROVE  i \in DOMAIN instances' => instances'[i].version = known[i].replacement
<1> DEFINE rest == [j \in DOMAIN known \ {i} |-> known[j]]
<1>1. Touches(rest, i) /\ i \notin DOMAIN rest
  BY DEF Touches
<1>2. HandleStart(rest, i, known[i].replacement, outcome, earlier)
  BY DEF StartReplacement
<1> HIDE DEF rest
<1>3. StartsAs(rest, i, known[i].replacement)
  BY <1>1, <1>2, HandleStartTouches
<1> QED
  BY <1>1, <1>3 DEF StartsAs

\* An instance that leaves goes on leaving, whatever handles it.
LEMMA LeavingStays ==
  ASSUME SupervisedInv, NEW i \in Ids, i \in DOMAIN instances, Leaving(i), HandlingStep
  PROVE  Leaving(i)'
<1> DEFINE x == instances[i]
<1>1. Shape(x) /\ Consistent(x) /\ Ending(x)
  BY DEF SupervisedInv, Leaving, Ending
<1>2. x.replacement = config[i] /\ config' = config /\ instances'[i].replacement = x.replacement
  BY DEF Leaving, HandlingStep, KeptStep
<1>3. CASE Reap
  BY <1>3, ReapLeaves
<1>4. ASSUME ~Reap PROVE ~ToBeReplaced(i)
  <2>1. phase \in {"commands", "advance", "service", "poll"} \/ work = << >>
    BY <1>4 DEF HandlingStep, Handling, StopCommand, RestartCommand, SendCommand, Accepting,
       ShutdownCommand, AdvanceLifecycles, Service, ServiceLine, ServiceEof, ServiceError,
       ProcessExits, Poll, Polled, CommandsDone, ServiceDone, ReapDone
  <2> QED
    BY <2>1 DEF ToBeReplaced
<1>5. CASE RestartCommand(i)
  <2>1. PICK outcome \in SpawnOutcome : instances' = Updated(instances, i, HandleRestart(i, x, outcome))
    BY <1>5 DEF RestartCommand
  <2>2. config[i] # NoVersion /\ ~Reap
    BY <1>5 DEF RestartCommand, Accepting, Reap
  <2>3. x.lc.state = "stopping" /\ x.lc.pending_stop_cause = "requested"
    BY <1>4, <2>2 DEF Leaving
  <2> DEFINE y == HandleRestart(i, x, outcome)
  <2>4. y.lc.state = "stopping" /\ y.lc.pending_stop_cause = "requested"
    BY <1>1, <2>3, RestartLeavesStopping
  <2>5. Shape(y)
    BY <1>1, HandleRestartIsSound DEF Sound
  <2>6. instances' = Updated(instances, i, y)
    BY <2>1
  <2> HIDE DEF y
  <2>7. instances'[i].lc = y.lc
    BY <2>5, <2>6, UpdatedOne
  <2> QED
    BY <1>2, <2>2, <2>4, <2>7 DEF Leaving
<1>6. CASE ~Reap /\ ~RestartCommand(i)
  <2>1. SameEnd(x, instances'[i])
    <3>1. CASE \E k \in Ids : Service(k) \/ SendCommand(k) \/ StopCommand(k)
      BY <1>1, <3>1, ServiceLeavesEnding
    <3>2. CASE \E k \in Ids \ {i} : RestartCommand(k)
      <4>1. PICK k \in Ids \ {i} : RestartCommand(k)
        BY <3>2
      <4>2. PICK y : instances' = Updated(instances, k, y)
        BY <4>1 DEF RestartCommand
      <4>3. instances'[i] = x
        BY <4>1, <4>2 DEF Updated, RestartCommand
      <4> QED
        BY <4>3 DEF SameEnd
    <3>3. CASE ShutdownCommand \/ AdvanceLifecycles \/ Poll \/ \E k \in Ids : ProcessExits(k)
      BY <1>1, <3>3, LoopLeavesEnding
    <3>4. CASE CommandsDone \/ ServiceDone \/ ReapDone
      BY <3>4 DEF CommandsDone, ServiceDone, ReapDone, SameEnd
    <3> QED
      BY <1>6, <3>1, <3>2, <3>3, <3>4 DEF HandlingStep, Handling
  <2> QED
    BY <1>2, <1>4, <1>6, <2>1 DEF Leaving, SameEnd
<1> QED
  BY <1>3, <1>5, <1>6

\* A reload stops what it finds, unless it is stopping already after a failure.
LEMMA ReloadStops ==
  ASSUME NEW i, NEW x, Shape(x), Consistent(x), ~x.restart_after_stop,
         x.lc.state = "stopping" => x.lc.pending_stop_cause = "requested", NEW outcome
  PROVE  LET y == HandleStop(i, x, outcome) IN Ending(y) /\ y.restart_after_stop = FALSE
<1>1. CASE x.lc.state \in {"stopping", "stopped"}
  <2>1. Ending(x)
    BY <1>1 DEF Ending
  <2> QED
    BY <2>1, StopLeavesEnding DEF Shape
<1>2. CASE x.lc.state \notin {"stopping", "stopped"}
  <2> DEFINE removed == IF x.lc.state \in {"starting", "running"} THEN EmitContextRemoval(x) ELSE x
             y == StopRequested(x)
             z == [removed EXCEPT !.lc = Stop(removed.lc)]
  <2>1. removed.lc = x.lc /\ removed.restart_after_stop = FALSE /\ Shape(removed)
    BY DEF EmitContextRemoval, Emit, Shape, Event
  <2>2. x.lc \in LifecycleRecord /\ x.lc.state \in {"starting", "running", "backoff", "failed"}
    BY <1>2 DEF Shape, LifecycleRecord, ModuleState
  <2>3. \/ Stop(x.lc).state = "stopping" /\ Stop(x.lc).pending_stop_cause = "requested"
        \/ Stop(x.lc).state = "stopped"
    BY <2>2 DEF Stop, BeginStopping, LifecycleRecord
  <2>4. y = Moved(removed, Stop(removed.lc), "requested")
    BY <1>2 DEF StopRequested
  <2> HIDE DEF removed, y
  <2>5. z.lc = Stop(x.lc) /\ z.restart_after_stop = FALSE
    BY <2>1 DEF Shape
  <2>6. y = z
    BY <2>1, <2>3, <2>4 DEF Moved
  <2> HIDE DEF z
  <2>7. HandleStop(i, x, outcome) = y
    BY <2>5, <2>6 DEF HandleStop, y
  <2> QED
    BY <2>3, <2>5, <2>6, <2>7 DEF Ending
<1> QED
  BY <1>1, <1>2

\* What becomes of the instance that a step of a reload reaches.
LEMMA ReachedLeaves ==
  ASSUME SupervisedInv, KnownInv, ReconfiguredInv, ReconfigureStep, NEW i, i = Head(work),
         ~FoundDying(i), Outdated(i)'
  PROVE  Leaving(i)'
<1> DEFINE x == instances[i]
           z == [CancelRestart(x) EXCEPT !.replacement = config[i]]
<1>1. i \in Ids /\ AgendaInv /\ config' = config /\ phase = "reconfigure"
  BY TailOfWork DEF SupervisedInv, ReconfigureStep
<1>2. config[i] \in Versions \cup {NoVersion}
  BY <1>1, ConfiguredVersion
<1>3. Unreached(i)
  <2>1. work \in Seq(Ids) /\ work # << >>
    BY <1>1 DEF ReconfigureStep, AgendaInv
  <2>2. 1 \in DOMAIN work /\ work[1] = Head(work)
    BY <2>1
  <2> QED
    BY <1>1, <2>2 DEF Unreached
<1>4. ASSUME i \in DOMAIN instances, NEW outcome \in SpawnOutcome
      PROVE  LET y == HandleStop(i, z, outcome)
             IN  /\ Shape(y) /\ Consistent(y) /\ Ending(y) /\ ~y.restart_after_stop
                 /\ y.replacement = config[i]
  <2>1. Shape(x) /\ Consistent(x) /\ (x.lc.state = "stopping" => x.lc.pending_stop_cause = "requested")
    BY <1>3, <1>4 DEF SupervisedInv, FoundDying
  <2>2. z.lc = x.lc /\ ~z.restart_after_stop
    BY <2>1 DEF Shape, CancelRestart, CompleteRestart, Emit
  <2>3. SameProcess(x, z) /\ z.replacement = config[i]
    BY <1>2, <2>1, CancelsRestart
  <2>4. Shape(z) /\ Consistent(z)
    BY <2>1, <2>3, SameProcessIsSound DEF Sound
  <2> HIDE DEF z
  <2> QED
    BY <2>1, <2>2, <2>3, <2>4, ReloadStops, HandleStopIsSound DEF Sound
<1>5. CASE ReconfigureStop(i)
  <2>1. config[i] = NoVersion
    BY <1>5 DEF ReconfigureStop
  <2>2. i \in DOMAIN instances
    BY <1>5 DEF ReconfigureStop, Outdated
  <2>3. PICK outcome \in SpawnOutcome : Store(i, HandleStop(i, z, outcome))
    BY <1>5, <2>1, <2>2 DEF ReconfigureStop
  <2> DEFINE y == HandleStop(i, z, outcome)
  <2>4. /\ Shape(y) /\ Ending(y) /\ ~y.restart_after_stop /\ y.replacement = config[i]
    BY <1>4, <2>2
  <2>5. Store(i, y)
    BY <2>3
  <2> HIDE DEF y
  <2>6. /\ instances'[i].lc = y.lc /\ instances'[i].replacement = y.replacement
        /\ instances'[i].restart_after_stop = y.restart_after_stop
    BY <2>2, <2>4, <2>5, UpdatedOne DEF Store
  <2> QED
    BY <1>1, <2>1, <2>4, <2>6 DEF Leaving, Ending
<1>6. CASE ReconfigureNew(i)
  <2>1. i \notin DOMAIN instances /\ config[i] \in Versions
    BY <1>2, <1>6 DEF ReconfigureNew
  <2>2. i \in DOMAIN instances'
    BY DEF Outdated
  <2>3. PICK outcome \in SpawnOutcome : HandleStart(instances, i, config[i], outcome, {})
    BY <1>6, <2>1, <2>2 DEF ReconfigureNew
  <2>4. StartsAs(instances, i, config[i])
    BY <2>1, <2>3, HandleStartTouches DEF Touches
  <2> QED
    BY <1>1, <2>1, <2>2, <2>4 DEF StartsAs, Outdated
<1>7. CASE ReconfigureKnown(i)
  <2>1. i \in DOMAIN instances /\ config[i] \in Versions /\ config[i] # NoVersion
    BY <1>2, <1>7 DEF ReconfigureKnown
  <2>2. PICK outcome \in SpawnOutcome :
          LET stopped == HandleStop(i, z, outcome)
          IN  StartReplacement(Updated(instances, i, stopped), i, outcome, stopped.emitted)
    BY <1>7 DEF ReconfigureKnown
  <2> DEFINE y == HandleStop(i, z, outcome)
             known == Updated(instances, i, y)
  <2>3. Shape(y) /\ Consistent(y) /\ Ending(y) /\ ~y.restart_after_stop /\ y.replacement = config[i]
    BY <1>4, <2>1
  <2>4. StartReplacement(known, i, outcome, y.emitted)
    BY <2>2
  <2> HIDE DEF y
  <2>5. /\ Touches(known, i) /\ DOMAIN known = DOMAIN instances
        /\ known[i].lc = y.lc /\ known[i].replacement = config[i] /\ known[i].process = y.process
        /\ known[i].restart_after_stop = y.restart_after_stop
    BY <2>1, <2>3, UpdatedOne
  <2> HIDE DEF known
  <2>6. CASE y.lc.state = "stopped"
    <3>1. Quiescent(known[i])
      BY <2>3, <2>5, <2>6 DEF Quiescent, Consistent, ProcessState
    <3> QED
      BY <1>1, <2>1, <2>4, <2>5, <3>1, QuiescentIsReplaced DEF Outdated
  <2>7. CASE y.lc.state # "stopped"
    <3>1. y.lc.state = "stopping" /\ y.lc.pending_stop_cause = "requested"
      BY <2>3, <2>7 DEF Ending
    <3>2. instances' = known
      BY <2>4, <2>5, <3>1 DEF StartReplacement, Quiescent
    <3> QED
      BY <1>1, <2>1, <2>3, <2>5, <3>1, <3>2 DEF Leaving
  <2> QED
    BY <2>6, <2>7
<1> QED
  BY <1>5, <1>6, <1>7 DEF ReconfigureStep

LEMMA StepTouches ==
  ASSUME SupervisedInv, ReconfiguredInv, ReconfigureStep
  PROVE  Touches(instances', Head(work))
<1> DEFINE i == Head(work)
<1>1. i \in Ids
  BY TailOfWork DEF SupervisedInv
<1>2. config[i] \in Versions \cup {NoVersion} /\ Touches(instances, i)
  BY <1>1, ConfiguredVersion DEF Touches
<1>3. CASE instances' = instances
  BY <1>2, <1>3
<1>4. ASSUME NEW y, i \in DOMAIN instances PROVE Touches(Updated(instances, i, y), i)
  BY <1>4 DEF Touches, Updated
<1>5. CASE ReconfigureStop(i) /\ instances' # instances
  <2>1. i \in DOMAIN instances /\ \E y : Store(i, y)
    BY <1>5 DEF ReconfigureStop
  <2> QED
    BY <1>4, <2>1 DEF Store
<1>6. CASE ReconfigureNew(i) /\ instances' # instances
  <2>1. PICK outcome \in SpawnOutcome : HandleStart(instances, i, config[i], outcome, {})
    BY <1>6 DEF ReconfigureNew
  <2> QED
    BY <1>2, <1>6, <2>1, HandleStartTouches DEF ReconfigureNew, StartsAs
<1>7. CASE ReconfigureKnown(i)
  <2>1. PICK outcome \in SpawnOutcome :
          LET stopped == HandleStop(i, [CancelRestart(instances[i]) EXCEPT !.replacement = config[i]], outcome)
          IN  StartReplacement(Updated(instances, i, stopped), i, outcome, stopped.emitted)
    BY <1>7 DEF ReconfigureKnown
  <2> DEFINE y == HandleStop(i, [CancelRestart(instances[i]) EXCEPT !.replacement = config[i]], outcome)
  <2>2. StartReplacement(Updated(instances, i, y), i, outcome, y.emitted) /\ i \in DOMAIN instances
    BY <1>7, <2>1 DEF ReconfigureKnown
  <2> HIDE DEF y
  <2> DEFINE known == Updated(instances, i, y)
             rest == [j \in DOMAIN known \ {i} |-> known[j]]
  <2>3. Touches(known, i) /\ Touches(rest, i)
    BY <1>4, <2>2 DEF Touches
  <2>4. \/ instances' = known \/ instances' = rest
        \/ \E z : instances' = Updated(rest, i, z)
        \/ instances' = [j \in DOMAIN rest \ {i} |-> rest[j]]
        \/ \E z : instances' = Updated([j \in DOMAIN rest \ {i} |-> rest[j]], i, z)
    BY <2>2 DEF StartReplacement, HandleStart
  <2> HIDE DEF rest, known
  <2>5. Touches([j \in DOMAIN rest \ {i} |-> rest[j]], i)
    BY <2>3 DEF Touches
  <2>6. ASSUME NEW r, NEW z, Touches(r, i) PROVE Touches(Updated(r, i, z), i)
    BY <2>6 DEF Touches, Updated
  <2> QED
    BY <2>3, <2>4, <2>5, <2>6
<1> QED
  BY <1>3, <1>5, <1>6, <1>7 DEF ReconfigureStep

\* No step leaves an outdated instance behind.
LEMMA NoneStrays ==
  ASSUME SupervisedInv, KnownInv, ReconfiguredInv, Next, NEW i \in Ids,
         Strayed(i)', ~Strayed(i), ~FoundDying(i)
  PROVE  FALSE
<1>1. /\ i \in DOMAIN instances' /\ instances'[i].version # config'[i] /\ Outdated(i)'
      /\ ~Unreached(i)' /\ ~Leaving(i)'
  BY DEF Strayed, Outdated
\* What a step leaves alone has not strayed.
<1>2. ASSUME i \in DOMAIN instances, instances'[i] = instances[i], config'[i] = config[i],
             Unreached(i) => Unreached(i)', ToBeReplaced(i) => ToBeReplaced(i)'
      PROVE  FALSE
  <2>1. Outdated(i) /\ ~Unreached(i)
    BY <1>1, <1>2 DEF Outdated
  <2>2. Leaving(i)
    BY <2>1 DEF Strayed
  <2> QED
    BY <1>1, <1>2, <2>2 DEF Leaving
<1>3. CASE HandlingStep
  <2>1. /\ i \in DOMAIN instances /\ instances'[i].version = instances[i].version
        /\ config' = config /\ phase # "reconfigure"
    BY <1>1, <1>3 DEF HandlingStep, KeptStep
  <2>2. Leaving(i)
    BY <1>1, <2>1 DEF Strayed, Outdated, Unreached
  <2> QED
    BY <1>1, <1>3, <2>1, <2>2, LeavingStays
<1>4. CASE Done
  BY <1>1, <1>2, <1>4 DEF Done, vars, Unreached, ToBeReplaced
<1>5. CASE \E k \in Ids : StartCommand(k)
  <2>1. PICK k \in Ids : StartCommand(k)
    BY <1>5
  <2>2. k \in launching /\ phase = "commands" /\ config' = config
    BY <2>1 DEF StartCommand
  <2>3. ~Unreached(i) /\ ~ToBeReplaced(i)
    BY <2>2 DEF Unreached, ToBeReplaced
  <2>4. config[k] \in Versions
    BY <2>2, ConfiguredVersion DEF SupervisedInv, AgendaInv
  <2>5. StartsAs(instances, k, config[k])
    BY <2>1, <2>4, HandleStartTouches DEF StartCommand, Touches
  <2>6. i \in DOMAIN instances /\ instances'[i] = instances[i]
    BY <1>1, <2>2, <2>5 DEF StartsAs, Touches
  <2> QED
    BY <1>2, <2>2, <2>3, <2>6
<1>6. CASE ReconfigureCommand
  <2>1. /\ phase = "commands" /\ UNCHANGED instances
        /\ config'[i] = config[i] \/ Unreached(i)'
    BY <1>6, CommandReaches
  <2>2. ~Unreached(i) /\ ~ToBeReplaced(i)
    BY <2>1 DEF Unreached, ToBeReplaced
  <2> QED
    BY <1>1, <1>2, <2>1, <2>2
<1>7. CASE ReconfigureStep
  <2> DEFINE k == Head(work)
  <2>1. k \in Ids /\ (i # k => (Unreached(i) => Unreached(i)')) /\ phase = "reconfigure" /\ config' = config
    BY <1>7, TailOfWork DEF SupervisedInv, ReconfigureStep
  <2>2. i # k
    BY <1>1, <1>7, ReachedLeaves
  <2>3. ~ToBeReplaced(i)
    BY <2>1 DEF ToBeReplaced
  <2>4. i \in DOMAIN instances /\ instances'[i] = instances[i]
    <3>1. Touches(instances', k)
      BY <1>7, StepTouches
    <3> QED
      BY <1>1, <2>2, <3>1 DEF Touches
  <2> QED
    BY <1>2, <2>1, <2>2, <2>3, <2>4
<1>8. CASE ReplaceReaped
  <2> DEFINE k == Head(work)
  <2>1. /\ work \in Seq(Ids) /\ work # << >> /\ k \in Ids /\ work' = Tail(work)
        /\ phase = "replace" /\ phase' = phase /\ config' = config
    BY <1>8 DEF ReplaceReaped, SupervisedInv, AgendaInv
  <2>2. ~Unreached(i) /\ \A j \in DOMAIN instances : UpToDate(instances[j], config[j])
    BY <2>1 DEF Unreached, ReconfiguredInv
  <2>3. PICK outcome \in SpawnOutcome : StartReplacement(instances, k, outcome, {})
    BY <1>8 DEF ReplaceReaped
  <2>4. k \in DOMAIN instances => instances[k].replacement \in Versions \cup {NoVersion}
    BY DEF SupervisedInv, Shape
  <2>5. Touches(instances, k)
    BY DEF Touches
  <2>6. CASE i # k
    <3>1. ToBeReplaced(i) => ToBeReplaced(i)'
      <4>1. ASSUME NEW n \in DOMAIN work, work[n] = i
            PROVE  n - 1 \in DOMAIN work' /\ work'[n - 1] = i
        <5>1. n \in 2..Len(work)
          BY <2>1, <2>6, <4>1
        <5> QED
          BY <2>1, <4>1, <5>1
      <4> QED
        BY <2>1, <4>1 DEF ToBeReplaced
    <3>2. Touches(instances', k)
      BY <2>3, <2>4, <2>5, StartReplacementTouches DEF StartsAs
    <3>3. i \in DOMAIN instances /\ instances'[i] = instances[i]
      BY <1>1, <2>6, <3>2 DEF Touches
    <3> QED
      BY <1>2, <2>1, <2>2, <3>1, <3>3
  <2>7. CASE i = k
    <3> HIDE DEF k
    <3>1. StartReplacement(instances, i, outcome, {}) /\ Touches(instances, i)
      BY <2>3, <2>5, <2>7
    <3>2. /\ StartsAs(instances, i, instances[i].replacement) /\ i \in DOMAIN instances
          /\ instances' = instances \/ instances[i].replacement # NoVersion
      BY <1>1, <2>4, <2>7, <3>1, StartReplacementTouches
    <3>3. ~Quiescent(instances[i]) \/ instances[i].replacement = NoVersion
      BY <1>1, <2>1, <2>2, <2>4, <2>7, <3>1, <3>2, QuiescentIsReplaced DEF UpToDate
    <3>4. instances' = instances
      BY <3>1, <3>3 DEF StartReplacement
    <3>5. Outdated(i)
      BY <1>1, <2>1, <3>2, <3>4 DEF Outdated
    <3>6. Leaving(i)
      BY <2>2, <3>5 DEF Strayed
    <3>7. instances[i].lc.state = "stopped" => config[i] = NoVersion
      BY <3>2, <3>3, <3>6 DEF Leaving, Quiescent, SupervisedInv, Consistent, ProcessState
    <3>8. Leaving(i)'
      BY <2>1, <3>4, <3>6, <3>7 DEF Leaving
    <3> QED
      BY <1>1, <3>8
  <2> QED
    BY <2>6, <2>7
<1>9. CASE StartPending
  <2> DEFINE k == Head(pending_starts)[1]
             version == Head(pending_starts)[2]
  <2>1. /\ phase = "replace" /\ work = << >> /\ config' = config
        /\ pending_starts \in Seq(Ids \X Versions) /\ pending_starts # << >> /\ AgendaInv
    BY <1>9 DEF StartPending, CanStartPending, SupervisedInv, AgendaInv
  <2>2. ~Unreached(i) /\ ~ToBeReplaced(i)
    BY <2>1 DEF Unreached, ToBeReplaced
  <2>3. 1 \in DOMAIN pending_starts /\ pending_starts[1] = Head(pending_starts)
    BY <2>1
  <2>4. k \in Ids /\ version \in Versions /\ k \notin DOMAIN instances /\ version = config[k]
    BY <2>1, <2>3, QueueFacts DEF ReconfiguredInv, DeferredAreWanted, Unreached
  <2>5. StartsAs(instances, k, version)
    BY <1>9, <2>4, HandleStartTouches DEF StartPending, Touches
  <2> HIDE DEF k, version
  <2>6. i \in DOMAIN instances /\ instances'[i] = instances[i]
    BY <1>1, <2>1, <2>4, <2>5 DEF StartsAs, Touches
  <2> QED
    BY <1>2, <2>1, <2>2, <2>6
<1> QED
  BY <1>3, <1>4, <1>5, <1>6, <1>7, <1>8, <1>9, KindsOfSteps

--------------------------------------------------------------------------------
(* The theorems.                                                                  *)

(* What the supervisor keeps of its processes is true: every value has its type, a  *)
(* process belongs to the instances that start, run or stop and to no other, and the *)
(* contexts that the application shows belong to running ones, whatever calls of the *)
(* operating system fail (spawn_process, handle_reaped_instance, remove_contexts).   *)
THEOREM ProcessesStayAccounted == Spec => []ProcessesAreAccounted
<1>1. SupervisedInv /\ KnownInv => ProcessesAreAccounted
  <2> SUFFICES ASSUME SupervisedInv, KnownInv PROVE ProcessesAreAccounted
    OBVIOUS
  <2>1. TypeOK
    BY DEF SupervisedInv, KnownInv, AgendaInv, Shape, TypeOK, InstanceRecord
  <2>2. ProcessMatchesState /\ ContextsNeverOutliveRunning
    BY DEF SupervisedInv, ProcessMatchesState, ContextsNeverOutliveRunning, Consistent
  <2> QED
    BY <2>1, <2>2 DEF ProcessesAreAccounted
<1> QED
  BY <1>1, SupervisedInitially, StepKeepsInv, ReconfiguredInitially, ReconfigurationKept, PTL DEF Spec

(* Through reloads the limit of active instances is kept, what is to replace an     *)
(* outdated instance has the latest definition, and what is queued for want of room  *)
(* is still asked for and queued once (handle_reconfigure, start_or_replace,         *)
(* start_pending_modules).  That outdated instances go is the next theorem.          *)
THEOREM ReconfigurationStaysSound == Spec => []ReconfigurationIsSound
  BY ReconfiguredIsSound, SupervisedInitially, StepKeepsInv, ReconfiguredInitially,
     ReconfigurationKept, PTL DEF Spec

(* A reload takes out every instance of an outdated definition, whatever it was doing *)
(* and whatever stops, restarts, failures and further reloads come in between; only   *)
(* what it finds already stopping after a failure may stay, and be spawned again      *)
(* (handle_reconfigure, handle_reaped_instance, start_replacement_if_quiescent).      *)
THEOREM OutdatedAlwaysLeave == Spec => OutdatedLeaves
<1> DEFINE Leaves == \A i \in Ids : Strayed(i)' => Strayed(i) \/ FoundDying(i)
<1>1. SupervisedInv /\ KnownInv /\ ReconfiguredInv /\ [Next]_vars => [Leaves]_vars
  BY NoneStrays
<1> QED
  BY <1>1, SupervisedInitially, StepKeepsInv, ReconfiguredInitially, ReconfigurationKept, PTL
     DEF Spec, OutdatedLeaves

(* As long as nothing is reloaded, every restart that the dispatcher waits for is    *)
(* one that the supervisor will report (handle_restart, complete_restart); a reload  *)
(* may drop it, see the run that finds it lost.                                      *)
THEOREM RestartsStayTracked ==
  ASSUME "reconfigure" \notin Commands
  PROVE  Spec => []PendingRestartsTracked
<1>1. Init => RestartInv
  BY DEF Init, RestartInv, PendingRestartsTracked
<1>2. SupervisedInv /\ KnownInv /\ RestartInv /\ [Next]_vars => RestartInv'
  BY RestartsKept
<1>3. RestartInv => PendingRestartsTracked
  BY DEF RestartInv
<1> QED
  BY <1>1, <1>2, <1>3, SupervisedInitially, StepKeepsInv, ReconfiguredInitially,
     ReconfigurationKept, PTL DEF Spec

(* After shutdown has begun no backoff, restart, replacement or deferred start      *)
(* spawns a process (begin_global_shutdown, handle_reaped_instance, start_existing).*)
THEOREM ShutdownSpawnsNothing == Spec => NoSpawnAfterShutdown
<1>1. SupervisedInv /\ [Next]_vars => [global_shutdown => Processes(instances') \subseteq Processes(instances)]_vars
  BY EveryStepIsSound DEF SoundStep, NothingSpawned
<1> QED
  BY <1>1, SupervisedInitially, StepKeepsInv, PTL DEF Spec, NoSpawnAfterShutdown

(* The supervisor keeps what ProcessEvents promises the application of the events   *)
(* of each module, through every restart, replacement, failure and shutdown (emit,  *)
(* emit_context_removal).                                                           *)
THEOREM SupervisorImplementsProcessEvents == Spec => ImplementsProcessEvents
<1>1. Init => Events!Init
  BY DEF Init, Events!Init, Presence
<1>2. SupervisedInv /\ SupervisedInv' /\ [Next]_vars
        => [Events!Next]_<<[i \in Ids |-> Presence(i)], published>>
  <2> SUFFICES ASSUME SupervisedInv, SupervisedInv', [Next]_vars PROVE Events!Next
    OBVIOUS
  <2>1. SoundStep
    BY EveryStepIsSound
  <2>2. \A i \in Ids : Presence(i) = StageIn(instances, i) /\ Presence(i)' = StageIn(instances', i)
    BY DEF SupervisedInv, Presence, StageIn, Stage, Consistent
  <2> DEFINE presence == [i \in Ids |-> Presence(i)]
  <2>3. presence' \in [Ids -> Events!Presence]
    BY <2>2 DEF StageIn, Stage, Events!Presence
  <2>4. ASSUME NEW i \in Ids
        PROVE  /\ presence[i] = StageIn(instances, i) /\ presence'[i] = StageIn(instances', i)
               /\ StageIn(instances, i) \in {"absent", "starting", "running"}
    BY <2>2, <2>4 DEF StageIn, Stage
  <2>5. ASSUME NEW i \in Ids
        PROVE  Heard(presence[i], presence'[i], i \in published, i \in published')
    BY <2>1, <2>4, <2>5 DEF SoundStep, PromiseKept
  <2>6. published' \subseteq Ids
    BY <2>1 DEF SoundStep
  <2>7. ASSUME NEW i \in Ids
        PROVE  \/ Events!ProcessStarts(i) \/ Events!BecomesReady(i) \/ Events!Speaks(i)
               \/ Events!ContextsRemoved(i) \/ Events!IsReplaced(i) \/ Events!Undisturbed(i)
    BY <2>4, <2>5, <2>7
    DEF Heard, Events!ProcessStarts, Events!BecomesReady, Events!Speaks, Events!ContextsRemoved,
        Events!IsReplaced, Events!Undisturbed
  <2> QED
    BY <2>3, <2>6, <2>7 DEF Events!Next
<1> QED
  BY <1>1, <1>2, SupervisedInitially, StepKeepsInv, PTL DEF Spec, ImplementsProcessEvents, Events!Spec
================================================================================
