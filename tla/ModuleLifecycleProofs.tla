------------------------- MODULE ModuleLifecycleProofs -------------------------
(* Proofs about one module lifecycle, for every value of the timings, of the     *)
(* failure window and of the failure limit: what each operator returns, one lemma *)
(* per action, then the theorems.                                                 *)

EXTENDS ModuleLifecycle, FiniteSetTheorems, SequenceTheorems, TLAPS

--------------------------------------------------------------------------------
(* Numbers and positions.                                                        *)

\* Every non-empty set of natural numbers has a least element.
LEMMA LeastNumber ==
  ASSUME NEW T \in SUBSET Nat, T # {}
  PROVE  \E least \in T : \A n \in T : least <= n
<1> DEFINE R == OpToRel(<, Nat)
<1>1. IsWellFoundedOn(R, Nat)
  BY NatLessThanWellFounded
<1>2. \A m, n \in Nat : m < n => <<m, n>> \in R
  BY DEF OpToRel
<1> HIDE DEF R
<1>3. PICK least \in T : \A n \in T : <<n, least>> \notin R
  BY <1>1, WFMin
<1>4. \A n \in T : ~(n < least)
  BY <1>2, <1>3
<1> QED
  BY <1>4

\* A downward closed set of positions is a prefix.
LEMMA InitialSegment ==
  ASSUME NEW n \in Nat, NEW S \in SUBSET (1..n), \A j \in S : \A i \in 1..j : i \in S
  PROVE  S = 1..Cardinality(S) /\ Cardinality(S) \in 0..n
<1> DEFINE T == {m \in Nat : m + 1 \notin S}
<1>1. n \in T
  OBVIOUS
<1>2. PICK m \in T : \A k \in T : m <= k
  BY <1>1, LeastNumber
<1>3. \A i \in 1..m : i \in S
  <2> TAKE i \in 1..m
  <2>1. i - 1 \in Nat /\ ~(m <= i - 1)
    BY <1>2
  <2> QED
    BY <1>2, <2>1
<1>4. \A j \in S : j <= m
  <2>1. SUFFICES ASSUME NEW j \in S, m + 1 <= j PROVE FALSE
    BY <1>2
  <2>2. m + 1 \in 1..j
    BY <1>2, <2>1
  <2> QED
    BY <1>2, <2>2
<1>5. S = 1..m
  <2>1. S \subseteq 1..m
    BY <1>2, <1>4
  <2> QED
    BY <1>3, <2>1
<1>6. Cardinality(1..m) = m
  BY <1>2, FS_Interval
<1> QED
  BY <1>1, <1>2, <1>5, <1>6

--------------------------------------------------------------------------------
(* Values that stay inside the members' types.                                   *)

LEMMA Timings ==
  /\ Handshake \in Nat /\ Handshake > 0
  /\ GracefulShutdown \in Nat /\ GracefulShutdown > 0
  /\ TerminateGrace \in Nat /\ TerminateGrace > 0
  /\ InitialBackoff \in Nat /\ InitialBackoff > 0
  /\ MaximumBackoff \in Nat /\ MaximumBackoff > 0
  /\ HealthyReset \in Nat /\ HealthyReset > 0
  /\ FailureWindow \in Nat /\ FailureWindow > 0
  /\ FailureLimit \in Nat /\ FailureLimit > 0
  /\ InitialBackoff <= MaximumBackoff
  BY TimingAssumption

LEMMA TypicalValues ==
  /\ \A limit : Unset \in Span(limit)
  /\ Handshake \in Span(Handshake)
  /\ 0 \in Span(HealthyReset)
  /\ 0 \in Span(GracefulShutdown + TerminateGrace)
  /\ GracefulShutdown \in Span(GracefulShutdown + TerminateGrace)
  /\ TerminateGrace \in Span(GracefulShutdown + TerminateGrace)
  /\ InitialBackoff \in Backoff
  /\ \A b \in Backoff : b \in Span(MaximumBackoff) /\ b # Unset
  /\ 0 # Unset /\ Handshake # Unset /\ GracefulShutdown # Unset /\ TerminateGrace # Unset
  BY Timings DEF Span, Backoff, Unset

LEMMA SpanIsNat ==
  ASSUME NEW limit \in Nat, NEW d \in Span(limit), d # Unset
  PROVE  d \in Nat /\ d <= limit
  BY DEF Span, Unset

LEMMA SoonerIsSooner ==
  ASSUME NEW limit \in Nat, NEW d \in Span(limit)
  PROVE  /\ Sooner(d) \in Span(limit)
         /\ Sooner(d) = Unset <=> d = Unset
         /\ d # Unset => Sooner(d) = d - 1 \/ (d = 0 /\ Sooner(d) = 0)
  BY DEF Sooner, Span, Unset

LEMMA OlderIsOlder ==
  ASSUME NEW limit \in Nat, NEW a \in Span(limit)
  PROVE  /\ Older(a, limit) \in Span(limit)
         /\ Older(a, limit) = Unset <=> a = Unset
         /\ a # Unset => Older(a, limit) = a + 1 \/ (a = limit /\ Older(a, limit) = limit)
  BY DEF Older, Lower, Span, Unset

LEMMA NoFailures == <<>> \in FailureAges /\ Len(<<>>) = 0
  BY DEF FailureAges

LEMMA OlderFailures ==
  ASSUME NEW f \in FailureAges
  PROVE  LET g == [i \in 1..Len(f) |-> Lower(f[i] + 1, FailureWindow + 1)]
         IN  g \in FailureAges /\ Len(g) = Len(f)
<1> DEFINE g == [i \in 1..Len(f) |-> Lower(f[i] + 1, FailureWindow + 1)]
<1>1. \A i \in 1..Len(f) : Lower(f[i] + 1, FailureWindow + 1) \in 0..FailureWindow + 1
  BY Timings DEF FailureAges, Lower
<1>2. Len(f) \in Nat
  BY DEF FailureAges
<1>3. g \in Seq(0..FailureWindow + 1)
  BY <1>1, <1>2
<1>4. Len(g) = Len(f)
  BY <1>2, <1>3
<1> QED
  BY <1>3, <1>4 DEF FailureAges

\* record_failure drops some of the recorded failures and adds one: the list never
\* grows by more than one.
LEMMA RecordedFailures ==
  ASSUME NEW f \in FailureAges
  PROVE  LET g == Append(SubSeq(f, Cardinality(Stale(f)) + 1, Len(f)), 0)
         IN  g \in FailureAges /\ Len(g) <= Len(f) + 1
<1> DEFINE k == Cardinality(Stale(f))
           h == SubSeq(f, k + 1, Len(f))
<1>0. f \in Seq(0..FailureWindow + 1) /\ Len(f) \in Nat /\ FailureWindow \in Nat
  BY Timings DEF FailureAges
<1>1. k \in Nat
  <2>1. IsFiniteSet(1..Len(f))
    BY <1>0, FS_Interval
  <2>2. Stale(f) \in SUBSET (1..Len(f))
    BY DEF Stale
  <2>3. IsFiniteSet(Stale(f))
    BY <2>1, <2>2, FS_Subset
  <2> QED
    BY <2>3, FS_CardinalityType
<1>2. \A i \in k + 1 .. Len(f) : f[i] \in 0..FailureWindow + 1
  BY <1>0, <1>1
<1>3. h \in Seq(0..FailureWindow + 1) /\ Len(h) <= Len(f)
  <2> HIDE DEF k
  <2>1. h \in Seq(0..FailureWindow + 1)
    BY <1>0, <1>1, <1>2, SubSeqProperties
  <2>2. Len(h) = IF k + 1 <= Len(f) THEN Len(f) - (k + 1) + 1 ELSE 0
    BY <1>0, <1>1, <1>2, SubSeqProperties
  <2> QED
    BY <1>0, <1>1, <2>1, <2>2
<1>4. Append(h, 0) \in Seq(0..FailureWindow + 1) /\ Len(Append(h, 0)) <= Len(f) + 1
  <2> HIDE DEF h
  <2> QED
    BY <1>0, <1>3
<1> QED
  BY <1>4 DEF FailureAges

\* The doubled backoff is a backoff, and at least twice the old one unless that
\* exceeds the maximum.
LEMMA DoubledBackoffBounds ==
  ASSUME NEW b \in Backoff
  PROVE  /\ DoubledBackoff(b) \in Backoff
         /\ DoubledBackoff(b) >= Lower(2 * b, MaximumBackoff)
  BY Timings DEF DoubledBackoff, Lower, Backoff

--------------------------------------------------------------------------------
(* What each operator does to every member.                                      *)

LEMMA StartFacts ==
  ASSUME NEW r \in LifecycleRecord
  PROVE  /\ Start(r) \in LifecycleRecord
         /\ Start(r).state = "starting"
         /\ Start(r).next_backoff = InitialBackoff
         /\ Start(r).handshake_deadline = Handshake
         /\ Start(r).restart_at = Unset
         /\ Start(r).running_for = r.running_for
         /\ Start(r).pending_stop_cause = "none"
         /\ Start(r).pending_signal = "none"
         /\ Start(r).signal_at = Unset
         /\ Start(r).failures = IF r.state = "failed" THEN <<>> ELSE r.failures
<1>1. (IF r.state = "failed" THEN <<>> ELSE r.failures) \in FailureAges
  BY NoFailures DEF LifecycleRecord
<1> QED
  BY <1>1, TypicalValues DEF Start, LifecycleRecord, ModuleState

LEMMA ReadyFacts ==
  ASSUME NEW r \in LifecycleRecord
  PROVE  /\ Ready(r) \in LifecycleRecord
         /\ Ready(r).state = "running"
         /\ Ready(r).handshake_deadline = Unset
         /\ Ready(r).running_for = 0
         /\ Ready(r).next_backoff = r.next_backoff
         /\ Ready(r).restart_at = r.restart_at
         /\ Ready(r).pending_stop_cause = r.pending_stop_cause
         /\ Ready(r).pending_signal = r.pending_signal
         /\ Ready(r).signal_at = r.signal_at
         /\ Ready(r).failures = r.failures
  BY TypicalValues DEF Ready, LifecycleRecord, ModuleState

LEMMA BeginStoppingFacts ==
  ASSUME NEW r \in LifecycleRecord, NEW cause \in StopCause,
         NEW at \in Span(GracefulShutdown + TerminateGrace)
  PROVE  LET n == BeginStopping(r, cause, at)
         IN  /\ n \in LifecycleRecord
             /\ n.state = "stopping"
             /\ n.pending_stop_cause = cause
             /\ n.pending_signal = "terminate"
             /\ n.signal_at = at
             /\ n.next_backoff = r.next_backoff
             /\ n.handshake_deadline = r.handshake_deadline
             /\ n.restart_at = r.restart_at
             /\ n.running_for = r.running_for
             /\ n.failures = r.failures
  BY DEF BeginStopping, LifecycleRecord, ModuleState, ShutdownSignal

LEMMA ResetBackoffFacts ==
  ASSUME NEW r \in LifecycleRecord
  PROVE  LET n == ResetBackoffIfHealthy(r)
             healthy == r.state = "running" /\ r.running_for >= HealthyReset
         IN  /\ n \in LifecycleRecord
             /\ n.next_backoff = IF healthy THEN InitialBackoff ELSE r.next_backoff
             /\ n.policy = r.policy
             /\ n.state = r.state
             /\ n.handshake_deadline = r.handshake_deadline
             /\ n.restart_at = r.restart_at
             /\ n.running_for = r.running_for
             /\ n.pending_stop_cause = r.pending_stop_cause
             /\ n.pending_signal = r.pending_signal
             /\ n.signal_at = r.signal_at
             /\ n.failures = r.failures
  BY TypicalValues DEF ResetBackoffIfHealthy, LifecycleRecord

LEMMA BackoffElapsedFacts ==
  ASSUME NEW r \in LifecycleRecord, BackoffElapsed(r)
  PROVE  /\ Tick(r) \in LifecycleRecord
         /\ Tick(r).state = "starting"
         /\ Tick(r).handshake_deadline = Handshake
         /\ Tick(r).restart_at = Unset
         /\ Tick(r).next_backoff = r.next_backoff
         /\ Tick(r).running_for = r.running_for
         /\ Tick(r).pending_stop_cause = r.pending_stop_cause
         /\ Tick(r).pending_signal = r.pending_signal
         /\ Tick(r).signal_at = r.signal_at
         /\ Tick(r).failures = r.failures
<1> DEFINE u == [r EXCEPT !.state = "starting", !.restart_at = Unset,
                          !.handshake_deadline = Handshake]
<1>1. Tick(r) = u
  BY DEF Tick, BackoffElapsed, HandshakeExpired
<1>2. /\ u \in LifecycleRecord
      /\ u.state = "starting"
      /\ u.handshake_deadline = Handshake
      /\ u.restart_at = Unset
      /\ u.next_backoff = r.next_backoff
      /\ u.running_for = r.running_for
      /\ u.pending_stop_cause = r.pending_stop_cause
      /\ u.pending_signal = r.pending_signal
      /\ u.signal_at = r.signal_at
      /\ u.failures = r.failures
  BY TypicalValues DEF LifecycleRecord, ModuleState
<1> HIDE DEF u
<1> QED
  BY <1>1, <1>2

LEMMA HandshakeExpiredFacts ==
  ASSUME NEW r \in LifecycleRecord, HandshakeExpired(r)
  PROVE  /\ Tick(r) \in LifecycleRecord
         /\ Tick(r).state = "stopping"
         /\ Tick(r).pending_stop_cause = "handshake_timeout"
         /\ Tick(r).pending_signal = "terminate"
         /\ Tick(r).signal_at = 0
         /\ Tick(r).handshake_deadline = Unset
         /\ Tick(r).next_backoff = r.next_backoff
         /\ Tick(r).restart_at = r.restart_at
         /\ Tick(r).running_for = r.running_for
         /\ Tick(r).failures = r.failures
<1> DEFINE u == [r EXCEPT !.handshake_deadline = Unset]
<1>1. Tick(r) = BeginStopping(u, "handshake_timeout", 0)
  BY DEF Tick, HandshakeExpired, BackoffElapsed
<1>2. /\ u \in LifecycleRecord
      /\ u.handshake_deadline = Unset
      /\ u.next_backoff = r.next_backoff
      /\ u.restart_at = r.restart_at
      /\ u.running_for = r.running_for
      /\ u.failures = r.failures
  BY TypicalValues DEF LifecycleRecord
<1>3. "handshake_timeout" \in StopCause
  BY DEF StopCause, FailureCause
<1> HIDE DEF u
<1> QED
  BY <1>1, <1>2, <1>3, BeginStoppingFacts, TypicalValues

LEMMA ClearProcessStateFacts ==
  ASSUME NEW r \in LifecycleRecord
  PROVE  LET n == ClearProcessState(r)
         IN  /\ n \in LifecycleRecord
             /\ n.handshake_deadline = Unset
             /\ n.running_for = Unset
             /\ n.pending_stop_cause = "none"
             /\ n.pending_signal = "none"
             /\ n.signal_at = Unset
             /\ n.policy = r.policy
             /\ n.next_backoff = r.next_backoff
             /\ n.restart_at = r.restart_at
             /\ n.failures = r.failures
  BY TypicalValues DEF ClearProcessState, LifecycleRecord

LEMMA RecordFailureFacts ==
  ASSUME NEW r \in LifecycleRecord
  PROVE  LET n == RecordFailure(r)
         IN  /\ n \in LifecycleRecord
             /\ Len(n.failures) <= Len(r.failures) + 1
             /\ \E f \in FailureAges : n = [r EXCEPT !.failures = f]
<1> DEFINE g == Append(SubSeq(r.failures, Cardinality(Stale(r.failures)) + 1,
                              Len(r.failures)), 0)
<1>1. r.failures \in FailureAges
  BY DEF LifecycleRecord
<1>2. g \in FailureAges /\ Len(g) <= Len(r.failures) + 1
  BY <1>1, RecordedFailures
<1>3. RecordFailure(r) = [r EXCEPT !.failures = g]
  BY DEF RecordFailure
<1> HIDE DEF g
<1> QED
  BY <1>2, <1>3 DEF LifecycleRecord

LEMMA EffectiveCauseFacts ==
  ASSUME NEW r \in LifecycleRecord, NEW cause \in StopCause
  PROVE  /\ EffectiveCause(r, cause) \in StopCause
         /\ r.state = "stopping" /\ r.pending_stop_cause # "none"
              => EffectiveCause(r, cause) = r.pending_stop_cause
  BY DEF EffectiveCause, LifecycleRecord, StopCause, FailureCause

\* The three ways exited() ends, from the record with its cleared process state.
LEMMA SettledFacts ==
  ASSUME NEW r \in LifecycleRecord, NEW cause \in StopCause
  PROVE  LET n == Settled(r, cause)
         IN  /\ n \in LifecycleRecord
             /\ n.state \in {"failed", "stopped", "backoff"}
             /\ n.handshake_deadline = r.handshake_deadline
             /\ n.running_for = r.running_for
             /\ n.pending_stop_cause = r.pending_stop_cause
             /\ n.pending_signal = r.pending_signal
             /\ n.signal_at = r.signal_at
             /\ n.failures = r.failures
             /\ n.state # "backoff" => /\ n.restart_at = r.restart_at
                                       /\ n.next_backoff = r.next_backoff
             /\ n.state = "backoff" /\ IsFailure(cause)
                  => /\ n.restart_at = r.next_backoff
                     /\ n.next_backoff = DoubledBackoff(r.next_backoff)
             /\ n.state = "backoff" /\ ~IsFailure(cause)
                  => /\ n.restart_at = InitialBackoff
                     /\ n.next_backoff = InitialBackoff
             /\ n.state = "failed" <=> LockedOut(r, cause)
             /\ cause = "requested" => n.state = "stopped"
<1>1. CASE LockedOut(r, cause)
  <2>1. Settled(r, cause) = [r EXCEPT !.state = "failed"]
    BY <1>1 DEF Settled
  <2>2. cause # "requested"
    BY <1>1 DEF LockedOut, IsFailure
  <2> QED
    BY <1>1, <2>1, <2>2 DEF LifecycleRecord, ModuleState
<1>2. CASE ~LockedOut(r, cause) /\ ~ShouldRestart(r.policy, cause)
  <2>1. Settled(r, cause) = [r EXCEPT !.state = "stopped"]
    BY <1>2 DEF Settled
  <2> QED
    BY <1>2, <2>1 DEF LifecycleRecord, ModuleState
<1>3. CASE ~LockedOut(r, cause) /\ ShouldRestart(r.policy, cause)
  <2> DEFINE delay == IF IsFailure(cause) THEN r.next_backoff ELSE InitialBackoff
             next == IF IsFailure(cause) THEN DoubledBackoff(r.next_backoff)
                                         ELSE InitialBackoff
  <2>1. Settled(r, cause) = [r EXCEPT !.state = "backoff", !.restart_at = delay,
                                      !.next_backoff = next]
    BY <1>3 DEF Settled
  <2>2. delay \in Span(MaximumBackoff) /\ next \in Backoff
    BY TypicalValues, DoubledBackoffBounds DEF LifecycleRecord
  <2>3. cause # "requested"
    BY <1>3 DEF ShouldRestart
  <2>4. /\ IsFailure(cause) => delay = r.next_backoff /\ next = DoubledBackoff(r.next_backoff)
        /\ ~IsFailure(cause) => delay = InitialBackoff /\ next = InitialBackoff
    OBVIOUS
  <2> HIDE DEF delay, next
  <2> DEFINE u == [r EXCEPT !.state = "backoff", !.restart_at = delay, !.next_backoff = next]
  <2>5. /\ u \in LifecycleRecord
        /\ u.state = "backoff"
        /\ u.restart_at = delay
        /\ u.next_backoff = next
        /\ u.handshake_deadline = r.handshake_deadline
        /\ u.running_for = r.running_for
        /\ u.pending_stop_cause = r.pending_stop_cause
        /\ u.pending_signal = r.pending_signal
        /\ u.signal_at = r.signal_at
        /\ u.failures = r.failures
    BY <2>2 DEF LifecycleRecord, ModuleState
  <2> HIDE DEF u
  <2> QED
    BY <1>3, <2>1, <2>3, <2>4, <2>5 DEF u
<1> QED
  BY <1>1, <1>2, <1>3

LEMMA ExitedFacts ==
  ASSUME NEW r \in LifecycleRecord, NEW cause \in StopCause
  PROVE  LET n == Exited(r, cause)
             e == EffectiveCause(r, cause)
             b == ResetBackoffIfHealthy(r).next_backoff
         IN  /\ n \in LifecycleRecord
             /\ n.state \in {"failed", "stopped", "backoff"}
             /\ n.handshake_deadline = Unset
             /\ n.running_for = Unset
             /\ n.pending_stop_cause = "none"
             /\ n.pending_signal = "none"
             /\ n.signal_at = Unset
             /\ n.state # "backoff" => n.restart_at = r.restart_at /\ n.next_backoff = b
             /\ n.state = "backoff" /\ IsFailure(e)
                  => n.restart_at = b /\ n.next_backoff = DoubledBackoff(b)
             /\ n.state = "backoff" /\ ~IsFailure(e)
                  => n.restart_at = InitialBackoff /\ n.next_backoff = InitialBackoff
             /\ n.state # "failed" /\ Len(r.failures) < FailureLimit
                  => Len(n.failures) < FailureLimit
             /\ e = "requested" => n.state = "stopped"
<1> DEFINE e == EffectiveCause(r, cause)
           c == ClearProcessState(ResetBackoffIfHealthy(r))
           m == IF IsFailure(e) THEN RecordFailure(c) ELSE c
           b == ResetBackoffIfHealthy(r).next_backoff
<1>1. Exited(r, cause) = Settled(m, e)
  BY DEF Exited
<1>2. e \in StopCause
  BY EffectiveCauseFacts
<1>3. /\ c \in LifecycleRecord
      /\ c.handshake_deadline = Unset
      /\ c.running_for = Unset
      /\ c.pending_stop_cause = "none"
      /\ c.pending_signal = "none"
      /\ c.signal_at = Unset
      /\ c.next_backoff = b
      /\ c.restart_at = r.restart_at
      /\ c.failures = r.failures
  BY ResetBackoffFacts, ClearProcessStateFacts
<1> HIDE DEF c, b
<1>4. /\ m \in LifecycleRecord
      /\ m.handshake_deadline = Unset
      /\ m.running_for = Unset
      /\ m.pending_stop_cause = "none"
      /\ m.pending_signal = "none"
      /\ m.signal_at = Unset
      /\ m.next_backoff = b
      /\ m.restart_at = r.restart_at
      /\ ~IsFailure(e) => m.failures = r.failures
  <2>1. CASE IsFailure(e)
    <3>1. PICK f \in FailureAges : m = [c EXCEPT !.failures = f]
      BY <1>3, <2>1, RecordFailureFacts
    <3> HIDE DEF m
    <3> QED
      BY <1>3, <2>1, <3>1 DEF LifecycleRecord
  <2>2. CASE ~IsFailure(e)
    BY <1>3, <2>2
  <2> QED
    BY <2>1, <2>2
<1> HIDE DEF m, e
<1>5. /\ Len(m.failures) \in Nat
      /\ LockedOut(m, e) <=> IsFailure(e) /\ Len(m.failures) >= FailureLimit
  BY <1>4 DEF LockedOut, LifecycleRecord, FailureAges
<1>6. Settled(m, e).state # "failed" /\ Len(r.failures) < FailureLimit
        => Len(Settled(m, e).failures) < FailureLimit
  BY <1>2, <1>4, <1>5, SettledFacts, Timings
<1> QED
  BY <1>1, <1>2, <1>4, <1>6, SettledFacts DEF e, b

LEMMA StopFacts ==
  ASSUME NEW r \in LifecycleRecord, ~(r.state \in {"starting", "running"})
  PROVE  /\ Stop(r) \in LifecycleRecord
         /\ Stop(r).state = "stopped"
         /\ Stop(r).restart_at = Unset
         /\ Stop(r).failures = <<>>
         /\ Stop(r).next_backoff = InitialBackoff
         /\ Stop(r).handshake_deadline = r.handshake_deadline
         /\ Stop(r).running_for = r.running_for
         /\ Stop(r).pending_stop_cause = r.pending_stop_cause
         /\ Stop(r).pending_signal = r.pending_signal
         /\ Stop(r).signal_at = r.signal_at
  BY TypicalValues, NoFailures DEF Stop, LifecycleRecord, ModuleState

LEMMA ResetFacts ==
  ASSUME NEW r \in LifecycleRecord
  PROVE  LET n == ResetForExplicitRestart(r)
         IN  /\ n \in LifecycleRecord
             /\ n.failures = <<>>
             /\ n.next_backoff = InitialBackoff
             /\ n.state = r.state
             /\ n.handshake_deadline = r.handshake_deadline
             /\ n.restart_at = r.restart_at
             /\ n.running_for = r.running_for
             /\ n.pending_stop_cause = r.pending_stop_cause
             /\ n.pending_signal = r.pending_signal
             /\ n.signal_at = r.signal_at
  BY TypicalValues, NoFailures DEF ResetForExplicitRestart, LifecycleRecord

LEMMA SignalSentFacts ==
  ASSUME NEW r \in LifecycleRecord, NEW signal \in ShutdownSignal
  PROVE  LET n == SignalSent(r, signal)
         IN  /\ n \in LifecycleRecord
             /\ signal = "terminate" => n.pending_signal = "kill" /\ n.signal_at = TerminateGrace
             /\ signal = "kill" => n.pending_signal = "none" /\ n.signal_at = Unset
             /\ n.state = r.state
             /\ n.next_backoff = r.next_backoff
             /\ n.handshake_deadline = r.handshake_deadline
             /\ n.restart_at = r.restart_at
             /\ n.running_for = r.running_for
             /\ n.pending_stop_cause = r.pending_stop_cause
             /\ n.failures = r.failures
  BY TypicalValues DEF SignalSent, LifecycleRecord, ShutdownSignal

LEMMA DueSignalFacts ==
  ASSUME NEW r \in LifecycleRecord, DueSignal(r) # "none"
  PROVE  /\ DueSignal(r) \in ShutdownSignal
         /\ DueSignal(r) = r.pending_signal
         /\ r.state = "stopping"
         /\ r.signal_at = 0
  BY DEF DueSignal, LifecycleRecord

LEMMA ElapsedFacts ==
  ASSUME NEW r \in LifecycleRecord
  PROVE  /\ Elapsed(r) \in LifecycleRecord
         /\ Elapsed(r).handshake_deadline = Sooner(r.handshake_deadline)
         /\ Elapsed(r).restart_at = Sooner(r.restart_at)
         /\ Elapsed(r).signal_at = Sooner(r.signal_at)
         /\ Elapsed(r).running_for = Older(r.running_for, HealthyReset)
         /\ Len(Elapsed(r).failures) = Len(r.failures)
         /\ Elapsed(r).state = r.state
         /\ Elapsed(r).next_backoff = r.next_backoff
         /\ Elapsed(r).pending_stop_cause = r.pending_stop_cause
         /\ Elapsed(r).pending_signal = r.pending_signal
<1> DEFINE h == Sooner(r.handshake_deadline)
           a == Sooner(r.restart_at)
           s == Sooner(r.signal_at)
           o == Older(r.running_for, HealthyReset)
           f == [i \in 1..Len(r.failures) |-> Lower(r.failures[i] + 1, FailureWindow + 1)]
<1>1. /\ r.handshake_deadline \in Span(Handshake)
      /\ r.restart_at \in Span(MaximumBackoff)
      /\ r.signal_at \in Span(GracefulShutdown + TerminateGrace)
      /\ r.running_for \in Span(HealthyReset)
      /\ r.failures \in FailureAges
  BY DEF LifecycleRecord
<1>2. /\ h \in Span(Handshake)
      /\ a \in Span(MaximumBackoff)
      /\ s \in Span(GracefulShutdown + TerminateGrace)
      /\ o \in Span(HealthyReset)
      /\ f \in FailureAges
      /\ Len(f) = Len(r.failures)
  <2>1. GracefulShutdown + TerminateGrace \in Nat
    BY Timings
  <2> QED
    BY <1>1, <2>1, Timings, SoonerIsSooner, OlderIsOlder, OlderFailures
<1>3. Elapsed(r) = [r EXCEPT !.handshake_deadline = h, !.restart_at = a, !.signal_at = s,
                             !.running_for = o, !.failures = f]
  BY DEF Elapsed
<1> HIDE DEF h, a, s, o, f
<1> DEFINE u == [r EXCEPT !.handshake_deadline = h, !.restart_at = a, !.signal_at = s,
                          !.running_for = o, !.failures = f]
<1>4. /\ u \in LifecycleRecord
      /\ u.handshake_deadline = h
      /\ u.restart_at = a
      /\ u.signal_at = s
      /\ u.running_for = o
      /\ u.failures = f
      /\ u.state = r.state
      /\ u.next_backoff = r.next_backoff
      /\ u.pending_stop_cause = r.pending_stop_cause
      /\ u.pending_signal = r.pending_signal
  BY <1>2 DEF LifecycleRecord
<1>5. Elapsed(r) = u
  BY <1>3
<1> HIDE DEF u
<1> QED
  BY <1>2, <1>4, <1>5 DEF h, a, s, o

\* The failures that exited() leaves, and when they lock the module out.
LEMMA ExitedFailures ==
  ASSUME NEW r \in LifecycleRecord, NEW cause \in StopCause
  PROVE  LET n == Exited(r, cause)
             e == EffectiveCause(r, cause)
         IN  /\ ~IsFailure(e) => n.failures = r.failures
             /\ IsFailure(e) => n.failures = Append(SubSeq(r.failures, Cardinality(Stale(r.failures)) + 1,
                                                            Len(r.failures)), 0)
             /\ n.state = "failed" <=> IsFailure(e) /\ Len(n.failures) >= FailureLimit
<1> DEFINE e == EffectiveCause(r, cause)
           c == ClearProcessState(ResetBackoffIfHealthy(r))
           m == IF IsFailure(e) THEN RecordFailure(c) ELSE c
           g == Append(SubSeq(r.failures, Cardinality(Stale(r.failures)) + 1, Len(r.failures)), 0)
<1>1. Exited(r, cause) = Settled(m, e) /\ e \in StopCause
  BY EffectiveCauseFacts DEF Exited
<1>2. c \in LifecycleRecord /\ c.failures = r.failures
  BY ResetBackoffFacts, ClearProcessStateFacts
<1>3. RecordFailure(c) = [c EXCEPT !.failures = g]
  BY <1>2 DEF RecordFailure
<1>4. RecordFailure(c) \in LifecycleRecord
  BY <1>2, RecordFailureFacts
<1> HIDE DEF c, g
<1>5. m \in LifecycleRecord /\ m.failures = IF IsFailure(e) THEN g ELSE r.failures
  BY <1>2, <1>3, <1>4 DEF LifecycleRecord
<1> HIDE DEF m, e
<1>6. /\ Settled(m, e).failures = m.failures
      /\ Settled(m, e).state = "failed" <=> LockedOut(m, e)
  BY <1>1, <1>5, SettledFacts
<1> QED
  BY <1>1, <1>5, <1>6 DEF LockedOut, e, g

\* What leaves the recorded failures alone, and what clears them.
LEMMA FailuresKept ==
  ASSUME NEW r \in LifecycleRecord
  PROVE  /\ Ready(r).failures = r.failures /\ Tick(r).failures = r.failures
         /\ \A cause : Fail(r, cause).failures = r.failures
         /\ \A signal : SignalSent(r, signal).failures = r.failures
         /\ Start(r).failures = IF r.state = "failed" THEN <<>> ELSE r.failures
         /\ Stop(r).failures = IF r.state \in {"starting", "running"} THEN r.failures ELSE <<>>
         /\ ResetForExplicitRestart(r).failures = <<>>
<1>1. Tick(r).failures = r.failures
  BY DEF Tick, BeginStopping, ResetBackoffIfHealthy, LifecycleRecord
<1>2. /\ Ready(r).failures = r.failures
      /\ \A cause : Fail(r, cause).failures = r.failures
      /\ \A signal : SignalSent(r, signal).failures = r.failures
  BY DEF Ready, Fail, BeginStopping, SignalSent, LifecycleRecord
<1>3. /\ Start(r).failures = IF r.state = "failed" THEN <<>> ELSE r.failures
      /\ Stop(r).failures = IF r.state \in {"starting", "running"} THEN r.failures ELSE <<>>
      /\ ResetForExplicitRestart(r).failures = <<>>
  BY DEF Start, Stop, BeginStopping, ResetForExplicitRestart, LifecycleRecord
<1> QED
  BY <1>1, <1>2, <1>3

--------------------------------------------------------------------------------
(* Each action preserves the inductive invariant, conjunct by conjunct.          *)

\* The members and the history as numbers, where they are set.
LEMMA Numbers ==
  ASSUME TypeOK
  PROVE  /\ lc \in LifecycleRecord
         /\ since_stop # Unset => since_stop \in Nat
         /\ since_term # Unset => since_term \in Nat
         /\ since_exit # Unset => since_exit \in Nat
         /\ lc.restart_at # Unset => lc.restart_at \in Nat
         /\ lc.signal_at # Unset => lc.signal_at \in Nat
         /\ lc.next_backoff \in Backoff
         /\ Len(lc.failures) \in Nat
         /\ last_delay \in Nat
<1>1. lc \in LifecycleRecord /\ GracefulShutdown + TerminateGrace \in Nat
  BY Timings DEF TypeOK
<1>2. /\ lc.restart_at \in Span(MaximumBackoff)
      /\ lc.signal_at \in Span(GracefulShutdown + TerminateGrace)
      /\ lc.failures \in FailureAges
      /\ lc.next_backoff \in Backoff
  BY <1>1 DEF LifecycleRecord
<1> QED
  BY <1>1, <1>2, SpanIsNat, Timings DEF TypeOK, FailureAges

LEMMA StartCallStep ==
  ASSUME IInv, StartCall
  PROVE  IInv'
<1> USE DEF IInv, StartCall, CanStart
<1>0. lc \in LifecycleRecord
  BY DEF TypeOK
<1>1. TypeOK'
  <2>1. history' \in Seq(Nat)
    <3>1. <<>> \in Seq(Nat) /\ history \in Seq(Nat)
      BY DEF TypeOK
    <3> QED
      BY <3>1
  <2>2. last_delay' \in 0..MaximumBackoff
    BY Timings
  <2> QED
    BY <1>0, <2>1, <2>2, StartFacts, TypicalValues DEF TypeOK
<1>2. MembersMatchState'
  BY <1>0, StartFacts, NoFailures, TypicalValues
  DEF MembersMatchState
<1>3. GraceAccounted'
  BY <1>0, StartFacts, NoFailures, TypicalValues, Numbers, Timings
  DEF GraceAccounted, MembersMatchState
<1>4. RestartAccounted'
  BY <1>0, StartFacts, NoFailures, TypicalValues, Numbers, Timings
  DEF RestartAccounted, MembersMatchState
<1>5. BackoffAccounted'
  BY <1>0, StartFacts, NoFailures, TypicalValues, Numbers, Timings
  DEF BackoffAccounted, MembersMatchState
<1>6. LockoutBound'
  BY <1>0, StartFacts, NoFailures, TypicalValues, Numbers, Timings
  DEF LockoutBound, MembersMatchState
<1> QED
  BY <1>1, <1>2, <1>3, <1>4, <1>5, <1>6

LEMMA ReadyCallStep ==
  ASSUME IInv, ReadyCall
  PROVE  IInv'
<1> USE DEF IInv, ReadyCall, CanReady
<1>0. lc \in LifecycleRecord
  BY DEF TypeOK
<1>1. TypeOK'
  BY <1>0, ReadyFacts, TypicalValues
  DEF TypeOK
<1>2. MembersMatchState'
  BY <1>0, ReadyFacts, TypicalValues
  DEF MembersMatchState
<1>3. GraceAccounted'
  BY <1>0, ReadyFacts, TypicalValues, Numbers, Timings
  DEF GraceAccounted, MembersMatchState
<1>4. RestartAccounted'
  BY <1>0, ReadyFacts, TypicalValues, Numbers, Timings
  DEF RestartAccounted, MembersMatchState
<1>5. BackoffAccounted'
  BY <1>0, ReadyFacts, TypicalValues, Numbers, Timings
  DEF BackoffAccounted, MembersMatchState
<1>6. LockoutBound'
  BY <1>0, ReadyFacts, TypicalValues, Numbers, Timings
  DEF LockoutBound, MembersMatchState
<1> QED
  BY <1>1, <1>2, <1>3, <1>4, <1>5, <1>6

LEMMA ResetCallStep ==
  ASSUME IInv, ResetCall
  PROVE  IInv'
<1> USE DEF IInv, ResetCall
<1>0. lc \in LifecycleRecord
  BY DEF TypeOK
<1>1. TypeOK'
  <2>1. history' \in Seq(Nat)
    <3>1. <<>> \in Seq(Nat) /\ history \in Seq(Nat)
      BY DEF TypeOK
    <3> QED
      BY <3>1
  <2>2. last_delay' \in 0..MaximumBackoff
    BY Timings
  <2> QED
    BY <1>0, <2>1, <2>2, ResetFacts, TypicalValues DEF TypeOK
<1>2. MembersMatchState'
  BY <1>0, ResetFacts, NoFailures, TypicalValues
  DEF MembersMatchState
<1>3. GraceAccounted'
  BY <1>0, ResetFacts, NoFailures, TypicalValues, Numbers, Timings
  DEF GraceAccounted, MembersMatchState
<1>4. RestartAccounted'
  BY <1>0, ResetFacts, NoFailures, TypicalValues, Numbers, Timings
  DEF RestartAccounted, MembersMatchState
<1>5. BackoffAccounted'
  BY <1>0, ResetFacts, NoFailures, TypicalValues, Numbers, Timings
  DEF BackoffAccounted, MembersMatchState
<1>6. LockoutBound'
  BY <1>0, ResetFacts, NoFailures, TypicalValues, Numbers, Timings
  DEF LockoutBound, MembersMatchState
<1> QED
  BY <1>1, <1>2, <1>3, <1>4, <1>5, <1>6

LEMMA StopCallStep ==
  ASSUME IInv, StopCall
  PROVE  IInv'
<1> USE DEF IInv, StopCall, CanStop
<1>0. lc \in LifecycleRecord
  BY DEF TypeOK
<1>1. TypeOK'
  <2>1. CASE lc.state \in {"starting", "running"}
    <3>1. Stop(lc) = BeginStopping(lc, "requested", GracefulShutdown)
      BY <2>1 DEF Stop
    <3>2. "requested" \in StopCause
      BY DEF StopCause
    <3>3. Stop(lc) \in LifecycleRecord
      BY <1>0, <3>1, <3>2, BeginStoppingFacts, TypicalValues
    <3>4. since_stop' \in Span(GracefulShutdown)
      BY <2>1, Timings DEF Span
    <3> QED
      BY <2>1, <3>3, <3>4, TypicalValues DEF TypeOK
  <2>2. CASE ~(lc.state \in {"starting", "running"})
    <3>1. history' \in Seq(Nat)
      BY <2>2
    <3>2. last_delay' \in 0..MaximumBackoff
      BY <2>2, Timings
    <3> QED
      BY <1>0, <2>2, <3>1, <3>2, StopFacts, TypicalValues DEF TypeOK
  <2> QED
    BY <2>1, <2>2
<1>2. MembersMatchState'
  <2>1. CASE lc.state \in {"starting", "running"}
    <3>1. Stop(lc) = BeginStopping(lc, "requested", GracefulShutdown)
      BY <2>1 DEF Stop
    <3>2. "requested" \in StopCause
      BY DEF StopCause
    <3> QED
      BY <1>0, <2>1, <3>1, <3>2, BeginStoppingFacts, TypicalValues, Timings
      DEF MembersMatchState
  <2>2. CASE ~(lc.state \in {"starting", "running"})
    <3>1. history' = <<>> /\ last_delay' = 0
      BY <2>2
    <3> QED
      BY <1>0, <2>2, <3>1, StopFacts, TypicalValues, NoFailures, Timings
      DEF MembersMatchState
  <2> QED
    BY <2>1, <2>2
<1>3. GraceAccounted'
  <2>1. CASE lc.state \in {"starting", "running"}
    <3>1. Stop(lc) = BeginStopping(lc, "requested", GracefulShutdown)
      BY <2>1 DEF Stop
    <3>2. "requested" \in StopCause
      BY DEF StopCause
    <3> QED
      BY <1>0, <2>1, <3>1, <3>2, BeginStoppingFacts, TypicalValues, Timings, Numbers
      DEF GraceAccounted, MembersMatchState
  <2>2. CASE ~(lc.state \in {"starting", "running"})
    <3>1. history' = <<>> /\ last_delay' = 0
      BY <2>2
    <3> QED
      BY <1>0, <2>2, <3>1, StopFacts, TypicalValues, NoFailures, Timings, Numbers
      DEF GraceAccounted, MembersMatchState
  <2> QED
    BY <2>1, <2>2
<1>4. RestartAccounted'
  <2>1. CASE lc.state \in {"starting", "running"}
    <3>1. Stop(lc) = BeginStopping(lc, "requested", GracefulShutdown)
      BY <2>1 DEF Stop
    <3>2. "requested" \in StopCause
      BY DEF StopCause
    <3> QED
      BY <1>0, <2>1, <3>1, <3>2, BeginStoppingFacts, TypicalValues, Timings, Numbers
      DEF RestartAccounted, MembersMatchState
  <2>2. CASE ~(lc.state \in {"starting", "running"})
    <3>1. history' = <<>> /\ last_delay' = 0
      BY <2>2
    <3> QED
      BY <1>0, <2>2, <3>1, StopFacts, TypicalValues, NoFailures, Timings, Numbers
      DEF RestartAccounted, MembersMatchState
  <2> QED
    BY <2>1, <2>2
<1>5. BackoffAccounted'
  <2>1. CASE lc.state \in {"starting", "running"}
    <3>1. Stop(lc) = BeginStopping(lc, "requested", GracefulShutdown)
      BY <2>1 DEF Stop
    <3>2. "requested" \in StopCause
      BY DEF StopCause
    <3> QED
      BY <1>0, <2>1, <3>1, <3>2, BeginStoppingFacts, TypicalValues, Timings, Numbers
      DEF BackoffAccounted, MembersMatchState
  <2>2. CASE ~(lc.state \in {"starting", "running"})
    <3>1. history' = <<>> /\ last_delay' = 0
      BY <2>2
    <3> QED
      BY <1>0, <2>2, <3>1, StopFacts, TypicalValues, NoFailures, Timings, Numbers
      DEF BackoffAccounted, MembersMatchState
  <2> QED
    BY <2>1, <2>2
<1>6. LockoutBound'
  <2>1. CASE lc.state \in {"starting", "running"}
    <3>1. Stop(lc) = BeginStopping(lc, "requested", GracefulShutdown)
      BY <2>1 DEF Stop
    <3>2. "requested" \in StopCause
      BY DEF StopCause
    <3> QED
      BY <1>0, <2>1, <3>1, <3>2, BeginStoppingFacts, TypicalValues, Timings, Numbers
      DEF LockoutBound, MembersMatchState
  <2>2. CASE ~(lc.state \in {"starting", "running"})
    <3>1. history' = <<>> /\ last_delay' = 0
      BY <2>2
    <3> QED
      BY <1>0, <2>2, <3>1, StopFacts, TypicalValues, NoFailures, Timings, Numbers
      DEF LockoutBound, MembersMatchState
  <2> QED
    BY <2>1, <2>2
<1> QED
  BY <1>1, <1>2, <1>3, <1>4, <1>5, <1>6

LEMMA SignalSentCallStep ==
  ASSUME IInv, SignalSentCall
  PROVE  IInv'
<1> USE DEF IInv, SignalSentCall
<1>0. lc \in LifecycleRecord
  BY DEF TypeOK
<1>1. TypeOK'
  <2>1. since_term' \in Span(TerminateGrace)
    BY Timings DEF TypeOK, Span
  <2> QED
    BY <1>0, <2>1, SignalSentFacts, DueSignalFacts DEF TypeOK
<1>2. MembersMatchState'
  <2>1. CASE DueSignal(lc) = "terminate"
    BY <1>0, <2>1, SignalSentFacts, DueSignalFacts, TypicalValues
    DEF MembersMatchState
  <2>2. CASE DueSignal(lc) = "kill"
    BY <1>0, <2>2, SignalSentFacts, DueSignalFacts, TypicalValues
    DEF MembersMatchState
  <2> QED
    BY <1>0, <2>1, <2>2, DueSignalFacts DEF ShutdownSignal
<1>3. GraceAccounted'
  <2>1. CASE DueSignal(lc) = "terminate"
    BY <1>0, <2>1, SignalSentFacts, DueSignalFacts, TypicalValues, Numbers, Timings
    DEF GraceAccounted, MembersMatchState
  <2>2. CASE DueSignal(lc) = "kill"
    BY <1>0, <2>2, SignalSentFacts, DueSignalFacts, TypicalValues, Numbers, Timings
    DEF GraceAccounted, MembersMatchState
  <2> QED
    BY <1>0, <2>1, <2>2, DueSignalFacts DEF ShutdownSignal
<1>4. RestartAccounted'
  <2>1. CASE DueSignal(lc) = "terminate"
    BY <1>0, <2>1, SignalSentFacts, DueSignalFacts, TypicalValues, Numbers, Timings
    DEF RestartAccounted, MembersMatchState
  <2>2. CASE DueSignal(lc) = "kill"
    BY <1>0, <2>2, SignalSentFacts, DueSignalFacts, TypicalValues, Numbers, Timings
    DEF RestartAccounted, MembersMatchState
  <2> QED
    BY <1>0, <2>1, <2>2, DueSignalFacts DEF ShutdownSignal
<1>5. BackoffAccounted'
  <2>1. CASE DueSignal(lc) = "terminate"
    BY <1>0, <2>1, SignalSentFacts, DueSignalFacts, TypicalValues, Numbers, Timings
    DEF BackoffAccounted, MembersMatchState
  <2>2. CASE DueSignal(lc) = "kill"
    BY <1>0, <2>2, SignalSentFacts, DueSignalFacts, TypicalValues, Numbers, Timings
    DEF BackoffAccounted, MembersMatchState
  <2> QED
    BY <1>0, <2>1, <2>2, DueSignalFacts DEF ShutdownSignal
<1>6. LockoutBound'
  <2>1. CASE DueSignal(lc) = "terminate"
    BY <1>0, <2>1, SignalSentFacts, DueSignalFacts, TypicalValues, Numbers, Timings
    DEF LockoutBound, MembersMatchState
  <2>2. CASE DueSignal(lc) = "kill"
    BY <1>0, <2>2, SignalSentFacts, DueSignalFacts, TypicalValues, Numbers, Timings
    DEF LockoutBound, MembersMatchState
  <2> QED
    BY <1>0, <2>1, <2>2, DueSignalFacts DEF ShutdownSignal
<1> QED
  BY <1>1, <1>2, <1>3, <1>4, <1>5, <1>6

LEMMA FailCallStep ==
  ASSUME IInv, NEW cause \in ObservedFailure, FailCall(cause)
  PROVE  IInv'
<1> USE DEF IInv, FailCall, CanFail
<1>0. /\ lc \in LifecycleRecord
      /\ lc' = BeginStopping(lc, cause, 0)
      /\ cause \in StopCause /\ cause # "requested" /\ cause # "none"
  BY DEF TypeOK, Fail, ObservedFailure, StopCause, FailureCause
<1>1. TypeOK'
  BY <1>0, BeginStoppingFacts, TypicalValues DEF TypeOK
<1>2. MembersMatchState'
  BY <1>0, BeginStoppingFacts, TypicalValues DEF MembersMatchState
<1>3. GraceAccounted'
  BY <1>0, BeginStoppingFacts, TypicalValues, Numbers, Timings DEF GraceAccounted, MembersMatchState
<1>4. RestartAccounted'
  BY <1>0, BeginStoppingFacts, TypicalValues, Numbers, Timings DEF RestartAccounted, MembersMatchState
<1>5. BackoffAccounted'
  BY <1>0, BeginStoppingFacts, TypicalValues, Numbers, Timings DEF BackoffAccounted, MembersMatchState
<1>6. LockoutBound'
  <2>1. lc'.failures = lc.failures
    BY <1>0, BeginStoppingFacts, TypicalValues
  <2> QED
    BY <2>1 DEF LockoutBound
<1> QED
  BY <1>1, <1>2, <1>3, <1>4, <1>5, <1>6

LEMMA TickCallStep ==
  ASSUME IInv, TickCall
  PROVE  IInv'
<1> USE DEF IInv, TickCall
<1>0. lc \in LifecycleRecord /\ last_delay' \in 0..MaximumBackoff
  BY Timings DEF TypeOK
<1>1. CASE HandshakeExpired(lc)
  <2>0. lc.state = "starting" /\ ~BackoffElapsed(lc) /\ ~IsHealthy
    BY <1>1 DEF HandshakeExpired, BackoffElapsed, IsHealthy
  <2>1. TypeOK'
    BY <1>0, <1>1, <2>0, HandshakeExpiredFacts DEF TypeOK
  <2>2. MembersMatchState'
    BY <1>0, <1>1, <2>0, HandshakeExpiredFacts, TypicalValues
    DEF MembersMatchState
  <2>3. GraceAccounted'
    BY <1>0, <1>1, <2>0, HandshakeExpiredFacts, TypicalValues, Numbers, Timings
    DEF GraceAccounted, MembersMatchState
  <2>4. RestartAccounted'
    BY <1>0, <1>1, <2>0, HandshakeExpiredFacts, TypicalValues, Numbers, Timings
    DEF RestartAccounted, MembersMatchState
  <2>5. BackoffAccounted'
    BY <1>0, <1>1, <2>0, HandshakeExpiredFacts, TypicalValues, Numbers, Timings
    DEF BackoffAccounted, MembersMatchState
  <2>6. LockoutBound'
    BY <1>0, <1>1, <2>0, HandshakeExpiredFacts, TypicalValues, Numbers, Timings
    DEF LockoutBound, MembersMatchState
  <2> QED
    BY <2>1, <2>2, <2>3, <2>4, <2>5, <2>6
<1>2. CASE BackoffElapsed(lc)
  <2>0. lc.state = "backoff" /\ ~IsHealthy
    BY <1>2 DEF BackoffElapsed, IsHealthy
  <2>1. TypeOK'
    BY <1>0, <1>2, <2>0, BackoffElapsedFacts, TypicalValues DEF TypeOK
  <2>2. MembersMatchState'
    BY <1>0, <1>2, <2>0, BackoffElapsedFacts, TypicalValues
    DEF MembersMatchState
  <2>3. GraceAccounted'
    BY <1>0, <1>2, <2>0, BackoffElapsedFacts, TypicalValues, Numbers, Timings
    DEF GraceAccounted, MembersMatchState
  <2>4. RestartAccounted'
    BY <1>0, <1>2, <2>0, BackoffElapsedFacts, TypicalValues, Numbers, Timings
    DEF RestartAccounted, MembersMatchState
  <2>5. BackoffAccounted'
    BY <1>0, <1>2, <2>0, BackoffElapsedFacts, TypicalValues, Numbers, Timings
    DEF BackoffAccounted, MembersMatchState
  <2>6. LockoutBound'
    BY <1>0, <1>2, <2>0, BackoffElapsedFacts, TypicalValues, Numbers, Timings
    DEF LockoutBound, MembersMatchState
  <2> QED
    BY <2>1, <2>2, <2>3, <2>4, <2>5, <2>6
<1>3. CASE ~HandshakeExpired(lc) /\ ~BackoffElapsed(lc)
  <2>0. lc' = ResetBackoffIfHealthy(lc)
    BY <1>3 DEF Tick
  <2>1. TypeOK'
    BY <1>0, <1>3, <2>0, ResetBackoffFacts DEF TypeOK
  <2>2. MembersMatchState'
    BY <1>0, <1>3, <2>0, ResetBackoffFacts, TypicalValues
    DEF MembersMatchState
  <2>3. GraceAccounted'
    BY <1>0, <1>3, <2>0, ResetBackoffFacts, TypicalValues, Numbers, Timings
    DEF GraceAccounted, MembersMatchState
  <2>4. RestartAccounted'
    BY <1>0, <1>3, <2>0, ResetBackoffFacts, TypicalValues, Numbers, Timings
    DEF RestartAccounted, MembersMatchState, IsHealthy
  <2>5. BackoffAccounted'
    BY <1>0, <1>3, <2>0, ResetBackoffFacts, TypicalValues, Numbers, Timings
    DEF BackoffAccounted, MembersMatchState, IsHealthy
  <2>6. LockoutBound'
    BY <1>0, <1>3, <2>0, ResetBackoffFacts, TypicalValues, Numbers, Timings
    DEF LockoutBound, MembersMatchState
  <2> QED
    BY <2>1, <2>2, <2>3, <2>4, <2>5, <2>6
<1> QED
  BY <1>1, <1>2, <1>3

LEMMA ExitedCallStep ==
  ASSUME IInv, NEW cause \in ReapedCause, ExitedCall(cause)
  PROVE  IInv'
<1> DEFINE e == EffectiveCause(lc, cause)
           b == ResetBackoffIfHealthy(lc).next_backoff
<1>0. /\ lc \in LifecycleRecord
      /\ cause \in StopCause
      /\ lc' = Exited(lc, cause)
      /\ lc.restart_at = Unset
  BY DEF IInv, TypeOK, ReapedCause, StopCause, FailureCause, ExitedCall, CanExit, ProcessState,
         MembersMatchState
<1>1. /\ b \in Backoff
      /\ IF IsHealthy \/ last_delay = 0
         THEN b = InitialBackoff
         ELSE b >= Lower(2 * last_delay, MaximumBackoff)
  BY <1>0, ResetBackoffFacts, TypicalValues, Numbers
  DEF IInv, BackoffAccounted, IsHealthy
<1>2. /\ lc' \in LifecycleRecord
      /\ lc'.state \in {"failed", "stopped", "backoff"}
      /\ lc'.handshake_deadline = Unset
      /\ lc'.running_for = Unset
      /\ lc'.pending_stop_cause = "none"
      /\ lc'.pending_signal = "none"
      /\ lc'.signal_at = Unset
      /\ lc'.state # "backoff" => lc'.restart_at = Unset /\ lc'.next_backoff = b
      /\ lc'.state = "backoff" /\ IsFailure(e)
           => lc'.restart_at = b /\ lc'.next_backoff = DoubledBackoff(b)
      /\ lc'.state = "backoff" /\ ~IsFailure(e)
           => lc'.restart_at = InitialBackoff /\ lc'.next_backoff = InitialBackoff
      /\ lc'.state # "failed" /\ Len(lc.failures) < FailureLimit
           => Len(lc'.failures) < FailureLimit
  BY <1>0, ExitedFacts
<1> HIDE DEF e, b
<1>3. /\ lc'.state = "backoff" /\ IsFailure(e) => last_delay' = b
      /\ lc'.state = "backoff" /\ ~IsFailure(e) => last_delay' = 0
      /\ lc'.state # "backoff" => last_delay' = IF IsHealthy THEN 0 ELSE last_delay
  BY <1>2 DEF ExitedCall, e
<1>4. since_exit' = IF lc'.state = "backoff" THEN 0 ELSE Unset
  BY DEF ExitedCall
<1>5. TypeOK'
  <2>1. history' \in Seq(Nat)
    <3>1. history \in Seq(Nat) /\ Append(history, 0) \in Seq(Nat)
      BY DEF IInv, TypeOK
    <3> QED
      BY <3>1 DEF ExitedCall
  <2>2. last_delay' \in 0..MaximumBackoff
    <3>1. last_delay \in 0..MaximumBackoff /\ b \in 0..MaximumBackoff /\ 0 \in 0..MaximumBackoff
      BY <1>1, Timings DEF IInv, TypeOK, Backoff
    <3> QED
      BY <1>3, <3>1
  <2>3. since_exit' \in Span(MaximumBackoff) /\ since_stop' = Unset /\ since_term' = Unset
        /\ last_sent' = "none"
    BY <1>4, Timings DEF ExitedCall, Span
  <2> QED
    BY <1>2, <2>1, <2>2, <2>3, TypicalValues DEF TypeOK
<1>6. MembersMatchState'
  BY <1>1, <1>2, TypicalValues DEF MembersMatchState
<1>7. GraceAccounted'
  BY <1>2 DEF GraceAccounted
<1>8. RestartAccounted'
  <2>1. b \in Nat /\ b >= InitialBackoff
    BY <1>1, Timings DEF Backoff
  <2> QED
    BY <1>2, <1>3, <1>4, <2>1, Timings, TypicalValues DEF RestartAccounted
<1>9. BackoffAccounted'
  <2>1. CASE lc'.state = "backoff" /\ IsFailure(e)
    <3>1. b # 0
      BY <1>1, Timings DEF Backoff
    <3>2. DoubledBackoff(b) >= Lower(2 * b, MaximumBackoff)
      BY <1>1, DoubledBackoffBounds
    <3> QED
      BY <1>2, <1>3, <2>1, <3>1, <3>2 DEF BackoffAccounted
  <2>2. CASE lc'.state = "backoff" /\ ~IsFailure(e)
    BY <1>2, <1>3, <2>2 DEF BackoffAccounted
  <2>3. CASE lc'.state # "backoff"
    BY <1>1, <1>2, <1>3, <2>3 DEF BackoffAccounted
  <2> QED
    BY <2>1, <2>2, <2>3
<1>10. LockoutBound'
  BY <1>0, <1>2 DEF IInv, LockoutBound, ExitedCall, CanExit, ProcessState
<1> QED
  BY <1>5, <1>6, <1>7, <1>8, <1>9, <1>10 DEF IInv

LEMMA ElapseStep ==
  ASSUME IInv, Elapse
  PROVE  IInv'
<1>0. lc \in LifecycleRecord /\ lc' = Elapsed(lc) /\ GracefulShutdown + TerminateGrace \in Nat
  BY Timings DEF IInv, TypeOK, Elapse
<1>1. /\ lc.restart_at \in Span(MaximumBackoff)
      /\ lc.signal_at \in Span(GracefulShutdown + TerminateGrace)
      /\ lc.handshake_deadline \in Span(Handshake)
      /\ lc.running_for \in Span(HealthyReset)
  BY <1>0 DEF LifecycleRecord
<1>2. /\ lc'.handshake_deadline = Unset <=> lc.handshake_deadline = Unset
      /\ lc'.restart_at = Unset <=> lc.restart_at = Unset
      /\ lc'.signal_at = Unset <=> lc.signal_at = Unset
      /\ lc'.running_for = Unset <=> lc.running_for = Unset
  BY <1>0, <1>1, ElapsedFacts, SoonerIsSooner, OlderIsOlder, Timings
<1>3. TypeOK'
  <2>1. history' \in Seq(Nat)
    <3> DEFINE n == Len(history) - Leaving
    <3>1. history \in Seq(Nat) /\ Len(history) \in Nat
      BY DEF IInv, TypeOK
    <3>2. Leaving \in Nat /\ Leaving <= Len(history)
      <4> DEFINE oldest == {i \in 1..Len(history) : history[i] = FailureWindow}
           m == Len(history)
      <4>0. m \in Nat
        BY <3>1
      <4> HIDE DEF m
      <4>1. IsFiniteSet(1..m) /\ Cardinality(1..m) = m
        <5>1. IsFiniteSet(1..m) /\ Cardinality(1..m) = IF 1 > m THEN 0 ELSE m - 1 + 1
          BY <4>0, FS_Interval
        <5> QED
          BY <4>0, <5>1
      <4>2. oldest \subseteq 1..m
        BY DEF m
      <4> HIDE DEF oldest
      <4>3. IsFiniteSet(oldest) /\ Cardinality(oldest) <= Cardinality(1..m)
        BY <4>1, <4>2, FS_Subset
      <4>4. Cardinality(oldest) \in Nat
        BY <4>3, FS_CardinalityType
      <4> QED
        BY <4>1, <4>3, <4>4 DEF Leaving, oldest, m
    <3>3. history' = [i \in 1..n |-> history[i + Leaving] + 1]
      BY DEF Elapse
    <3>4. n \in Nat
      BY <3>1, <3>2
    <3>5. \A i \in 1..n : history[i + Leaving] + 1 \in Nat
      BY <3>1, <3>2
    <3> HIDE DEF n
    <3> QED
      BY <3>3, <3>4, <3>5
  <2>2. /\ since_stop' \in Span(GracefulShutdown)
        /\ since_term' \in Span(TerminateGrace)
        /\ since_exit' \in Span(MaximumBackoff)
        /\ last_delay' \in 0..MaximumBackoff
        /\ last_sent' \in {"none"} \cup ShutdownSignal
    BY OlderIsOlder, Timings DEF Elapse, IInv, TypeOK
  <2> QED
    BY <1>0, <2>1, <2>2, ElapsedFacts DEF TypeOK
<1>4. MembersMatchState'
  BY <1>0, <1>2, ElapsedFacts DEF IInv, MembersMatchState
<1>5. GraceAccounted'
  <2>1. ASSUME NEW ahead \in Span(GracefulShutdown + TerminateGrace), ahead # Unset,
               NEW limit \in Nat, NEW past \in Span(limit), past # Unset, past + ahead >= limit
        PROVE  Older(past, limit) # Unset /\ Older(past, limit) + Sooner(ahead) >= limit
    BY <1>0, <2>1 DEF Older, Sooner, Lower, Span, Unset
  <2>2. lc.pending_signal # "none" => lc.signal_at # Unset
    BY DEF IInv, MembersMatchState
  <2>3. /\ since_stop \in Span(GracefulShutdown) /\ since_stop' = Older(since_stop, GracefulShutdown)
        /\ since_term \in Span(TerminateGrace) /\ since_term' = Older(since_term, TerminateGrace)
    BY DEF IInv, TypeOK, Elapse
  <2>4. /\ lc'.pending_signal = lc.pending_signal
        /\ lc'.pending_stop_cause = lc.pending_stop_cause
        /\ lc'.signal_at = Sooner(lc.signal_at)
    BY <1>0, ElapsedFacts
  <2> QED
    BY <1>1, <2>1, <2>2, <2>3, <2>4, Timings DEF IInv, GraceAccounted
<1>6. RestartAccounted'
  <2>1. ASSUME NEW ahead \in Span(MaximumBackoff), ahead # Unset,
               NEW past \in Span(MaximumBackoff), past # Unset,
               NEW least \in 0..MaximumBackoff, past + ahead >= least
        PROVE  Older(past, MaximumBackoff) # Unset
               /\ Older(past, MaximumBackoff) + Sooner(ahead) >= least
    BY <2>1, Timings DEF Older, Sooner, Lower, Span, Unset
  <2>2. lc.state = "backoff" => lc.restart_at # Unset
    BY DEF IInv, MembersMatchState
  <2>3. /\ since_exit \in Span(MaximumBackoff) /\ since_exit' = Older(since_exit, MaximumBackoff)
        /\ last_delay \in 0..MaximumBackoff /\ last_delay' = last_delay
        /\ InitialBackoff \in 0..MaximumBackoff
    BY Timings DEF IInv, TypeOK, Elapse
  <2>4. lc'.state = lc.state /\ lc'.restart_at = Sooner(lc.restart_at)
    BY <1>0, ElapsedFacts
  <2> QED
    BY <1>1, <2>1, <2>2, <2>3, <2>4 DEF IInv, RestartAccounted
<1>7. BackoffAccounted'
  BY <1>0, ElapsedFacts DEF IInv, Elapse, BackoffAccounted
<1>8. LockoutBound'
  BY <1>0, ElapsedFacts DEF IInv, LockoutBound
<1> QED
  BY <1>3, <1>4, <1>5, <1>6, <1>7, <1>8 DEF IInv

--------------------------------------------------------------------------------
(* The theorems.                                                                 *)

LEMMA InitStep ==
  ASSUME Init
  PROVE  IInv
<1>1. PICK policy \in RestartPolicy : lc = NewLifecycle(policy)
  BY DEF Init
<1>2. lc \in LifecycleRecord
  BY <1>1, TypicalValues, NoFailures DEF NewLifecycle, LifecycleRecord, ModuleState
<1>3. <<>> \in Seq(Nat) /\ 0 \in 0..MaximumBackoff
  BY Timings
<1> QED
  BY <1>1, <1>2, <1>3, TypicalValues, NoFailures, Timings
  DEF Init, IInv, TypeOK, NewLifecycle, MembersMatchState, GraceAccounted, RestartAccounted,
      BackoffAccounted, LockoutBound

LEMMA StutteringStep ==
  ASSUME IInv, UNCHANGED vars
  PROVE  IInv'
BY DEF vars, IInv, TypeOK, MembersMatchState, GraceAccounted, RestartAccounted,
       BackoffAccounted, LockoutBound

LEMMA NextStep ==
  ASSUME IInv, [Next]_vars
  PROVE  IInv'
<1>1. CASE StartCall
  BY <1>1, StartCallStep
<1>2. CASE ReadyCall
  BY <1>2, ReadyCallStep
<1>3. CASE TickCall
  BY <1>3, TickCallStep
<1>4. ASSUME NEW cause \in ReapedCause, ExitedCall(cause) PROVE IInv'
  BY <1>4, ExitedCallStep
<1>5. CASE StopCall
  BY <1>5, StopCallStep
<1>6. ASSUME NEW cause \in ObservedFailure, FailCall(cause) PROVE IInv'
  BY <1>6, FailCallStep
<1>7. CASE ResetCall
  BY <1>7, ResetCallStep
<1>8. CASE SignalSentCall
  BY <1>8, SignalSentCallStep
<1>9. CASE Elapse
  BY <1>9, ElapseStep
<1>10. CASE UNCHANGED vars
  BY <1>10, StutteringStep
<1> QED
  BY <1>1, <1>2, <1>3, <1>4, <1>5, <1>6, <1>7, <1>8, <1>9, <1>10 DEF Next

\* The inductive invariant holds in every reachable state of a module lifecycle
\* (src/module_lifecycle.cpp), whatever the timings and the failure limit.
THEOREM InductiveInvariant == Spec => []IInv
<1>1. Init => IInv
  BY InitStep
<1>2. IInv /\ [Next]_vars => IInv'
  BY NextStep
<1> QED
  BY <1>1, <1>2, PTL DEF Spec

\* Every member keeps its type: in particular the restart delay never leaves the
\* interval that the configuration gives it.
THEOREM TypeCorrect == Spec => []TypeOK
<1>1. IInv => TypeOK
  BY DEF IInv
<1> QED
  BY <1>1, InductiveInvariant, PTL

\* The optional members of ModuleLifecycle are engaged exactly in the states that
\* give them a meaning, after every sequence of calls.
THEOREM MembersAlwaysMatchState == Spec => []MembersMatchState
<1>1. IInv => MembersMatchState
  BY DEF IInv
<1> QED
  BY <1>1, InductiveInvariant, PTL

\* due_signal never asks for SIGTERM before the graceful period of an explicit
\* stop is over, nor for SIGKILL before the grace period after SIGTERM is.
THEOREM SignalsWait == Spec => []GraceBeforeSignals
<1>1. ASSUME IInv PROVE GraceBeforeSignals
  <2>1. lc \in LifecycleRecord
    BY <1>1 DEF IInv, TypeOK
  <2>2. DueSignal(lc) # "none" => lc.signal_at = 0 /\ lc.pending_signal = DueSignal(lc)
    BY <2>1, DueSignalFacts
  <2> QED
    BY <1>1, <2>2, Numbers, Timings DEF IInv, GraceAccounted, GraceBeforeSignals
<1> QED
  BY <1>1, InductiveInvariant, PTL

\* A requested stop ends in `stopped` and nowhere else: of the calls made while it
\* is in progress, only exited() leaves `stopping`, and it uses the stop's cause.
THEOREM StopIsFinal == Spec => RequestedStopIsFinal
<1>1. ASSUME IInv, Next, BeingStopped PROVE BeingStopped' \/ lc'.state = "stopped"
  <2>0. lc \in LifecycleRecord /\ lc.state = "stopping" /\ lc.pending_stop_cause = "requested"
    BY <1>1 DEF IInv, TypeOK, BeingStopped
  <2>1. ~StartCall /\ ~ReadyCall /\ ~StopCall /\ \A cause \in ObservedFailure : ~FailCall(cause)
    BY <2>0 DEF StartCall, CanStart, ReadyCall, CanReady, StopCall, CanStop, FailCall, CanFail
  <2>2. CASE TickCall
    <3>1. lc' = ResetBackoffIfHealthy(lc)
      BY <2>0, <2>2 DEF TickCall, Tick, HandshakeExpired, BackoffElapsed
    <3> QED
      BY <2>0, <3>1, ResetBackoffFacts DEF BeingStopped
  <2>3. ASSUME NEW cause \in ReapedCause, ExitedCall(cause) PROVE lc'.state = "stopped"
    <3>1. cause \in StopCause
      BY DEF ReapedCause, StopCause, FailureCause
    <3>2. EffectiveCause(lc, cause) = "requested"
      BY <2>0, <3>1, EffectiveCauseFacts
    <3> QED
      BY <2>0, <2>3, <3>1, <3>2, ExitedFacts DEF ExitedCall
  <2>4. CASE ResetCall
    BY <2>0, <2>4, ResetFacts DEF ResetCall, BeingStopped
  <2>5. CASE SignalSentCall
    BY <2>0, <2>5, SignalSentFacts, DueSignalFacts DEF SignalSentCall, BeingStopped
  <2>6. CASE Elapse
    BY <2>0, <2>6, ElapsedFacts DEF Elapse, BeingStopped
  <2> QED
    BY <1>1, <2>1, <2>2, <2>3, <2>4, <2>5, <2>6 DEF Next
<1>2. IInv /\ [Next]_vars => [BeingStopped => BeingStopped' \/ lc'.state = "stopped"]_vars
  BY <1>1
<1> QED
  BY <1>2, InductiveInvariant, PTL DEF Spec, RequestedStopIsFinal

\* tick() leaves `backoff` for `starting` only after the delay that exited() gave,
\* which is never less than the initial backoff.
THEOREM RestartsWait == Spec => RestartWaits
<1>1. ASSUME IInv, Next, lc.state = "backoff", lc'.state = "starting"
      PROVE  since_exit >= InitialBackoff /\ since_exit >= last_delay
  <2>0. lc \in LifecycleRecord
    BY <1>1 DEF IInv, TypeOK
  <2>1. /\ ~StartCall /\ ~ReadyCall
        /\ \A cause \in ReapedCause : ~ExitedCall(cause)
        /\ \A cause \in ObservedFailure : ~FailCall(cause)
    BY <1>1 DEF StartCall, CanStart, ReadyCall, CanReady, ExitedCall, CanExit, ProcessState,
                FailCall, CanFail
  <2>2. CASE TickCall
    <3>1. ~HandshakeExpired(lc)
      BY <1>1 DEF HandshakeExpired
    <3>2. BackoffElapsed(lc)
      <4>1. CASE ~BackoffElapsed(lc)
        <5>1. lc' = ResetBackoffIfHealthy(lc)
          BY <2>2, <3>1, <4>1 DEF TickCall, Tick
        <5> QED
          BY <1>1, <2>0, <5>1, ResetBackoffFacts
      <4> QED
        BY <4>1
    <3>3. lc.restart_at = 0
      BY <3>2 DEF BackoffElapsed
    <3> QED
      BY <1>1, <3>3, Numbers, Timings DEF IInv, RestartAccounted
  <2>3. CASE StopCall
    <3>1. lc' = Stop(lc) /\ ~(lc.state \in {"starting", "running"})
      BY <1>1, <2>3 DEF StopCall
    <3> QED
      BY <1>1, <2>0, <3>1, StopFacts
  <2>4. CASE ResetCall
    BY <1>1, <2>0, <2>4, ResetFacts DEF ResetCall
  <2>5. CASE SignalSentCall
    BY <1>1, <2>0, <2>5, SignalSentFacts, DueSignalFacts DEF SignalSentCall
  <2>6. CASE Elapse
    BY <1>1, <2>0, <2>6, ElapsedFacts DEF Elapse
  <2> QED
    BY <1>1, <2>1, <2>2, <2>3, <2>4, <2>5, <2>6 DEF Next
<1>2. IInv /\ [Next]_vars
      => [lc.state = "backoff" /\ lc'.state = "starting"
            => since_exit >= InitialBackoff /\ since_exit >= last_delay]_vars
  BY <1>1
<1> QED
  BY <1>2, InductiveInvariant, PTL DEF Spec, RestartWaits

\* Consecutive failed exits are restarted after delays that at least double up to
\* the maximum, from the initial delay on: exited() neither skips the doubling nor
\* keeps a delay from before a reset.
THEOREM BackoffsEscalate == Spec => BackoffEscalates
<1> DEFINE Escalated == IF last_delay = 0 \/ IsHealthy
                        THEN lc'.restart_at = InitialBackoff
                        ELSE lc'.restart_at >= Lower(2 * last_delay, MaximumBackoff)
<1>1. ASSUME IInv, Next, lc.state # "backoff", lc'.state = "backoff", last_delay' > 0
      PROVE  Escalated
  <2>0. lc \in LifecycleRecord
    BY <1>1 DEF IInv, TypeOK
  <2>1. ASSUME NEW cause \in ReapedCause, ExitedCall(cause) PROVE Escalated
    <3> DEFINE b == ResetBackoffIfHealthy(lc).next_backoff
    <3>1. cause \in StopCause /\ lc' = Exited(lc, cause)
      BY <2>1 DEF ReapedCause, StopCause, FailureCause, ExitedCall
    <3>2. IsFailure(EffectiveCause(lc, cause))
      BY <1>1, <2>1 DEF ExitedCall
    <3>3. lc'.restart_at = b
      BY <1>1, <2>0, <3>1, <3>2, ExitedFacts
    <3>4. b = IF IsHealthy THEN InitialBackoff ELSE lc.next_backoff
      BY <2>0, ResetBackoffFacts DEF IsHealthy
    <3> HIDE DEF b
    <3> QED
      BY <1>1, <3>3, <3>4 DEF IInv, BackoffAccounted
  <2>2. CASE TickCall
    <3>1. CASE HandshakeExpired(lc)
      BY <1>1, <2>0, <2>2, <3>1, HandshakeExpiredFacts DEF TickCall
    <3>2. CASE BackoffElapsed(lc)
      BY <1>1, <3>2 DEF BackoffElapsed
    <3>3. CASE ~HandshakeExpired(lc) /\ ~BackoffElapsed(lc)
      BY <1>1, <2>0, <2>2, <3>3, ResetBackoffFacts DEF TickCall, Tick
    <3> QED
      BY <3>1, <3>2, <3>3
  <2>3. ~StartCall /\ ~ReadyCall
    BY <1>1, <2>0, StartFacts, ReadyFacts DEF StartCall, ReadyCall
  <2>4. ~StopCall
    <3>1. CASE lc.state \in {"starting", "running"}
      BY <1>1, <3>1 DEF StopCall, Stop, BeginStopping, IInv, TypeOK, LifecycleRecord
    <3>2. CASE ~(lc.state \in {"starting", "running"})
      BY <1>1, <2>0, <3>2, StopFacts DEF StopCall
    <3> QED
      BY <3>1, <3>2
  <2>5. ASSUME NEW cause \in ObservedFailure, FailCall(cause) PROVE FALSE
    BY <1>1, <2>0, <2>5 DEF FailCall, Fail, BeginStopping, LifecycleRecord
  <2>6. ~ResetCall /\ ~SignalSentCall /\ ~Elapse
    BY <1>1, <2>0, ResetFacts, SignalSentFacts, DueSignalFacts, ElapsedFacts
    DEF ResetCall, SignalSentCall, Elapse
  <2> QED
    BY <1>1, <2>1, <2>2, <2>3, <2>4, <2>5, <2>6 DEF Next
<1>2. IInv /\ [Next]_vars
      => [lc.state # "backoff" /\ lc'.state = "backoff" /\ last_delay' > 0 => Escalated]_vars
  BY <1>1
<1> QED
  BY <1>2, InductiveInvariant, PTL DEF Spec, BackoffEscalates

--------------------------------------------------------------------------------
(* The lockout: what the module remembers of its failures agrees with the history. *)

LEMMA NoneWindowed == Windowed(<<>>, <<>>)
  BY DEF Windowed

\* What has left the window is the part that record_failure drops.
LEMMA StaleIsLeft ==
  ASSUME NEW f \in FailureAges, NEW h \in Seq(Nat), Windowed(f, h)
  PROVE  /\ Len(f) \in Nat /\ Len(h) \in Nat /\ Len(h) <= Len(f)
         /\ Stale(f) = 1..Len(f) - Len(h) /\ Cardinality(Stale(f)) = Len(f) - Len(h)
<1> DEFINE left == Len(f) - Len(h)
<1>1. /\ Len(f) \in Nat /\ Len(h) \in Nat /\ Len(h) <= Len(f) /\ left \in Nat
      /\ FailureWindow \in Nat
  BY Timings DEF FailureAges, Windowed
<1>2. \A i \in 1..left : f[i] > FailureWindow
  BY <1>1 DEF Windowed
<1>3. ASSUME NEW i \in 1..Len(f), i > left PROVE ~(f[i] > FailureWindow)
  <2>1. i - left \in 1..Len(h) /\ left + (i - left) = i
    BY <1>1, <1>3
  <2>2. f[i] = h[i - left] /\ h[i - left] <= FailureWindow /\ h[i - left] \in Nat
    BY <1>1, <2>1 DEF Windowed
  <2> QED
    BY <1>1, <2>2
<1>4. Stale(f) = 1..left
  BY <1>1, <1>2, <1>3 DEF Stale
<1>5. Cardinality(1..left) = left
  BY <1>1, FS_Interval
<1> QED
  BY <1>1, <1>4, <1>5

LEMMA RecordingIsWindowed ==
  ASSUME NEW f \in FailureAges, NEW h \in Seq(Nat), Windowed(f, h)
  PROVE  LET g == Append(SubSeq(f, Cardinality(Stale(f)) + 1, Len(f)), 0)
         IN  Windowed(g, Append(h, 0)) /\ Len(g) = Len(h) + 1
<1> DEFINE left == Len(f) - Len(h)
           kept == SubSeq(f, left + 1, Len(f))
           g == Append(kept, 0)
           k == Append(h, 0)
<1>1. /\ Len(f) \in Nat /\ Len(h) \in Nat /\ Len(h) <= Len(f) /\ left \in Nat
      /\ FailureWindow \in Nat /\ Cardinality(Stale(f)) = left
  BY StaleIsLeft, Timings
<1>2. \A i \in left + 1 .. Len(f) : f[i] \in 0..FailureWindow + 1
  BY <1>1 DEF FailureAges
<1>3. /\ kept \in Seq(0..FailureWindow + 1) /\ Len(kept) = Len(h)
      /\ \A i \in 1..Len(h) : kept[i] = f[left + i]
  <2>1. /\ kept \in Seq(0..FailureWindow + 1)
        /\ Len(kept) = IF left + 1 <= Len(f) THEN Len(f) - (left + 1) + 1 ELSE 0
        /\ \A i \in 1 .. Len(f) - (left + 1) + 1 : kept[i] = f[left + 1 + i - 1]
    <3> HIDE DEF left
    <3> QED
      BY <1>1, <1>2, SubSeqProperties
  <2> QED
    BY <1>1, <2>1
<1>4. \A i \in 1..Len(h) : kept[i] = h[i]
  BY <1>1, <1>3 DEF Windowed
<1> HIDE DEF kept
<1>5. /\ Len(g) = Len(h) + 1 /\ Len(k) = Len(h) + 1
      /\ \A i \in 1..Len(h) : g[i] = h[i] /\ k[i] = h[i]
      /\ g[Len(h) + 1] = 0 /\ k[Len(h) + 1] = 0
  BY <1>1, <1>3, <1>4
<1> HIDE DEF g, k
<1>6. \A i \in 1..Len(h) : h[i] \in Nat /\ h[i] <= FailureWindow
  BY <1>1 DEF Windowed
<1>7. \A i, j \in 1..Len(h) : i <= j => h[j] <= h[i]
  BY DEF Windowed
<1>8. \A i \in 1..Len(k) : i \in 1..Len(h) \/ i = Len(h) + 1
  BY <1>1, <1>5
<1>9. \A i \in 1..Len(k) : k[i] = g[i] /\ k[i] <= FailureWindow /\ k[i] \in Nat
  BY <1>1, <1>5, <1>6, <1>8
<1>10. \A i, j \in 1..Len(k) : i <= j => k[j] <= k[i]
  <2> TAKE i, j \in 1..Len(k)
  <2>1. CASE j = Len(h) + 1
    BY <1>5, <1>9, <2>1
  <2>2. CASE j # Len(h) + 1
    <3>1. i <= j => i \in 1..Len(h) /\ j \in 1..Len(h)
      BY <1>1, <1>8, <2>2
    <3> QED
      BY <1>5, <1>7, <3>1
  <2> QED
    BY <2>1, <2>2
<1>11. Windowed(g, k)
  BY <1>1, <1>5, <1>9, <1>10 DEF Windowed
<1> QED
  BY <1>1, <1>5, <1>11 DEF g, k, kept

\* The oldest failures are the ones that leave the window.
LEMMA LeavingIsPrefix ==
  ASSUME NEW f, NEW h \in Seq(Nat), Windowed(f, h)
  PROVE  LET leaving == {i \in 1..Len(h) : h[i] = FailureWindow}
         IN  leaving = 1..Cardinality(leaving) /\ Cardinality(leaving) \in 0..Len(h)
<1> DEFINE leaving == {i \in 1..Len(h) : h[i] = FailureWindow}
<1>1. Len(h) \in Nat /\ FailureWindow \in Nat
  BY Timings
<1>2. ASSUME NEW j \in leaving, NEW i \in 1..j PROVE i \in leaving
  <2>1. i \in 1..Len(h) /\ i <= j /\ h[j] = FailureWindow /\ h[i] \in Nat
    BY <1>1, <1>2
  <2>2. h[j] <= h[i] /\ h[i] <= FailureWindow
    BY <2>1 DEF Windowed
  <2> QED
    BY <1>1, <2>1, <2>2
<1>3. leaving \in SUBSET (1..Len(h))
  OBVIOUS
<1> HIDE DEF leaving
<1> QED
  BY <1>1, <1>2, <1>3, InitialSegment DEF leaving

LEMMA ElapsingIsWindowed ==
  ASSUME NEW f \in FailureAges, NEW h \in Seq(Nat), Windowed(f, h)
  PROVE  LET n == Cardinality({i \in 1..Len(h) : h[i] = FailureWindow})
         IN  Windowed([i \in 1..Len(f) |-> Lower(f[i] + 1, FailureWindow + 1)],
                      [i \in 1..Len(h) - n |-> h[i + n] + 1])
<1> DEFINE leaving == {i \in 1..Len(h) : h[i] = FailureWindow}
           n == Cardinality(leaving)
           left == Len(f) - Len(h)
           g == [i \in 1..Len(f) |-> Lower(f[i] + 1, FailureWindow + 1)]
           k == [i \in 1..Len(h) - n |-> h[i + n] + 1]
<1>1. /\ Len(f) \in Nat /\ Len(h) \in Nat /\ Len(h) <= Len(f) /\ left \in Nat
      /\ FailureWindow \in Nat /\ FailureWindow > 0
  BY StaleIsLeft, Timings
<1>2. leaving = 1..n /\ n \in 0..Len(h)
  BY LeavingIsPrefix
<1>3. \A i \in 1..Len(h) : i <= n <=> h[i] = FailureWindow
  BY <1>1, <1>2
<1> HIDE DEF leaving, n
<1>4. Len(g) = Len(f) /\ \A i \in 1..Len(f) : g[i] = Lower(f[i] + 1, FailureWindow + 1)
  <2>1. g \in FailureAges /\ Len(g) = Len(f)
    BY OlderFailures
  <2> QED
    BY <2>1
<1>5. Len(k) = Len(h) - n /\ \A i \in 1..Len(h) - n : k[i] = h[i + n] + 1
  <2>1. \A i \in 1..Len(h) - n : i + n \in 1..Len(h) /\ h[i + n] + 1 \in Nat
    BY <1>1, <1>2
  <2>2. k \in Seq(Nat) /\ Len(h) - n \in Nat
    BY <1>1, <1>2, <2>1
  <2> QED
    BY <2>2
<1> HIDE DEF g, k
<1>6. \A i \in 1..Len(h) : h[i] \in Nat /\ h[i] = f[left + i] /\ h[i] <= FailureWindow
  BY <1>1 DEF Windowed
<1>7. ASSUME NEW i \in 1..Len(f) - Len(k) PROVE g[i] = FailureWindow + 1
  <2>1. i \in 1..Len(f) /\ i <= left + n
    BY <1>1, <1>2, <1>5
  <2>2. CASE i \in 1..left
    <3>1. f[i] = FailureWindow + 1
      BY <2>2 DEF Windowed
    <3> QED
      BY <1>1, <1>4, <2>1, <3>1 DEF Lower
  <2>3. CASE i \notin 1..left
    <3>1. i - left \in 1..Len(h) /\ i - left <= n /\ left + (i - left) = i
      BY <1>1, <1>2, <2>1, <2>3
    <3>2. f[i] = FailureWindow
      BY <1>3, <1>6, <3>1
    <3> QED
      BY <1>1, <1>4, <2>1, <3>2 DEF Lower
  <2> QED
    BY <2>2, <2>3
<1>8. ASSUME NEW i \in 1..Len(k)
      PROVE  k[i] = g[Len(f) - Len(k) + i] /\ k[i] <= FailureWindow /\ k[i] = h[i + n] + 1
  <2>1. i + n \in 1..Len(h) /\ ~(i + n <= n) /\ left + (i + n) = Len(f) - Len(k) + i
        /\ Len(f) - Len(k) + i \in 1..Len(f)
    BY <1>1, <1>2, <1>5
  <2>2. h[i + n] \in Nat /\ h[i + n] = f[Len(f) - Len(k) + i] /\ h[i + n] < FailureWindow
    BY <1>1, <1>3, <1>6, <2>1
  <2>3. k[i] = h[i + n] + 1 /\ g[Len(f) - Len(k) + i] = Lower(h[i + n] + 1, FailureWindow + 1)
    BY <1>2, <1>4, <1>5, <2>1, <2>2
  <2> QED
    BY <1>1, <2>2, <2>3 DEF Lower
<1>9. ASSUME NEW i \in 1..Len(k), NEW j \in 1..Len(k), i <= j PROVE k[j] <= k[i]
  <2>1. i + n \in 1..Len(h) /\ j + n \in 1..Len(h) /\ i + n <= j + n
    BY <1>1, <1>2, <1>5, <1>9
  <2>2. h[j + n] <= h[i + n]
    BY <2>1 DEF Windowed
  <2> QED
    <3>1. k[i] = h[i + n] + 1 /\ k[j] = h[j + n] + 1
      BY <1>8
    <3>2. h[i + n] \in Nat /\ h[j + n] \in Nat
      BY <1>6, <2>1
    <3> QED
      BY <2>2, <3>1, <3>2
<1>10. Len(k) <= Len(g)
  BY <1>1, <1>2, <1>4, <1>5
<1>11. Windowed(g, k)
  BY <1>4, <1>7, <1>8, <1>9, <1>10 DEF Windowed
<1> QED
  BY <1>11 DEF g, k, n, leaving

\* No step makes the module remember other failures than the history.
LEMMA WindowStep ==
  ASSUME TypeOK, WindowAccounted, [Next]_vars
  PROVE  WindowAccounted'
<1>1. lc \in LifecycleRecord /\ lc.failures \in FailureAges /\ history \in Seq(Nat)
  BY DEF TypeOK, LifecycleRecord
<1>2. CASE lc'.failures = lc.failures /\ history' = history
  BY <1>2 DEF WindowAccounted
<1>3. CASE lc'.failures = <<>> /\ history' = <<>>
  BY <1>3, NoneWindowed DEF WindowAccounted
<1>4. CASE StartCall
  BY <1>1, <1>2, <1>3, <1>4, FailuresKept DEF StartCall
<1>5. CASE ReadyCall \/ TickCall \/ SignalSentCall \/ \E cause \in ObservedFailure : FailCall(cause)
  BY <1>1, <1>2, <1>5, FailuresKept DEF ReadyCall, TickCall, SignalSentCall, FailCall
<1>6. CASE StopCall
  BY <1>1, <1>2, <1>3, <1>6, FailuresKept DEF StopCall
<1>7. CASE ResetCall
  BY <1>1, <1>3, <1>7, FailuresKept DEF ResetCall
<1>8. ASSUME NEW cause \in ReapedCause, ExitedCall(cause) PROVE WindowAccounted'
  <2>1. cause \in StopCause
    BY DEF ReapedCause, StopCause, FailureCause
  <2>2. CASE IsFailure(EffectiveCause(lc, cause))
    <3>1. /\ lc'.failures = Append(SubSeq(lc.failures, Cardinality(Stale(lc.failures)) + 1,
                                         Len(lc.failures)), 0)
          /\ history' = Append(history, 0)
      BY <1>1, <1>8, <2>1, <2>2, ExitedFailures DEF ExitedCall
    <3> QED
      BY <1>1, <3>1, RecordingIsWindowed DEF WindowAccounted
  <2>3. CASE ~IsFailure(EffectiveCause(lc, cause))
    BY <1>1, <1>2, <1>8, <2>1, <2>3, ExitedFailures DEF ExitedCall
  <2> QED
    BY <2>2, <2>3
<1>9. CASE Elapse
  <2>1. lc'.failures = [i \in 1..Len(lc.failures) |-> Lower(lc.failures[i] + 1, FailureWindow + 1)]
    BY <1>1, <1>9 DEF Elapse, Elapsed, LifecycleRecord
  <2>2. history' = [i \in 1..Len(history) - Leaving |-> history[i + Leaving] + 1]
    BY <1>9 DEF Elapse
  <2> QED
    BY <1>1, <2>1, <2>2, ElapsingIsWindowed DEF WindowAccounted, Leaving
<1>10. CASE UNCHANGED vars
  BY <1>2, <1>10 DEF vars
<1> QED
  BY <1>4, <1>5, <1>6, <1>7, <1>8, <1>9, <1>10 DEF Next

\* The window that record_failure keeps is the window: whatever is started, stopped, reset or
\* left to age in between, the failures a lockout counts are those of the last FailureWindow.
THEOREM WindowIsAccounted == Spec => []WindowAccounted
<1>1. Init => WindowAccounted
  BY NoneWindowed DEF Init, NewLifecycle, WindowAccounted
<1>2. TypeOK /\ WindowAccounted /\ [Next]_vars => WindowAccounted'
  BY WindowStep
<1> QED
  BY <1>1, <1>2, TypeCorrect, PTL DEF Spec

\* The lockout comes with the failure that fills the window, neither later nor for fewer
\* (record_failure, exited), for every window, limit and order of calls.
THEOREM LockoutIsAlwaysExact == Spec => LockoutIsExact
<1> DEFINE Exact == IF lc'.state # "failed" THEN Len(history') < FailureLimit
                    ELSE lc.state # "failed" => Len(history') >= FailureLimit
<1>1. ASSUME IInv, WindowAccounted, IInv', WindowAccounted', Next PROVE Exact
  <2>1. /\ lc \in LifecycleRecord /\ history \in Seq(Nat) /\ lc.failures \in FailureAges
        /\ lc' \in LifecycleRecord /\ history' \in Seq(Nat) /\ lc'.failures \in FailureAges
    BY <1>1 DEF IInv, TypeOK, LifecycleRecord
  <2>2. CASE lc'.state # "failed"
    <3>1. Len(lc'.failures) < FailureLimit
      BY <1>1, <2>2 DEF IInv, LockoutBound
    <3>2. Len(history') <= Len(lc'.failures) /\ Len(history') \in Nat /\ Len(lc'.failures) \in Nat
      BY <1>1, <2>1 DEF WindowAccounted, Windowed, FailureAges
    <3> QED
      BY <2>2, <3>1, <3>2, Timings
  <2>3. CASE lc'.state = "failed" /\ lc.state # "failed"
    <3>1. PICK cause \in ReapedCause : ExitedCall(cause)
      <4>1. ~StartCall
        BY <2>1, <2>3, StartFacts DEF StartCall
      <4>2. ~ReadyCall
        BY <2>1, <2>3, ReadyFacts DEF ReadyCall
      <4>3. ~TickCall
        BY <2>1, <2>3 DEF TickCall, Tick, BeginStopping, ResetBackoffIfHealthy, LifecycleRecord
      <4>4. ~StopCall
        BY <2>1, <2>3 DEF StopCall, Stop, BeginStopping, LifecycleRecord
      <4>5. \A cause \in ObservedFailure : ~FailCall(cause)
        BY <2>1, <2>3 DEF FailCall, Fail, BeginStopping, LifecycleRecord
      <4>6. ~ResetCall /\ ~SignalSentCall /\ ~Elapse
        BY <2>1, <2>3 DEF ResetCall, ResetForExplicitRestart, SignalSentCall, SignalSent, Elapse,
                          Elapsed, LifecycleRecord
      <4> QED
        BY <1>1, <4>1, <4>2, <4>3, <4>4, <4>5, <4>6 DEF Next
    <3>2. cause \in StopCause
      BY DEF ReapedCause, StopCause, FailureCause
    <3>3. /\ IsFailure(EffectiveCause(lc, cause)) /\ Len(lc'.failures) >= FailureLimit
          /\ history' = Append(history, 0)
          /\ lc'.failures = Append(SubSeq(lc.failures, Cardinality(Stale(lc.failures)) + 1,
                                         Len(lc.failures)), 0)
      BY <2>1, <2>3, <3>1, <3>2, ExitedFailures DEF ExitedCall
    <3>4. Len(lc'.failures) = Len(history) + 1
      BY <1>1, <2>1, <3>3, RecordingIsWindowed DEF WindowAccounted
    <3>5. Len(history') = Len(history) + 1
      BY <2>1, <3>3
    <3> QED
      BY <2>3, <3>3, <3>4, <3>5
  <2> QED
    BY <2>2, <2>3
<1>2. ASSUME IInv, WindowAccounted, IInv', WindowAccounted', UNCHANGED vars PROVE [Exact]_vars
  BY <1>2
<1>3. IInv /\ WindowAccounted /\ IInv' /\ WindowAccounted' /\ [Next]_vars => [Exact]_vars
  BY <1>1, <1>2
<1> QED
  BY <1>3, InductiveInvariant, WindowIsAccounted, PTL DEF Spec, LockoutIsExact
================================================================================
