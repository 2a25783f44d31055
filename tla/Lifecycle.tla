------------------------------- MODULE Lifecycle -------------------------------
(* The pure part of class ModuleLifecycle (src/module_lifecycle.cpp): one       *)
(* module instance's lifecycle as a record, and one operator per member         *)
(* function that maps a record to the next.  ModuleLifecycle.tla runs one       *)
(* lifecycle under every legal order of calls; ModuleSupervisor.tla keeps one   *)
(* record per supervised instance.                                              *)
(*                                                                              *)
(* Time.  The code keeps absolute deadlines and only ever asks whether `now` has *)
(* reached one.  Here a deadline is the time that remains before it (0 when due) *)
(* and an instant in the past is its age, so that the state stays finite while  *)
(* time runs for ever; Elapsed moves time on by one unit.                       *)

EXTENDS Integers, Sequences, FiniteSets

CONSTANTS
  Handshake,         \* ModuleTimings::handshake
  GracefulShutdown,  \* ModuleTimings::graceful_shutdown
  TerminateGrace,    \* ModuleTimings::terminate_grace
  InitialBackoff,    \* ModuleTimings::initial_backoff
  MaximumBackoff,    \* ModuleTimings::maximum_backoff
  HealthyReset,      \* ModuleTimings::healthy_reset
  FailureWindow,     \* failure_window: five minutes in the code
  FailureLimit       \* failure_limit: ten in the code

\* parse_timings accepts only positive durations, and an initial backoff that
\* does not exceed the maximum one.
ASSUME TimingAssumption ==
  /\ Handshake \in Nat \ {0}
  /\ GracefulShutdown \in Nat \ {0}
  /\ TerminateGrace \in Nat \ {0}
  /\ InitialBackoff \in Nat \ {0}
  /\ MaximumBackoff \in Nat \ {0}
  /\ HealthyReset \in Nat \ {0}
  /\ FailureWindow \in Nat \ {0}
  /\ FailureLimit \in Nat \ {0}
  /\ InitialBackoff <= MaximumBackoff

--------------------------------------------------------------------------------

Unset == -1    \* an std::optional without a value

RestartPolicy == {"always", "on_failure", "never"}
ModuleState == {"stopped", "starting", "running", "backoff", "stopping", "failed"}
FailureCause == {"failed_exit", "signal", "spawn_error", "handshake_timeout",
                 "protocol_violation", "io_error", "unresponsive"}
StopCause == {"requested", "clean_exit"} \cup FailureCause
ShutdownSignal == {"terminate", "kill"}

\* States in which the instance owns, or is about to own, a process.
ProcessState == {"starting", "running", "stopping"}

Lower(a, b) == IF a <= b THEN a ELSE b

NewLifecycle(policy) ==
  [policy             |-> policy,
   state              |-> "stopped",
   next_backoff       |-> InitialBackoff,
   handshake_deadline |-> Unset,
   restart_at         |-> Unset,
   running_for        |-> Unset,    \* age of running_since_, up to HealthyReset
   pending_stop_cause |-> "none",
   pending_signal     |-> "none",
   signal_at          |-> Unset,
   failures           |-> <<>>]     \* ages of failures_, up to just out of the window

Span(limit) == {Unset} \cup 0..limit     \* a deadline or an age, or none
Backoff == InitialBackoff..MaximumBackoff
FailureAges == Seq(0..FailureWindow + 1)

LifecycleRecord ==
  [policy             : RestartPolicy,
   state              : ModuleState,
   next_backoff       : Backoff,
   handshake_deadline : Span(Handshake),
   restart_at         : Span(MaximumBackoff),
   running_for        : Span(HealthyReset),
   pending_stop_cause : {"none"} \cup StopCause,
   pending_signal     : {"none"} \cup ShutdownSignal,
   signal_at          : Span(GracefulShutdown + TerminateGrace),
   failures           : FailureAges]

--------------------------------------------------------------------------------
(* The passing of time, one unit at a time.                                     *)

Sooner(deadline) == IF deadline > 0 THEN deadline - 1 ELSE deadline
Older(age, limit) == IF age = Unset THEN Unset ELSE Lower(age + 1, limit)

Elapsed(lc) ==
  [lc EXCEPT !.handshake_deadline = Sooner(@),
             !.restart_at = Sooner(@),
             !.signal_at = Sooner(@),
             !.running_for = Older(@, HealthyReset),
             !.failures = [i \in 1..Len(@) |-> Lower(@[i] + 1, FailureWindow + 1)]]

--------------------------------------------------------------------------------
(* The private helpers.                                                         *)

IsFailure(cause) == cause \notin {"requested", "clean_exit"}

ShouldRestart(policy, cause) ==
  /\ cause # "requested"
  /\ \/ policy = "always"
     \/ policy = "on_failure" /\ IsFailure(cause)

BeginStopping(lc, cause, signal_at) ==
  [lc EXCEPT !.state = "stopping",
             !.pending_stop_cause = cause,
             !.pending_signal = "terminate",
             !.signal_at = signal_at]

ClearProcessState(lc) ==
  [lc EXCEPT !.handshake_deadline = Unset,
             !.running_for = Unset,
             !.pending_stop_cause = "none",
             !.pending_signal = "none",
             !.signal_at = Unset]

ResetBackoffIfHealthy_Always(lc) == [lc EXCEPT !.next_backoff = InitialBackoff]   \* mutant

ResetBackoffIfHealthy(lc) ==
  IF lc.state = "running" /\ lc.running_for >= HealthyReset
  THEN [lc EXCEPT !.next_backoff = InitialBackoff]
  ELSE lc

Stale_Never(failures) == {i \in 1..Len(failures) : failures[i] > FailureWindow + 1}   \* mutant

\* The failures that left the window are a prefix of failures_, which is in the
\* order of time: the loop of record_failure drops that prefix.
Stale(failures) == {i \in 1..Len(failures) : failures[i] > FailureWindow}

RecordFailure(lc) ==
  [lc EXCEPT !.failures = Append(SubSeq(@, Cardinality(Stale(@)) + 1, Len(@)), 0)]

DoubledBackoff(backoff) ==
  IF backoff >= MaximumBackoff \div 2
  THEN MaximumBackoff
  ELSE Lower(backoff * 2, MaximumBackoff)

--------------------------------------------------------------------------------
(* The public operations.  Each is applied only where its Can... guard holds:   *)
(* elsewhere the code returns a LifecycleError and changes nothing.             *)

CanStart(lc) == lc.state \in {"stopped", "failed"}

Start(lc) ==
  [lc EXCEPT !.state = "starting",
             !.failures = IF lc.state = "failed" THEN <<>> ELSE @,
             !.next_backoff = InitialBackoff,
             !.restart_at = Unset,
             !.pending_stop_cause = "none",
             !.pending_signal = "none",
             !.signal_at = Unset,
             !.handshake_deadline = Handshake]

CanReady(lc) == lc.state = "starting"

Ready(lc) ==
  [lc EXCEPT !.state = "running", !.handshake_deadline = Unset, !.running_for = 0]

HandshakeExpired(lc) == lc.state = "starting" /\ lc.handshake_deadline = 0

BackoffElapsed_Early(lc) == lc.state = "backoff" /\ lc.restart_at <= 1   \* mutant
BackoffElapsed(lc) == lc.state = "backoff" /\ lc.restart_at = 0

Tick(lc) ==
  CASE HandshakeExpired(lc) ->
         BeginStopping([lc EXCEPT !.handshake_deadline = Unset], "handshake_timeout", 0)
    [] BackoffElapsed(lc) ->
         [lc EXCEPT !.state = "starting",
                    !.restart_at = Unset,
                    !.handshake_deadline = Handshake]
    [] OTHER -> ResetBackoffIfHealthy(lc)

CanExit(lc) == lc.state \in ProcessState

EffectiveCause_Observed(lc, cause) ==   \* mutant
  IF lc.state = "starting" /\ cause = "clean_exit" THEN "failed_exit" ELSE cause

EffectiveCause(lc, cause) ==
  CASE lc.state = "stopping" /\ lc.pending_stop_cause # "none" -> lc.pending_stop_cause
    [] lc.state = "starting" /\ cause = "clean_exit" -> "failed_exit"
    [] OTHER -> cause

LockedOut(lc, cause) == IsFailure(cause) /\ Len(lc.failures) >= FailureLimit

\* The end of exited(), once the failure is recorded and the process state cleared.
Settled(lc, cause) ==
  CASE LockedOut(lc, cause) -> [lc EXCEPT !.state = "failed"]
    [] ~LockedOut(lc, cause) /\ ~ShouldRestart(lc.policy, cause) -> [lc EXCEPT !.state = "stopped"]
    [] OTHER ->
         [lc EXCEPT !.state = "backoff",
                    !.restart_at = IF IsFailure(cause) THEN lc.next_backoff ELSE InitialBackoff,
                    !.next_backoff = IF IsFailure(cause) THEN DoubledBackoff(@)
                                                         ELSE InitialBackoff]

Exited(lc, cause) ==
  LET effective == EffectiveCause(lc, cause)
      cleared == ClearProcessState(ResetBackoffIfHealthy(lc))
  IN  Settled(IF IsFailure(effective) THEN RecordFailure(cleared) ELSE cleared, effective)

CanStop(lc) == lc.state \in {"starting", "running", "backoff", "failed"}

Stop(lc) ==
  IF lc.state \in {"starting", "running"}
  THEN BeginStopping(lc, "requested", GracefulShutdown)
  ELSE [lc EXCEPT !.state = "stopped",
                  !.restart_at = Unset,
                  !.failures = <<>>,
                  !.next_backoff = InitialBackoff]

CanFail(lc, cause) == lc.state \in {"starting", "running"} /\ IsFailure(cause)

Fail(lc, cause) == BeginStopping(lc, cause, 0)

ResetForExplicitRestart(lc) ==
  [lc EXCEPT !.failures = <<>>, !.next_backoff = InitialBackoff]

DueSignal(lc) ==
  IF lc.state = "stopping" /\ lc.signal_at = 0 THEN lc.pending_signal ELSE "none"

SignalSent_NoGrace(lc, signal) ==   \* mutant
  IF signal = "terminate"
  THEN [lc EXCEPT !.pending_signal = "kill"]
  ELSE [lc EXCEPT !.pending_signal = "none", !.signal_at = Unset]

SignalSent_NoKill(lc, signal) ==   \* mutant
  [lc EXCEPT !.pending_signal = "none", !.signal_at = Unset]

SignalSent(lc, signal) ==
  IF signal = "terminate"
  THEN [lc EXCEPT !.pending_signal = "kill", !.signal_at = TerminateGrace]
  ELSE [lc EXCEPT !.pending_signal = "none", !.signal_at = Unset]

================================================================================
