---------------------------- MODULE ModuleLifecycle ----------------------------
(* One ModuleLifecycle object (src/module_lifecycle.cpp) under every order of   *)
(* calls its interface accepts, with time passing between them.  The variables  *)
(* below `lc` are history: they observe the calls and never enable one.         *)

EXTENDS Lifecycle

VARIABLES
  lc,           \* the object's members
  history,      \* ages of the failed exits since the last explicit reset, in the window
  since_stop,   \* age of the stop() that began the stopping in progress
  since_term,   \* age of the SIGTERM sent in the stopping in progress
  last_sent,    \* the last signal sent in the stopping in progress, or "none"
  since_exit,   \* age of the exit that led to the backoff in progress
  last_delay    \* restart delay of the last failed exit since the backoff was reset, or 0

vars == <<lc, history, since_stop, since_term, last_sent, since_exit, last_delay>>

Init ==
  /\ \E policy \in RestartPolicy : lc = NewLifecycle(policy)
  /\ history = <<>>
  /\ since_stop = Unset
  /\ since_term = Unset
  /\ last_sent = "none"
  /\ since_exit = Unset
  /\ last_delay = 0

--------------------------------------------------------------------------------
(* One action per public operation.                                             *)

StartCall ==
  /\ CanStart(lc)
  /\ lc' = Start(lc)
  /\ history' = IF lc.state = "failed" THEN <<>> ELSE history
  /\ last_delay' = 0
  /\ UNCHANGED <<since_stop, since_term, last_sent, since_exit>>

ReadyCall ==
  /\ CanReady(lc)
  /\ lc' = Ready(lc)
  /\ UNCHANGED <<history, since_stop, since_term, last_sent, since_exit, last_delay>>

IsHealthy == lc.state = "running" /\ lc.running_for >= HealthyReset

TickCall ==
  /\ lc' = Tick(lc)
  /\ since_exit' = IF BackoffElapsed(lc) THEN Unset ELSE since_exit
  /\ last_delay' = IF IsHealthy THEN 0 ELSE last_delay
  /\ UNCHANGED <<history, since_stop, since_term, last_sent>>

\* exited() is given the outcome of the spawn or of waitpid.
ExitedCall(cause) ==
  /\ CanExit(lc)
  /\ cause = "spawn_error" => lc.state = "starting"
  /\ lc' = Exited(lc, cause)
  /\ history' = IF IsFailure(EffectiveCause(lc, cause)) THEN Append(history, 0) ELSE history
  /\ since_exit' = IF lc'.state = "backoff" THEN 0 ELSE Unset
  /\ last_delay' = CASE lc'.state = "backoff" /\ IsFailure(EffectiveCause(lc, cause)) -> lc'.restart_at
                     [] lc'.state = "backoff" /\ ~IsFailure(EffectiveCause(lc, cause)) -> 0
                     [] OTHER -> IF IsHealthy THEN 0 ELSE last_delay
  /\ since_stop' = Unset
  /\ since_term' = Unset
  /\ last_sent' = "none"

StopCall ==
  /\ CanStop(lc)
  /\ lc' = Stop(lc)
  /\ IF lc.state \in {"starting", "running"}
     THEN since_stop' = 0 /\ UNCHANGED <<history, last_delay>>
     ELSE history' = <<>> /\ last_delay' = 0 /\ UNCHANGED since_stop
  /\ since_exit' = Unset
  /\ UNCHANGED <<since_term, last_sent>>

FailCall(cause) ==
  /\ CanFail(lc, cause)
  /\ lc' = Fail(lc, cause)
  /\ UNCHANGED <<history, since_stop, since_term, last_sent, since_exit, last_delay>>

ResetCall ==
  /\ lc' = ResetForExplicitRestart(lc)
  /\ history' = <<>>
  /\ last_delay' = 0
  /\ UNCHANGED <<since_stop, since_term, last_sent, since_exit>>

SignalSentCall ==
  /\ DueSignal(lc) # "none"
  /\ lc' = SignalSent(lc, DueSignal(lc))
  /\ since_term' = IF DueSignal(lc) = "terminate" THEN 0 ELSE since_term
  /\ last_sent' = DueSignal(lc)
  /\ UNCHANGED <<history, since_stop, since_exit, last_delay>>

\* The failures that this unit of time takes out of the window: the oldest ones.
Leaving == Cardinality({i \in 1..Len(history) : history[i] = FailureWindow})

Elapse ==
  /\ lc' = Elapsed(lc)
  /\ history' = [i \in 1..Len(history) - Leaving |-> history[i + Leaving] + 1]
  /\ since_stop' = Older(since_stop, GracefulShutdown)
  /\ since_term' = Older(since_term, TerminateGrace)
  /\ since_exit' = Older(since_exit, MaximumBackoff)
  /\ UNCHANGED <<last_sent, last_delay>>

ReapedCause == {"clean_exit", "failed_exit", "signal", "spawn_error"}
ObservedFailure == {"protocol_violation", "io_error", "unresponsive"}

Next ==
  \/ StartCall
  \/ ReadyCall
  \/ TickCall
  \/ \E cause \in ReapedCause : ExitedCall(cause)
  \/ StopCall
  \/ \E cause \in ObservedFailure : FailCall(cause)
  \/ ResetCall
  \/ SignalSentCall
  \/ Elapse

Spec == Init /\ [][Next]_vars

(* The supervisor's loop runs at least every 20 ms (maximum_poll_interval) and   *)
(* ticks and signals each instance every time; time passes; and a process that   *)
(* was sent SIGKILL dies and is reaped.  Nothing else is fair: a module need not *)
(* answer, nor exit on SIGTERM.                                                  *)
KilledExit == last_sent = "kill" /\ ExitedCall("signal")

Fairness ==
  /\ WF_vars(TickCall)
  /\ WF_vars(SignalSentCall)
  /\ WF_vars(Elapse)
  /\ WF_vars(KilledExit)

FairSpec == Spec /\ Fairness

--------------------------------------------------------------------------------
(* Properties.                                                                  *)

TypeOK ==
  /\ lc \in LifecycleRecord
  /\ history \in Seq(Nat)
  /\ since_stop \in Span(GracefulShutdown)
  /\ since_term \in Span(TerminateGrace)
  /\ last_sent \in {"none"} \cup ShutdownSignal
  /\ since_exit \in Span(MaximumBackoff)
  /\ last_delay \in 0..MaximumBackoff

\* The optional members are engaged exactly in the states that give them a
\* meaning, whatever path led there: a process's members never outlive it, and a
\* deadline that matters is never missing.  (src/module_lifecycle.cpp,
\* clear_process_state, begin_stopping and every reset of an optional)
MembersMatchState ==
  /\ lc.state = "starting" => lc.handshake_deadline # Unset
  /\ lc.state \notin {"starting", "stopping"} => lc.handshake_deadline = Unset
  /\ (lc.restart_at # Unset) <=> (lc.state = "backoff")
  /\ lc.state = "running" => lc.running_for # Unset
  /\ lc.state \notin {"running", "stopping"} => lc.running_for = Unset
  /\ (lc.pending_stop_cause # "none") <=> (lc.state = "stopping")
  /\ (lc.pending_signal # "none") <=> (lc.signal_at # Unset)
  /\ lc.pending_signal # "none" => lc.state = "stopping"

\* SIGTERM follows an explicit stop only after the whole graceful period, and
\* SIGKILL follows SIGTERM only after the whole grace period.
GraceBeforeSignals ==
  /\ DueSignal(lc) = "terminate" /\ lc.pending_stop_cause = "requested"
       => since_stop >= GracefulShutdown
  /\ DueSignal(lc) = "kill" => since_term >= TerminateGrace

\* The lockout is neither missed nor early: an instance that may still run has fewer
\* failures in the rolling window, since the last explicit reset, than lock it out,
\* and one that is locked out has just had that many.
LockoutIsExact ==
  [][IF lc'.state # "failed" THEN Len(history') < FailureLimit
     ELSE lc.state # "failed" => Len(history') >= FailureLimit]_vars

\* Once a stop has been requested the instance can only end in `stopped`: no late
\* failure, exit status, handshake timeout or policy restarts or locks it, and
\* none takes the place of the request as the cause.
BeingStopped == lc.state = "stopping" /\ lc.pending_stop_cause = "requested"

RequestedStopIsFinal == [][BeingStopped => BeingStopped' \/ lc'.state = "stopped"]_vars

\* An unattended restart waits at least the initial backoff, and the delay it was
\* given, after the exit it follows.
RestartWaits ==
  [][lc.state = "backoff" /\ lc'.state = "starting"
       => since_exit >= InitialBackoff /\ since_exit >= last_delay]_vars

\* Each failed exit in a row at least doubles the restart delay up to the maximum;
\* the first one after a reset gets the initial delay.
BackoffEscalates ==
  [][lc.state # "backoff" /\ lc'.state = "backoff" /\ last_delay' > 0
       => IF last_delay = 0 \/ IsHealthy
          THEN lc'.restart_at = InitialBackoff
          ELSE lc'.restart_at >= Lower(2 * last_delay, MaximumBackoff)]_vars

\* A module that never answers does not stay in `starting`, one that ignores the
\* shutdown record and SIGTERM does not stay in `stopping`, and a backoff ends.
NoStateIsATrap ==
  \A s \in {"starting", "stopping", "backoff"} : (lc.state = s) ~> (lc.state # s)
--------------------------------------------------------------------------------
(* The inductive invariant of the proofs: how much of each waiting time is      *)
(* behind, in the history, and how much is still ahead, in the deadlines.       *)

GraceAccounted ==
  /\ lc.pending_signal = "terminate" /\ lc.pending_stop_cause = "requested"
       => since_stop # Unset /\ since_stop + lc.signal_at >= GracefulShutdown
  /\ lc.pending_signal = "kill"
       => since_term # Unset /\ since_term + lc.signal_at >= TerminateGrace

RestartAccounted ==
  lc.state = "backoff" =>
    /\ since_exit # Unset
    /\ since_exit + lc.restart_at >= InitialBackoff
    /\ since_exit + lc.restart_at >= last_delay

BackoffAccounted ==
  IF last_delay = 0
  THEN lc.next_backoff = InitialBackoff
  ELSE lc.next_backoff >= Lower(2 * last_delay, MaximumBackoff)

LockoutBound == lc.state # "failed" => Len(lc.failures) < FailureLimit

\* What the proofs carry from step to step: the accounts above hold together with
\* the type invariant in every reachable state of the lifecycle.
IInv ==
  /\ TypeOK
  /\ MembersMatchState
  /\ GraceAccounted
  /\ RestartAccounted
  /\ BackoffAccounted
  /\ LockoutBound

\* The failures that lock a module out are those in the window: lc.failures is what has
\* left the window since the last failure, then the history, oldest first.
Windowed(failures, recent) ==
  LET left == Len(failures) - Len(recent)
  IN  /\ Len(recent) <= Len(failures)
      /\ \A i \in 1..left : failures[i] = FailureWindow + 1
      /\ \A i \in 1..Len(recent) :
           recent[i] = failures[left + i] /\ recent[i] <= FailureWindow
      /\ \A i, j \in 1..Len(recent) : i <= j => recent[j] <= recent[i]

WindowAccounted == Windowed(lc.failures, history)
================================================================================
