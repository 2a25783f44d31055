---------------------------- MODULE ModuleSupervisor ----------------------------
(* class ModuleSupervisor::Impl (src/module_supervisor.cpp): the thread that      *)
(* spawns, talks to, stops, restarts and replaces the module processes.           *)
(*                                                                                *)
(* The thread is one loop; `phase` says where in run() it is:                     *)
(*   commands  process_commands, one command per step                             *)
(*   reconfigure  the two loops of handle_reconfigure, one instance per step      *)
(*   advance   advance_lifecycles, all instances in one step: none sees another   *)
(*   service   service_instances, one line, end of file or error per step         *)
(*   reap      the first loop of reap_instances, one instance per step            *)
(*   replace   the rest of reap_instances, one start per step                     *)
(*   poll      backend_.poll: time passes and processes exit                      *)
(*   done      run() has returned                                                 *)
(* Around it are its client, the application, which sends only the commands that  *)
(* ControlDispatcher and plan_reload let through, and the module processes.       *)

EXTENDS Lifecycle

CONSTANTS
  N,                  \* the instance ids are 1..N, in the order of the map's keys
  MaximumInstances,   \* ModuleSupervisor::maximum_instances
  PolicyOf,           \* the restart policy of each definition (version) of a module
  ViolationLimit,     \* consecutive_violation_limit: three in the code
  EofGrace,           \* time between the end of stdout and giving up: 20 ms in the code
  Configurations,     \* the configurations: a version, or NoVersion, for each module
  Commands,           \* the commands the client uses
  Faults              \* the calls into the operating system that may fail

Ids == 1..N
Versions == DOMAIN PolicyOf
NoVersion == 0        \* not configured, not enabled, or no replacement requested

ASSUME SupervisorAssumption ==
  /\ N \in Nat \ {0}
  /\ MaximumInstances \in Nat \ {0}
  /\ Versions \subseteq Nat \ {NoVersion}
  /\ PolicyOf \in [Versions -> RestartPolicy]
  /\ ViolationLimit \in Nat \ {0}
  /\ EofGrace \in Nat
  /\ Configurations \subseteq [Ids -> Versions \cup {NoVersion}] /\ Configurations # {}
  /\ Commands \subseteq {"stop", "restart", "send", "reconfigure", "shutdown"}
  /\ Faults \subseteq {"spawn", "init", "signal", "waitpid", "io"}

VARIABLES
  instances,          \* instances_: a record for each instance the supervisor knows
  pending_starts,     \* pending_reconfiguration_starts_: <<id, version>> pairs
  global_shutdown,    \* global_shutdown_
  phase,              \* where the thread is
  cursor,             \* the instance that the loop of reap_instances has reached
  work,               \* ids left to the loop in progress (handle_reconfigure, replacements)
  config,             \* the application's configuration: a version for each enabled module
  launching,          \* modules the application has yet to start at launch
  pending_restarts,   \* ControlDispatcher::pending_restarts_
  published           \* modules with contexts, by the events the application received

vars == <<instances, pending_starts, global_shutdown, phase, cursor, work,
          config, launching, pending_restarts, published>>

--------------------------------------------------------------------------------
(* struct Instance.  `process` is the handle and the state of the process behind  *)
(* it; restart_pending stands for restart_generation, whose number is the         *)
(* dispatcher's; `emitted` collects the events of one step.                       *)

ProcessStatus == {"none", "alive", "killed", "clean_exit", "failed_exit", "signal"}
ExitedProcess == {"clean_exit", "failed_exit", "signal"}

NewInstance(version) ==
  [version            |-> version,
   lc                 |-> NewLifecycle(PolicyOf[version]),
   process            |-> "none",
   ready              |-> FALSE,
   restart_after_stop |-> FALSE,
   restart_pending    |-> FALSE,
   replacement        |-> NoVersion,
   contexts_removed   |-> TRUE,
   eof_for            |-> Unset,
   violations         |-> 0,
   emitted            |-> {}]

IsActive(instance) == instance.lc.state \in ProcessState \cup {"backoff"}
ActiveIn(known) == Cardinality({i \in DOMAIN known : IsActive(known[i])})
HasCapacity(known) == ActiveIn(known) < MaximumInstances
Without(i) == [j \in DOMAIN instances \ {i} |-> instances[j]]

Quiescent(instance) == instance.process = "none" /\ instance.lc.state \in {"stopped", "failed"}

Emit(instance, event) == [instance EXCEPT !.emitted = @ \cup {event}]

EmitContextRemoval(instance) ==
  IF instance.contexts_removed
  THEN instance
  ELSE Emit([instance EXCEPT !.contexts_removed = TRUE], "contexts_removed")

CompleteRestart_Silent(instance) == [instance EXCEPT !.restart_pending = FALSE]   \* mutant

CompleteRestart(instance) ==
  IF instance.restart_pending
  THEN Emit([instance EXCEPT !.restart_pending = FALSE], "restart_completed")
  ELSE instance

Moved_OnEndsOnly(instance, next, cause) ==   \* mutant
  LET moved == [instance EXCEPT !.lc = next]
  IN  IF next.state \in {"running", "failed"} THEN CompleteRestart(moved) ELSE moved

\* A lifecycle transition, and what emit_transition does about a restart in progress.
Moved(instance, next, cause) ==
  LET moved == [instance EXCEPT !.lc = next]
  IN  IF \/ next.state \in {"running", "failed"}
         \/ instance.lc.state = "starting" /\ cause # "requested"
      THEN CompleteRestart(moved)
      ELSE moved

BeginFailure_KeepsContexts(instance, cause) ==   \* mutant
  IF CanFail(instance.lc, cause)
  THEN Moved(instance, Fail(instance.lc, cause), cause)
  ELSE instance

BeginFailure(instance, cause) ==
  IF CanFail(instance.lc, cause)
  THEN Moved(EmitContextRemoval(instance), Fail(instance.lc, cause), cause)
  ELSE instance

SpawnOutcome ==
  {"spawned"} \cup (IF "spawn" \in Faults THEN {"spawn_error"} ELSE {})
              \cup (IF "init" \in Faults THEN {"init_unsent"} ELSE {})

Spawn_KeepsReady(instance, outcome) ==   \* mutant
  LET fresh == [instance EXCEPT !.violations = 0, !.contexts_removed = FALSE, !.eof_for = Unset]
      removed == EmitContextRemoval(fresh)
  IN  CASE outcome = "spawn_error" ->
             Moved(removed, Exited(removed.lc, "spawn_error"), "spawn_error")
        [] outcome = "init_unsent" ->
             BeginFailure([fresh EXCEPT !.process = "alive"], "unresponsive")
        [] OTHER -> [fresh EXCEPT !.process = "alive"]

Spawn(instance, outcome) ==
  LET fresh == [instance EXCEPT !.ready = FALSE,
                                !.violations = 0,
                                !.contexts_removed = FALSE,
                                !.eof_for = Unset]
      removed == EmitContextRemoval(fresh)
  IN  CASE outcome = "spawn_error" ->
             Moved(removed, Exited(removed.lc, "spawn_error"), "spawn_error")
        [] outcome = "init_unsent" ->
             BeginFailure([fresh EXCEPT !.process = "alive"], "unresponsive")
        [] OTHER -> [fresh EXCEPT !.process = "alive"]

Started(instance, outcome) == Spawn(Moved(instance, Start(instance.lc), "requested"), outcome)

\* start_existing, for the instance i that has become `instance` in this step.
StartExisting(i, instance, outcome) ==
  IF global_shutdown \/ ~HasCapacity(Without(i)) \/ ~CanStart(instance.lc)
  THEN CompleteRestart(instance)
  ELSE Started(instance, outcome)

StopRequested_KeepsBackoff(instance) ==   \* mutant
  LET state == instance.lc.state
      removed == IF state \in {"starting", "running"} THEN EmitContextRemoval(instance) ELSE instance
  IN  IF state \in {"stopping", "stopped", "backoff"}
      THEN instance
      ELSE Moved(removed, Stop(removed.lc), "requested")

\* handle_stop up to the restart it may end with.
StopRequested(instance) ==
  LET state == instance.lc.state
      removed == IF state \in {"starting", "running"} THEN EmitContextRemoval(instance) ELSE instance
  IN  IF state \in {"stopping", "stopped"}
      THEN instance
      ELSE Moved(removed, Stop(removed.lc), "requested")

HandleStop(i, instance, outcome) ==
  LET stopped == StopRequested(instance)
  IN  IF /\ instance.lc.state # "stopped" /\ stopped.lc.state = "stopped"
         /\ stopped.restart_after_stop /\ ~global_shutdown
      THEN StartExisting(i, [stopped EXCEPT !.restart_after_stop = FALSE], outcome)
      ELSE stopped

HandleRestart(i, found, outcome) ==
  LET instance == [found EXCEPT !.restart_pending = TRUE, !.lc = ResetForExplicitRestart(@)]
      state == instance.lc.state
  IN  CASE found.restart_pending -> Emit(found, "restart_completed")
        [] ~found.restart_pending /\ state \in {"failed", "stopped"} -> StartExisting(i, instance, outcome)
        [] ~found.restart_pending /\ state = "backoff" ->
             StartExisting(i, Moved(instance, Stop(instance.lc), "requested"), outcome)
        [] OTHER -> HandleStop(i, [instance EXCEPT !.restart_after_stop = TRUE], outcome)

CancelRestart(instance) == CompleteRestart([instance EXCEPT !.restart_after_stop = FALSE])

SendDueSignal(instance, delivered) ==
  LET signal == DueSignal(instance.lc)
  IN  IF instance.process = "none" \/ signal = "none"
      THEN instance
      ELSE [instance EXCEPT
              !.lc = SignalSent(@, signal),
              !.process = IF @ = "alive" /\ signal = "kill" /\ delivered THEN "killed" ELSE @]

Advanced(instance, outcome, delivered) ==
  LET next == Tick(instance.lc)
      ticked ==
        CASE HandshakeExpired(instance.lc) ->
               Moved(EmitContextRemoval(instance), next, "handshake_timeout")
          [] BackoffElapsed(instance.lc) -> Spawn(Moved(instance, next, "requested"), outcome)
          [] OTHER -> [instance EXCEPT !.lc = next]
  IN  SendDueSignal(ticked, delivered)

\* record_violation; rolling says whether violation_limit was reached in the last minute.
RecordViolation(instance, rolling) ==
  LET counted == [instance EXCEPT !.violations = Lower(@ + 1, ViolationLimit)]
  IN  IF instance.lc.state = "starting" \/ counted.violations = ViolationLimit \/ rolling
      THEN BeginFailure(counted, "protocol_violation")
      ELSE counted

HandleReady(instance, rolling) ==
  IF instance.ready
  THEN RecordViolation(instance, rolling)
  ELSE Moved([instance EXCEPT !.violations = 0, !.ready = TRUE], Ready(instance.lc), "requested")

HandleMessage(instance, rolling) ==
  IF ~instance.ready \/ instance.lc.state # "running"
  THEN RecordViolation(instance, rolling)
  ELSE Emit([instance EXCEPT !.violations = 0], "message")

\* reap_instances for an instance whose process has exited, up to handle_reaped_instance.
Reaped(instance) ==
  LET cause == EffectiveCause(instance.lc, instance.process)
      removed == EmitContextRemoval(instance)
  IN  [Moved(removed, Exited(removed.lc, instance.process), cause) EXCEPT !.process = "none"]

AwaitsReplacement(instance) ==
  instance.replacement # NoVersion /\ instance.lc.state = "stopped"

HandleReaped_KeepsBackoff(i, instance, outcome) ==   \* mutant
  IF /\ instance.lc.state = "stopped" /\ ~AwaitsReplacement(instance)
     /\ instance.restart_after_stop /\ ~global_shutdown
  THEN StartExisting(i, [instance EXCEPT !.restart_after_stop = FALSE], outcome)
  ELSE instance

HandleReaped(i, instance, outcome) ==
  LET state == instance.lc.state
  IN  CASE AwaitsReplacement(instance) -> instance
        [] ~AwaitsReplacement(instance) /\ state = "stopped"
             /\ instance.restart_after_stop /\ ~global_shutdown ->
             StartExisting(i, [instance EXCEPT !.restart_after_stop = FALSE], outcome)
        [] state = "backoff" /\ global_shutdown ->
             Moved(instance, Stop(instance.lc), "requested")
        [] OTHER -> instance

--------------------------------------------------------------------------------
(* Steps of the thread.                                                           *)

Init ==
  /\ instances = << >>
  /\ pending_starts = << >>
  /\ global_shutdown = FALSE
  /\ phase = "commands"
  /\ cursor = 1
  /\ work = << >>
  /\ config \in Configurations
  /\ launching = {i \in Ids : config[i] # NoVersion}
  /\ pending_restarts = {}
  /\ published = {}

\* The events of a step as the application consumes them, and the new record of i.
Delivered(i, emitted) ==
  /\ published' = IF "contexts_removed" \in emitted THEN published \ {i}
                  ELSE IF "message" \in emitted THEN published \cup {i} ELSE published
  /\ pending_restarts' = IF "restart_completed" \in emitted THEN pending_restarts \ {i}
                         ELSE pending_restarts

Updated(known, i, instance) ==
  [j \in DOMAIN known \cup {i} |-> IF j = i THEN [instance EXCEPT !.emitted = {}] ELSE known[j]]

Store(i, instance) ==
  /\ instances' = Updated(instances, i, instance)
  /\ Delivered(i, instance.emitted)

StoreAll(known) ==
  LET emitting(event) == {i \in DOMAIN known : event \in known[i].emitted}
  IN  /\ instances' = [i \in DOMAIN known |-> [known[i] EXCEPT !.emitted = {}]]
      /\ published' = published \ emitting("contexts_removed")
      /\ pending_restarts' = pending_restarts \ emitting("restart_completed")

\* handle_start over the map `known`; earlier are the events of this step so far.
HandleStart(known, i, version, outcome, earlier) ==
  LET rest == [j \in DOMAIN known \ {i} |-> known[j]]
      instance == Started(NewInstance(version), outcome)
      rejected == global_shutdown \/ (i \in DOMAIN known /\ IsActive(known[i]))
  IN  IF rejected
      THEN instances' = known /\ Delivered(i, earlier)
      ELSE IF ~HasCapacity(rest)
      THEN instances' = rest /\ Delivered(i, earlier)
      ELSE instances' = Updated(rest, i, instance) /\ Delivered(i, earlier \cup instance.emitted)

\* start_replacement_if_quiescent.
StartReplacement(known, i, outcome, earlier) ==
  IF i \in DOMAIN known /\ Quiescent(known[i]) /\ known[i].replacement # NoVersion
  THEN HandleStart([j \in DOMAIN known \ {i} |-> known[j]], i, known[i].replacement, outcome, earlier)
  ELSE instances' = known /\ Delivered(i, earlier)

\* One command of process_commands.  At launch the application starts the modules of
\* its configuration before anything else.
StartCommand(i) ==
  /\ phase = "commands" /\ i \in launching
  /\ launching' = launching \ {i}
  /\ \E outcome \in SpawnOutcome : HandleStart(instances, i, config[i], outcome, {})
  /\ UNCHANGED <<pending_starts, global_shutdown, phase, cursor, work, config>>

Accepting(command) ==
  phase = "commands" /\ launching = {} /\ command \in Commands /\ ~global_shutdown

\* The application never calls stop: it belongs to the interface that the tests use.
StopCommand(i) ==
  /\ Accepting("stop") /\ i \in DOMAIN instances
  /\ \E outcome \in SpawnOutcome : Store(i, HandleStop(i, instances[i], outcome))
  /\ UNCHANGED <<pending_starts, global_shutdown, phase, cursor, work, config, launching>>

\* ControlDispatcher::restart lets through one restart at a time of an enabled module.
RestartCommand(i) ==
  /\ Accepting("restart") /\ config[i] # NoVersion /\ i \notin pending_restarts
  /\ i \in DOMAIN instances
  /\ \E outcome \in SpawnOutcome :
       LET instance == HandleRestart(i, instances[i], outcome)
       IN  /\ instances' = Updated(instances, i, instance)
           /\ published' = IF "contexts_removed" \in instance.emitted
                           THEN published \ {i} ELSE published
           /\ pending_restarts' = IF "restart_completed" \in instance.emitted
                                  THEN pending_restarts ELSE pending_restarts \cup {i}
  /\ UNCHANGED <<pending_starts, global_shutdown, phase, cursor, work, config, launching>>

\* handle_send and handle_send_action change the instance only when its outbound
\* queue is full (the module does not read its input).
SendCommand(i) ==
  /\ Accepting("send") /\ i \in DOMAIN instances /\ instances[i].lc.state = "running"
  /\ Store(i, BeginFailure(instances[i], "unresponsive"))
  /\ UNCHANGED <<pending_starts, global_shutdown, phase, cursor, work, config, launching>>

\* The ids of a set in increasing order.
InOrder(ids) ==
  [n \in 1..Cardinality(ids) |-> CHOOSE i \in ids : Cardinality({j \in ids : j < i}) = n - 1]

\* plan_reload: modules to stop, then modules to start or replace.
ReconfigureCommand ==
  /\ Accepting("reconfigure")
  /\ \E next \in Configurations :
       LET changed == {i \in Ids : next[i] # config[i]}
           stops == {i \in changed : next[i] = NoVersion}
       IN  /\ changed # {}
           /\ config' = next
           /\ work' = InOrder(stops) \o InOrder(changed \ stops)
  /\ phase' = "reconfigure"
  /\ UNCHANGED <<instances, pending_starts, global_shutdown, cursor, launching,
                 pending_restarts, published>>

WithoutStart_None(i) == pending_starts   \* mutant

\* erase_if finds one start at most: a module is queued once.
WithoutStart(i) ==
  LET queued == {n \in DOMAIN pending_starts : pending_starts[n][1] = i}
      n == CHOOSE n \in queued : TRUE
  IN  IF queued = {} THEN pending_starts
      ELSE SubSeq(pending_starts, 1, n - 1) \o SubSeq(pending_starts, n + 1, Len(pending_starts))

\* One element of stop_instances.
ReconfigureStop(i) ==
  /\ config[i] = NoVersion
  /\ pending_starts' = WithoutStart(i)
  /\ IF i \in DOMAIN instances
     THEN LET instance == [CancelRestart(instances[i]) EXCEPT !.replacement = NoVersion]
          IN  \E outcome \in SpawnOutcome : Store(i, HandleStop(i, instance, outcome))
     ELSE UNCHANGED <<instances, published, pending_restarts>>

\* One element of start_or_replace, for an id the supervisor does not know ...
ReconfigureNew(i) ==
  /\ config[i] # NoVersion /\ i \notin DOMAIN instances
  /\ LET queued == \E n \in DOMAIN pending_starts : pending_starts[n][1] = i
     IN  IF queued \/ ~HasCapacity(instances)
         THEN /\ pending_starts' =
                   IF queued
                   THEN [n \in DOMAIN pending_starts |->
                           IF pending_starts[n][1] = i THEN <<i, config[i]>> ELSE pending_starts[n]]
                   ELSE Append(pending_starts, <<i, config[i]>>)
              /\ UNCHANGED <<instances, published, pending_restarts>>
         ELSE /\ \E outcome \in SpawnOutcome : HandleStart(instances, i, config[i], outcome, {})
              /\ UNCHANGED pending_starts

\* ... and for one it does.
ReconfigureKnown(i) ==
  /\ config[i] # NoVersion /\ i \in DOMAIN instances
  /\ \E outcome \in SpawnOutcome :
       LET instance == [CancelRestart(instances[i]) EXCEPT !.replacement = config[i]]
           stopped == HandleStop(i, instance, outcome)
       IN  StartReplacement(Updated(instances, i, stopped), i, outcome, stopped.emitted)
  /\ UNCHANGED pending_starts

ReconfigureStep ==
  /\ phase = "reconfigure" /\ work # << >>
  /\ \/ ReconfigureStop(Head(work))
     \/ ReconfigureNew(Head(work))
     \/ ReconfigureKnown(Head(work))
  /\ work' = Tail(work)
  /\ phase' = IF Tail(work) = << >> THEN "commands" ELSE phase
  /\ UNCHANGED <<global_shutdown, cursor, config, launching>>

\* begin_global_shutdown, with every handle_stop it calls: none of them starts anything.
ShutdownCommand ==
  /\ Accepting("shutdown")
  /\ global_shutdown' = TRUE
  /\ pending_starts' = << >>
  /\ StoreAll([i \in DOMAIN instances |-> StopRequested(instances[i])])
  /\ UNCHANGED <<phase, cursor, work, config, launching>>

CommandsDone ==
  /\ phase = "commands"
  /\ phase' = "advance"
  /\ UNCHANGED <<instances, pending_starts, global_shutdown, cursor, work, config, launching,
                 pending_restarts, published>>

\* A signal is delivered unless kill() fails; the lifecycle counts it as sent anyway.
AdvanceLifecycles ==
  /\ phase = "advance"
  /\ \E outcome \in [DOMAIN instances -> SpawnOutcome],
        delivered \in [DOMAIN instances -> IF "signal" \in Faults THEN BOOLEAN ELSE {TRUE}] :
       StoreAll([i \in DOMAIN instances |-> Advanced(instances[i], outcome[i], delivered[i])])
  /\ phase' = "service"
  /\ UNCHANGED <<pending_starts, global_shutdown, cursor, work, config, launching>>

\* What service_stdout, service_stderr and service_stdin find for one instance.
ServiceLine(i) ==
  /\ phase = "service" /\ i \in DOMAIN instances
  /\ LET instance == instances[i]
     IN  /\ instance.process # "none" /\ instance.eof_for = Unset
         /\ instance.lc.state # "stopping"
         /\ \E rolling \in BOOLEAN :
              \/ Store(i, HandleReady(instance, rolling))
              \/ Store(i, HandleMessage(instance, rolling))
              \/ Store(i, RecordViolation(instance, rolling))
  /\ UNCHANGED <<pending_starts, global_shutdown, phase, cursor, work, config, launching>>

ServiceEof(i) ==
  /\ phase = "service" /\ i \in DOMAIN instances
  /\ instances[i].process # "none" /\ instances[i].eof_for = Unset
  /\ Store(i, [instances[i] EXCEPT !.eof_for = 0])
  /\ UNCHANGED <<pending_starts, global_shutdown, phase, cursor, work, config, launching>>

ServiceError(i) ==
  /\ phase = "service" /\ "io" \in Faults /\ i \in DOMAIN instances
  /\ instances[i].process # "none" /\ CanFail(instances[i].lc, "io_error")
  /\ Store(i, BeginFailure(instances[i], "io_error"))
  /\ UNCHANGED <<pending_starts, global_shutdown, phase, cursor, work, config, launching>>

ServiceDone ==
  /\ phase = "service"
  /\ phase' = "reap"
  /\ cursor' = 1
  /\ UNCHANGED <<instances, pending_starts, global_shutdown, work, config, launching,
                 pending_restarts, published>>

\* One turn of the first loop of reap_instances, for the instance at the cursor.
ReapExited(i) ==
  /\ i \in DOMAIN instances /\ instances[i].process \in ExitedProcess
  /\ LET reaped == Reaped(instances[i])
     IN  /\ \E outcome \in SpawnOutcome : Store(i, HandleReaped(i, reaped, outcome))
         /\ work' = IF AwaitsReplacement(reaped) THEN Append(work, i) ELSE work

\* The process is still there: stdout may have been closed for too long.
ReapAlive(i) ==
  /\ i \in DOMAIN instances /\ instances[i].process \in {"alive", "killed"}
  /\ Store(i, IF instances[i].eof_for >= EofGrace THEN BeginFailure(instances[i], "io_error")
                                                  ELSE instances[i])
  /\ UNCHANGED work

ReapFailed(i) ==
  /\ "waitpid" \in Faults
  /\ i \in DOMAIN instances /\ instances[i].process # "none"
  /\ Store(i, BeginFailure(instances[i], "io_error"))
  /\ UNCHANGED work

NothingToReap(i) ==
  /\ i \in DOMAIN instances => instances[i].process = "none"
  /\ UNCHANGED <<instances, work, pending_restarts, published>>

Reap ==
  /\ phase = "reap"
  /\ ReapExited(cursor) \/ ReapAlive(cursor) \/ ReapFailed(cursor) \/ NothingToReap(cursor)
  /\ cursor' = IF cursor = N THEN 1 ELSE cursor + 1
  /\ phase' = IF cursor = N THEN "replace" ELSE phase
  /\ UNCHANGED <<pending_starts, global_shutdown, config, launching>>

ReplaceReaped ==
  /\ phase = "replace" /\ work # << >>
  /\ \E outcome \in SpawnOutcome : StartReplacement(instances, Head(work), outcome, {})
  /\ work' = Tail(work)
  /\ UNCHANGED <<pending_starts, global_shutdown, phase, cursor, config, launching>>

CanStartPending == ~global_shutdown /\ pending_starts # << >> /\ HasCapacity(instances)

StartPending ==
  /\ phase = "replace" /\ work = << >> /\ CanStartPending
  /\ \E outcome \in SpawnOutcome :
       HandleStart(instances, Head(pending_starts)[1], Head(pending_starts)[2], outcome, {})
  /\ pending_starts' = Tail(pending_starts)
  /\ UNCHANGED <<global_shutdown, phase, cursor, work, config, launching>>

AllQuiescent == \A i \in DOMAIN instances : Quiescent(instances[i])

ReapDone ==
  /\ phase = "replace" /\ work = << >> /\ ~CanStartPending
  /\ phase' = IF global_shutdown /\ AllQuiescent THEN "done" ELSE "poll"
  /\ UNCHANGED <<instances, pending_starts, global_shutdown, cursor, work, config, launching,
                 pending_restarts, published>>

\* A process may exit at any time; SIGKILL always ends it.
ProcessExits(i) ==
  /\ phase = "poll" /\ i \in DOMAIN instances
  /\ \/ /\ instances[i].process = "alive"
        /\ \E status \in ExitedProcess : instances' = [instances EXCEPT ![i].process = status]
     \/ /\ instances[i].process = "killed"
        /\ instances' = [instances EXCEPT ![i].process = "signal"]
  /\ UNCHANGED <<pending_starts, global_shutdown, phase, cursor, work, config, launching,
                 pending_restarts, published>>

Polled(time) ==
  /\ phase = "poll"
  /\ phase' = "commands"
  /\ instances' = IF time = 0 THEN instances
                  ELSE [i \in DOMAIN instances |->
                          [instances[i] EXCEPT !.lc = Elapsed(@), !.eof_for = Older(@, EofGrace)]]
  /\ UNCHANGED <<pending_starts, global_shutdown, cursor, work, config, launching,
                 pending_restarts, published>>

\* run() has returned and the thread has been joined.
Done == phase = "done" /\ UNCHANGED vars

Poll == \E time \in {0, 1} : Polled(time)

Command(i) == StartCommand(i) \/ StopCommand(i) \/ RestartCommand(i) \/ SendCommand(i)
Service(i) == ServiceLine(i) \/ ServiceEof(i) \/ ServiceError(i)

Next ==
  \/ \E i \in Ids : Command(i)
  \/ ReconfigureCommand
  \/ ReconfigureStep
  \/ ShutdownCommand
  \/ CommandsDone
  \/ AdvanceLifecycles
  \/ \E i \in Ids : Service(i)
  \/ ServiceDone
  \/ Reap
  \/ ReplaceReaped
  \/ StartPending
  \/ ReapDone
  \/ \E i \in Ids : ProcessExits(i)
  \/ Poll
  \/ Done

Spec == Init /\ [][Next]_vars

(* The loop keeps going; calls into the operating system return; time passes; and a *)
(* process that was sent SIGKILL exits.  Modules and clients owe nothing.           *)
Fairness ==
  /\ WF_vars(CommandsDone) /\ WF_vars(ReconfigureStep) /\ WF_vars(AdvanceLifecycles)
  /\ WF_vars(ServiceDone) /\ WF_vars(Reap) /\ WF_vars(ReplaceReaped) /\ WF_vars(StartPending)
  /\ WF_vars(ReapDone) /\ WF_vars(Poll)
  /\ SF_vars(Polled(1))
  /\ \A i \in Ids : SF_vars(ProcessExits(i) /\ instances[i].process = "killed")

FairSpec == Spec /\ Fairness

--------------------------------------------------------------------------------
(* Properties.                                                                      *)

InstanceRecord ==
  [version            : Versions,
   lc                 : LifecycleRecord,
   process            : ProcessStatus,
   ready              : BOOLEAN,
   restart_after_stop : BOOLEAN,
   restart_pending    : BOOLEAN,
   replacement        : Versions \cup {NoVersion},
   contexts_removed   : BOOLEAN,
   eof_for            : Span(EofGrace),
   violations         : 0..ViolationLimit,
   emitted            : {{}}]

Phase == {"commands", "reconfigure", "advance", "service", "reap", "replace", "poll", "done"}

TypeOK ==
  /\ DOMAIN instances \subseteq Ids
  /\ \A i \in DOMAIN instances : instances[i] \in InstanceRecord
  /\ pending_starts \in Seq(Ids \X Versions)
  /\ global_shutdown \in BOOLEAN
  /\ phase \in Phase
  /\ cursor \in Ids
  /\ work \in Seq(Ids)
  /\ config \in Configurations
  /\ launching \subseteq Ids
  /\ pending_restarts \subseteq Ids
  /\ published \subseteq Ids

\* A process belongs to every instance that is starting, running or stopping, and to
\* no other: none is leaked by a replacement, and no state waits for a missing one.
ProcessMatchesState ==
  \A i \in DOMAIN instances :
    (instances[i].process # "none") <=> (instances[i].lc.state \in ProcessState)

\* The contexts that the application shows belong to running processes: whatever ends
\* one, the application hears ContextsRemoved, and never a message after it.
ContextsNeverOutliveRunning ==
  \A i \in published :
    i \in DOMAIN instances /\ instances[i].lc.state = "running" /\ ~instances[i].contexts_removed

\* What the supervisor keeps of its processes is true, whatever calls of the operating
\* system fail (spawn_process, handle_reaped_instance, remove_contexts).
ProcessesAreAccounted == TypeOK /\ ProcessMatchesState /\ ContextsNeverOutliveRunning

\* The supervision limit holds whichever way an instance becomes active.
WithinLimit == ActiveIn(instances) <= MaximumInstances

Processes(known) == {i \in DOMAIN known : known[i].process # "none"}

\* Once shutdown has begun no process is spawned: no backoff, pending restart,
\* replacement or deferred start survives it.
NoSpawnAfterShutdown ==
  [][global_shutdown => Processes(instances') \subseteq Processes(instances)]_vars

\* The definition that a process is spawned from is the one the configuration asks for.
Spawned(i) == i \in Processes(instances') /\ i \notin Processes(instances)

SpawnsConfigured ==
  [][\A i \in Ids : Spawned(i) => instances'[i].version = config'[i]]_vars

\* A restart that the dispatcher waits for is one the supervisor still knows of, so
\* that it will be reported: until then every further restart is refused.
PendingRestartsTracked ==
  \A i \in pending_restarts : i \in DOMAIN instances /\ instances[i].restart_pending

\* The reload in progress has yet to reach i.
Unreached(i) == phase = "reconfigure" /\ \E n \in DOMAIN work : work[n] = i

\* Whatever will replace an outdated instance has the latest definition; whether it will
\* be replaced is OutdatedLeaves.
ReplacementsAreLatest ==
  \A i \in DOMAIN instances :
    config[i] # NoVersion /\ instances[i].version # config[i]
      => instances[i].replacement = config[i] \/ Unreached(i)

\* A start deferred for want of capacity is one the configuration still asks for, of a
\* module that is not there and is queued once: a later reload that removes or changes
\* the module reaches the queue as well.
DeferredAreWanted ==
  \A n \in DOMAIN pending_starts :
    LET i == pending_starts[n][1]
    IN  /\ i \notin DOMAIN instances
        /\ config[i] = pending_starts[n][2] \/ Unreached(i)
        /\ \A m \in DOMAIN pending_starts : pending_starts[m][1] = i => m = n

\* Replacements and deferred starts keep the limit and are those of the latest of several
\* reloads (handle_reconfigure, handle_start, start_pending_modules).
ReconfigurationIsSound == WithinLimit /\ ReplacementsAreLatest /\ DeferredAreWanted

\* An instance of a definition that the configuration no longer has, or of a removed
\* module; its process is being stopped for good, or is gone: the replacement is next, or
\* there is none.
Outdated(i) == i \in DOMAIN instances /\ instances[i].version # config[i]
ToBeReplaced(i) == phase \in {"reap", "replace"} /\ \E n \in DOMAIN work : work[n] = i
Leaving(i) ==
  LET instance == instances[i]
  IN  /\ instance.replacement = config[i]
      /\ instance.restart_after_stop => config[i] # NoVersion
      /\ \/ instance.lc.state = "stopping" /\ instance.lc.pending_stop_cause = "requested"
         \/ instance.lc.state = "stopped" /\ (config[i] = NoVersion \/ ToBeReplaced(i))

\* A reload takes every outdated instance out, whatever it was doing and whatever comes
\* in between (stops, restarts, further reloads): the only ones that stay, and may be
\* spawned again, are those that it found already stopping after a failure.
Strayed(i) == Outdated(i) /\ ~Unreached(i) /\ ~Leaving(i)
FoundDying(i) ==
  /\ Unreached(i) /\ i \in DOMAIN instances
  /\ instances[i].lc.state = "stopping" /\ instances[i].lc.pending_stop_cause # "requested"

OutdatedLeaves == [][\A i \in Ids : Strayed(i)' => Strayed(i) \/ FoundDying(i)]_vars

\* The events that the application receives of each module follow the order that it
\* relies on: a process starts, becomes ready, speaks, and its contexts are removed
\* before another one starts.
Presence(i) ==
  IF i \notin DOMAIN instances THEN "absent"
  ELSE IF instances[i].contexts_removed THEN "absent"
  ELSE IF instances[i].ready THEN "running" ELSE "starting"

Events == INSTANCE ProcessEvents
  WITH Modules <- Ids, presence <- [i \in Ids |-> Presence(i)], heard <- published

ImplementsProcessEvents == Events!Spec

\* Shutdown ends: run() returns, so the application's join does too.
ShutdownCompletes == global_shutdown ~> (phase = "done")

\* Every accepted restart is reported to the dispatcher, unless shutdown comes first.
RestartsAreReported ==
  \A i \in Ids : (i \in pending_restarts) ~> (i \notin pending_restarts \/ global_shutdown)
================================================================================
