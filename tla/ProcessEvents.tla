----------------------------- MODULE ProcessEvents -----------------------------
(* What the supervisor promises the application about the events of its modules,  *)
(* whatever commands, failures and timers made them happen: for each module,      *)
(*                                                                                *)
(*   ProcessStarted  Ready  (message)*  ContextsRemoved                           *)
(*                                                                                *)
(* over and over, possibly cut short before Ready, and nothing outside of it.     *)
(* ModuleSupervisor implements this specification (ImplementsProcessEvents there);*)
(* Runtime assumes it, and keeps its contexts in step with it.                    *)

EXTENDS Naturals

CONSTANT Modules

VARIABLES
  presence,     \* for each module, how far its process has got
  heard         \* the modules whose messages count: none since their contexts were removed

Presence == {"absent", "starting", "running"}

Init == presence = [m \in Modules |-> "absent"] /\ heard = {}

\* What one step of the supervisor may do to one module.
ProcessStarts(m) == presence[m] = "absent" /\ presence'[m] = "starting" /\ m \notin heard'
BecomesReady(m) == presence[m] = "starting" /\ presence'[m] = "running" /\ m \notin heard'
Speaks(m) == presence[m] = "running" /\ presence'[m] = "running" /\ m \in heard'
ContextsRemoved(m) == presence'[m] = "absent" /\ m \notin heard'
IsReplaced(m) == presence[m] # "absent" /\ presence'[m] = "starting" /\ m \notin heard'
Undisturbed(m) == presence'[m] = presence[m] /\ (m \in heard' <=> m \in heard)

\* A step may concern several modules: the timers of all of them are looked at together.
Next ==
  /\ presence' \in [Modules -> Presence]
  /\ heard' \subseteq Modules
  /\ \A m \in Modules :
       \/ ProcessStarts(m) \/ BecomesReady(m) \/ Speaks(m)
       \/ ContextsRemoved(m) \/ IsReplaced(m) \/ Undisturbed(m)

Spec == Init /\ [][Next]_<<presence, heard>>

TypeOK == presence \in [Modules -> Presence] /\ heard \subseteq Modules

\* A module that is heard is running.
HeardIsRunning == \A m \in heard : presence[m] = "running"
================================================================================
