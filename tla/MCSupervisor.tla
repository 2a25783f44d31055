---------------------------- MODULE MCSupervisor ----------------------------
(* Small instances of ModuleSupervisor.                                         *)

EXTENDS ModuleSupervisor

Policies == <<"on_failure", "always">>
OnFailure == <<"on_failure">>
Every == [Ids -> Versions \cup {NoVersion}]
\* Each module is added, changed and removed, the changes in one reload with others.
Reloads == {<<1, 0>>, <<2, 0>>, <<2, 1>>, <<0, 1>>}
NotAlways == <<"on_failure", "never">>
=============================================================================
