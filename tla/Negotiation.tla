---------------------------- MODULE Negotiation -----------------------------
(***************************************************************************)
(* Protocol versions and capabilities: what the core offers a module       *)
(* (config.cpp, runtime.cpp), what the Lua host selects (lua_host.cpp),    *)
(* and what the core then lets the module use (module_supervisor.cpp).     *)
(* Only versions 1.x: the second number is enough.                         *)
(***************************************************************************)
EXTENDS Values

CoreMinor == 11                 \* the latest version the core speaks
HostMinor == 11                 \* and the Lua host, which needs HostLeast
HostLeast == 8

(* The version that brought each capability.                               *)
Capabilities ==
  {"data-snapshots", "context-images", "rich-content", "independent-views", "ring-progress",
   "status-indicator", "compact-view-styles", "icon-roles", "progress-transitions", "indicator-effects",
   "content-transitions", "text-input", "expanded-view-styles", "escape-action"}
Since ==
  [c \in Capabilities |->
     CASE c = "data-snapshots"    -> 0
       [] c = "context-images"    -> 2
       [] c = "rich-content"      -> 3
       [] c = "independent-views" -> 4
       [] c = "ring-progress"     -> 5
       [] c = "status-indicator"  -> 6
       [] c \in {"compact-view-styles", "icon-roles", "progress-transitions"} -> 7
       [] c \in {"indicator-effects", "content-transitions"}                 -> 9
       [] c \in {"text-input", "expanded-view-styles"}                       -> 10
       [] c = "escape-action"     -> 11]

(* The range a manifest asks for, cut to what the core speaks.             *)
RangeIsRefused(low, high) == low > CoreMinor \/ high < 0 \/ low > high
Low(low)   == Max({0, low})
High(high) == Min({CoreMinor, high})

(* make_module_start_request: snapshots need a declarative view.           *)
Offered(view, high) ==
  {c \in Capabilities : Since[c] <= high /\ (c = "data-snapshots" => view)}

(* initialize.                                                             *)
HostRefuses(low, high) == low < 0 \/ low > high \/ low > HostMinor \/ high < HostLeast
\* mutant: the host always speaks its latest version
HostSelects_Latest(high) == HostMinor
HostSelects(high) == Min({high, HostMinor})
HostTakes(offered, minor) == {c \in offered : Since[c] < HostLeast \/ Since[c] <= minor}

(* accept_ready.                                                           *)
ReadyFaults(low, high, offered, minor, capabilities) ==
  When(minor \notin low..high, "version") \cup When(~capabilities \subseteq offered, "offer")
    \cup When(\E c \in capabilities \cap Capabilities : Since[c] > minor, "since")

(* handle_protocol_line: an accepted record is held to the capabilities    *)
(* that it uses, and to the version of activation_only.                    *)
Held(used, activation_only, minor, negotiated) ==
  /\ \A c \in used : c \in negotiated /\ Since[c] <= minor
  /\ activation_only => minor >= 10
=============================================================================
