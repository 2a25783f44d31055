------------------------------- MODULE Trees --------------------------------
(* What descends into values: scenes and options, which hold one another.    *)
EXTENDS Values

(* A scene as the sequence of its nodes with their depths, in the order of   *)
(* the walks of the code; and what is wrong with any of them.                *)
RECURSIVE Walk(_, _)
Walk(x, depth) ==
  <<[node |-> x, depth |-> depth]>>
    \o FlattenSeq([i \in 1..Len(Children(x)) |-> Walk(Children(x)[i], depth + 1)])
Faults(scene, Of(_)) == LET w == Walk(scene, 1) IN UNION {Of(w[i].node) : i \in 1..Len(w)}

(* convert_option: dates have no counterpart among the options.            *)
RECURSIVE OptionFaults(_)
OptionFaults(x) ==
  CASE x.t = "date"   -> {"date"}
    [] x.t = "array"  -> UNION {OptionFaults(x.v[i]) : i \in 1..Len(x.v)}
    [] x.t = "object" -> UNION {OptionFaults(x.v[f]) : f \in DOMAIN x.v}
    [] OTHER          -> {}

(* equal_process_config and equal_view: not a number equals nothing.       *)
RECURSIVE SameOption(_, _)
SameOption(x, y) ==
  /\ x.t = y.t /\ x.t # "nan"
  /\ CASE x.t = "array"  -> Len(x.v) = Len(y.v) /\ \A i \in 1..Len(x.v) : SameOption(x.v[i], y.v[i])
       [] x.t = "object" -> DOMAIN x.v = DOMAIN y.v /\ \A f \in DOMAIN x.v : SameOption(x.v[f], y.v[f])
       [] OTHER          -> x.v = y.v
=============================================================================
