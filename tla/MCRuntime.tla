---------------------------- MODULE MCRuntime ----------------------------
(* Small instances of Runtime: a clock, which is the default and has a configured *)
(* view, and a status module that publishes alerts.                               *)

EXTENDS Runtime

Alert == <<"status", "alert">>
Clock == <<"clock", "configured">>

TwoKeys == {Alert, Clock}
ClockDefault == [slot \in Slots |-> "clock"]

Message(priority, left, compact, expanded) ==
  [key |-> Alert, priority |-> priority, left |-> left, compact |-> compact,
   expanded |-> expanded, fallback_only |-> FALSE]

Enabled(process, view) == [enabled |-> TRUE, process |-> process, view |-> view]
Disabled == [enabled |-> FALSE, process |-> 1, view |-> NoView]

Settings(clock, status) == [i \in Instances |-> IF i = "clock" THEN clock ELSE status]

Replacements ==
  {Settings(Enabled(1, "good"), Enabled(1, NoView)),
   Settings(Enabled(1, "good"), Enabled(2, NoView)),
   Settings(Disabled, Enabled(2, NoView))}
CompactOnly ==
  {Message(1, Forever, "good", NoView), Message(1, 1, "bad", NoView),
   Message(1, 1, "better", NoView), Message(1, 0, "good", NoView)}
ExpandedAlerts == {Message(1, Forever, NoView, "good"), Message(1, 1, "bad", NoView)}
AllAlerts == CompactOnly \cup ExpandedAlerts

\* One module with a view, an alert that is valid, half valid or refused, and an urgent
\* context that takes the expanded slot from the alert.
Urgent == <<"status", "urgent">>
StatusKeys == {Alert, Urgent, <<"status", "configured">>}
StatusDefault == [slot \in Slots |-> "status"]
Views == {[i \in Instances |-> Enabled(1, view)] : view \in {"good", "bad"}}
Refusable ==
  {Message(1, Forever, "good", NoView), Message(1, 1, "good", "bad"),
   Message(1, Forever, "bad", NoView),
   [Message(2, Forever, NoView, "good") EXCEPT !.key = Urgent]}
==========================================================================
