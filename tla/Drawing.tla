------------------------------ MODULE Drawing -------------------------------
(***************************************************************************)
(* Families of scenes and views, and what laying one out must make of it.  *)
(***************************************************************************)
EXTENDS Integers, Sequences, FiniteSets, SequencesExt

Plans == INSTANCE Layout WITH Padding <- 1, Gap <- 1, Ellipsis <- 1, InputHeight <- 2, InputPadding <- 1,
                              Track <- 1, Ring <- 4, RingHeight <- 8, Dot <- 2, Shadow <- 1, Aura <- 1

Text(w, truncated) == [type |-> "text", width |-> w, height |-> 2, truncated |-> truncated]
Icon   == [type |-> "icon", width |-> 2, height |-> 2]
Picture(cap) == [type |-> "image", width |-> 4, height |-> 4, cap |-> cap]
Space(n) == [type |-> "spacer", flexible |-> n = 0, size |-> n]
Meter(label, ring) == [type |-> "progress", label |-> label, height |-> 2, ring |-> ring]
Box(type, kids, gap, alignment) ==
  [type |-> type, children |-> kids, gap |-> gap, alignment |-> alignment]
Press(type, kid) == [type |-> type, content |-> kid]

Leaves ==
  {Text(5, TRUE), Text(3, FALSE), Icon, Picture(FALSE), Space(0), Space(1), Space(4), Meter(0, FALSE),
   Meter(3, FALSE), Meter(0, TRUE), [type |-> "text_input", width |-> 3],
   [type |-> "rich_text", words |-> <<2, 3, 2>>, height |-> 2],
   [type |-> "indicator", effects |-> {"shadow", "glow"}]}

Wraps == {"none", "row", "column", "button", "action_region"}
Wrapped(wrap, x, y) ==
  CASE wrap = "none" -> x
    [] wrap \in {"row", "column"} -> Box(wrap, <<x, y>>, 1, "end")
    [] OTHER -> Press(wrap, x)

Geometry(x, y) ==
  [padding |-> [x |-> 2, y |-> 1], least |-> [x |-> 6, y |-> 6], most |-> [x |-> x, y |-> y], radius |-> 3]
Views ==
  [mode : {"compact"}, style : {""}, geometry : {Geometry(18, 6), Geometry(26, 12)}]
    \cup [mode : {"expanded"}, style : {"action-menu"}, geometry : {Geometry(16, 16)}]

LayoutInputs ==
  [outer : {"row", "column"}, alignment : {"center"}, first : Leaves, wrap : Wraps, second : Leaves,
   again : Wraps, view : Views]
    \cup [outer : {"row"}, alignment : {"start", "end"}, first : {Picture(TRUE)}, wrap : {"none"}, second : Leaves,
          again : Wraps, view : Views]
SceneOf(i) ==
  Box(i.outer, <<Wrapped(i.wrap, i.first, i.second), Wrapped(i.again, i.second, i.first)>>, 1, i.alignment)

-----------------------------------------------------------------------------
Within(r, q) == \A a \in Plans!Axes : q.at[a] <= r.at[a] /\ Plans!Ends(r, a) <= Plans!Ends(q, a)
Apart(r, q) == \E a \in Plans!Axes : Plans!Ends(r, a) <= q.at[a] \/ Plans!Ends(q, a) <= r.at[a]
IsLeaf(d) == d.type \notin {"button", "action_region"}

(* What a plan promises: everything is inside the view's content and no    *)
(* two leaves cover each other, so that nothing is drawn or clicked twice. *)
PlanIsSound(plan) ==
  LET d == plan.drawn
  IN /\ \A i \in DOMAIN d : Within(d[i].bounds, plan.content)
     /\ \A i, j \in DOMAIN d : i < j /\ IsLeaf(d[i]) /\ IsLeaf(d[j]) => Apart(d[i].bounds, d[j].bounds)
     /\ Within(plan.content, Plans!Rect(0, 0, plan.size.x, plan.size.y))

(* And a scene whose least size fits the view has a plan, but for those    *)
(* that have text that wraps, a fixed spacer, the equal buttons of a menu, *)
(* or a leading-cap image in a view without a round cap for it.            *)
Fits(i, scene, least, g) ==
  /\ \A a \in Plans!Axes : least[a] + (2 * g.padding[a]) <= g.most[a]
  /\ \A x \in {i.first, i.second} : x.type # "rich_text" /\ (x.type = "spacer" => x.flexible)
  /\ ~(i.view.style = "action-menu" /\ Plans!UniformButtons(Plans!Measure(scene)))
  /\ Plans!HasCap(scene) => Plans!CapFits(scene, i.view, g)
Answers(i, scene, plan) ==
  IF plan = Plans!Impossible THEN ~Fits(i, scene, Plans!Measure(scene).least, i.view.geometry)
  ELSE PlanIsSound(plan)
Laid(i, scene) == Answers(i, scene, Plans!Plan(scene, i.view))
LaidOut(i) == Laid(i, SceneOf(i))
=============================================================================
