------------------------------- MODULE Layout -------------------------------
(***************************************************************************)
(* Where the parts of a scene go (layout.cpp): a scene is measured from    *)
(* the leaves up, the view is sized between its bounds, widths go down     *)
(* again (text that wraps then gets its height), and every node is placed  *)
(* in the rectangle its parent assigns.  Sizes are pixels; a scene is      *)
(* known by the sizes its texts, icons and words have in the theme's       *)
(* fonts.  An operator that can fail gives Impossible for the error        *)
(* impossible_constraints.                                                 *)
(***************************************************************************)
EXTENDS Integers, Sequences, FiniteSets, SequencesExt, Functions

CONSTANTS
  Padding,                    \* the spacer "normal", around the content of a button
  Gap,                        \* the gap "normal"
  Ellipsis,                   \* the width of an ellipsis
  InputHeight, InputPadding,  \* of a text_input
  Track, Ring, RingHeight,    \* linear_thickness, ring_diameter, compact_height of progress
  Dot, Shadow, Aura           \* the diameter of an indicator, the radii of its effects
                              \* (the shadow goes Shadow to the left and above, and twice as
                              \* far to the right and below)

Impossible == [type |-> "impossible"]
Axes == {"x", "y"}
Other(axis) == IF axis = "x" THEN "y" ELSE "x"
Total(s) == FoldLeft(+, 0, s)
Greatest(s) == FoldLeft(LAMBDA a, b : Max({a, b}), 0, s)
Size(x, y) == [x |-> x, y |-> y]

(* A rectangle, and what two of them share.                                *)
Rect(x, y, w, h) == [at |-> Size(x, y), size |-> Size(w, h)]
Ends(r, axis) == r.at[axis] + r.size[axis]
Intersect(r, q) ==
  LET at == [a \in Axes |-> Max({r.at[a], q.at[a]})]
  IN [at |-> at, size |-> [a \in Axes |-> Max({0, Min({Ends(r, a), Ends(q, a)}) - at[a]})]]

-----------------------------------------------------------------------------
(* Measuring.  A measured node has its scene, its natural and its least    *)
(* size, the axes along which it takes what is left, and its children.     *)

Measured(scene, full, least, grows, kids) ==
  [type |-> scene.type, scene |-> scene, full |-> full, least |-> least, grows |-> grows, kids |-> kids]
Leaf(scene, full, least, grows) == Measured(scene, full, least, grows, <<>>)
Rigid(scene, size) == Leaf(scene, size, size, {})

(* A spacer counts along its row or column, and not across it.             *)
Spacer(n) == n.type = "spacer"
Main(n, axis, size) == n[size][axis]
Cross(n, axis, size) == IF Spacer(n) THEN 0 ELSE n[size][Other(axis)]
Expands(n, axis) == (Spacer(n) /\ n.scene.flexible) \/ axis \in n.grows

(* Words set in lines of a width; a word that is too long stays alone.     *)
Lines(words, width) ==
  LET add(l, w) == IF l.used > 0 /\ l.used + w > width THEN [lines |-> l.lines + 1, used |-> w]
                   ELSE [lines |-> l.lines, used |-> l.used + w]
  IN FoldLeft(add, [lines |-> 1, used |-> 0], words).lines
Composed(scene, width) ==
  Leaf(scene, Size(width, Lines(scene.words, width) * scene.height),
       Size(Greatest(scene.words), Lines(scene.words, width) * scene.height), {"x"})

Progress(scene) ==
  LET track == 8 * Padding
      width == Max({scene.label, track})
      height == IF scene.label = 0 THEN Track ELSE scene.height + Gap + Track
  IN IF scene.ring THEN Rigid(scene, Size(Ring, Ring))
     ELSE Leaf(scene, Size(width, height), Size(width, height), IF scene.label = 0 THEN {"x"} ELSE {})

Gaps(gap, kids) == IF Len(kids) > 1 THEN gap * (Len(kids) - 1) ELSE 0
AxisOf(scene) == IF scene.type = "row" THEN "x" ELSE "y"
Container(scene, kids) ==
  LET axis == AxisOf(scene)
      whole(size) ==
        [a \in Axes |-> IF a = axis
                        THEN Gaps(scene.gap, kids) + Total([i \in DOMAIN kids |-> Main(kids[i], a, size)])
                        ELSE Greatest([i \in DOMAIN kids |-> Cross(kids[i], axis, size)])]
      grows == {a \in Axes : \E i \in DOMAIN kids : IF a = axis THEN Expands(kids[i], a) ELSE a \in kids[i].grows}
  IN Measured(scene, whole("full"), whole("least"), grows, kids)

(* The effects of an indicator need room around its dot.                   *)
Indicator(scene) ==
  LET aura  == IF {"glow", "breathe"} \cap scene.effects # {} THEN Aura ELSE 0
      shade == IF "shadow" \in scene.effects THEN Shadow ELSE 0
      side  == Dot + Max({shade, aura}) + Max({2 * shade, aura})
  IN Rigid(scene, Size(side, side))

Around(size, border) == [a \in Axes |-> size[a] + (2 * border)]

RECURSIVE Measure(_)
Measure(scene) ==
  CASE scene.type = "text" ->
         Leaf(scene, Size(scene.width, scene.height),
              Size(IF scene.truncated THEN Min({scene.width, Ellipsis}) ELSE 0, scene.height), {})
    [] scene.type = "text_input" ->
         Leaf(scene, Size(scene.width + (2 * InputPadding), InputHeight),
              Size(2 * InputPadding, InputHeight), {"x"})
    [] scene.type = "rich_text" -> Composed(scene, Max({1, Total(scene.words)}))
    [] scene.type \in {"icon", "image"} -> Rigid(scene, Size(scene.width, scene.height))
    [] scene.type = "indicator" -> Indicator(scene)
    [] scene.type = "spacer" ->
         Rigid(scene, IF scene.flexible THEN Size(0, 0) ELSE Size(scene.size, scene.size))
    [] scene.type = "progress" -> Progress(scene)
    [] scene.type \in {"row", "column"} ->
         Container(scene, [i \in DOMAIN scene.children |-> Measure(scene.children[i])])
    [] OTHER ->
         LET kid == Measure(scene.content)
             border == IF scene.type = "button" THEN Padding ELSE 0
         IN Measured(scene, Around(kid.full, border), Around(kid.least, border), kid.grows, <<kid>>)

-----------------------------------------------------------------------------
(* Sharing a length among the children of a row or a column.  The first    *)
(* children give way first, down to their least size; what is left goes    *)
(* to those that expand, a pixel more to the first ones.                   *)

\* mutant: nobody stops at the least size
Reduced_BelowLeast(size, least, deficit) == Min({deficit, size})
Reduced(size, least, deficit) == Min({deficit, size - least})

(* The wants less the deficit; and the room left over, for the open ones.  *)
Cut(n, axis, wants, deficit) ==
  LET give(s, i) ==
        LET cut == IF s.left = 0 THEN 0 ELSE Reduced(wants[i], Main(n.kids[i], axis, "least"), s.left)
        IN [sizes |-> Append(s.sizes, wants[i] - cut), left |-> s.left - cut]
  IN FoldLeft(give, [sizes |-> <<>>, left |-> deficit], [i \in DOMAIN n.kids |-> i])
More(open, i, free) ==
  (free \div Cardinality(open)) + IF Cardinality({j \in open : j < i}) < free % Cardinality(open) THEN 1 ELSE 0
Shared(n, axis, cut, free) ==
  LET open == {i \in DOMAIN n.kids : Expands(n.kids[i], axis)}
  IN IF cut.left > 0 THEN Impossible
     ELSE [sizes |-> [i \in DOMAIN n.kids |-> cut.sizes[i] + IF i \in open THEN More(open, i, free) ELSE 0],
           type |-> "shares"]
Spread(n, axis, wants, over) == Shared(n, axis, Cut(n, axis, wants, Max({0, over})), Max({0, 0 - over}))
Wants(n, axis) ==
  [i \in DOMAIN n.kids |-> Main(n.kids[i], axis, IF Expands(n.kids[i], axis) THEN "least" ELSE "full")]
Shares(n, axis, length) ==
  LET gaps == Gaps(n.scene.gap, n.kids)
  IN IF gaps > length THEN Impossible
     ELSE Spread(n, axis, Wants(n, axis), gaps + Total(Wants(n, axis)) - length)

(* The buttons of an action menu are as wide as each other.                *)
Equal(n, length) ==
  LET count == Len(n.kids)
      free  == length - Gaps(n.scene.gap, n.kids)
      sizes == [i \in 1..count |-> (free \div count) + IF i <= free % count THEN 1 ELSE 0]
  IN IF free < 0 \/ \E i \in 1..count : sizes[i] < n.kids[i].least.x THEN Impossible
     ELSE [sizes |-> sizes, type |-> "shares"]

UniformButtons(n) == n.type = "row" /\ n.kids # <<>> /\ \A i \in DOMAIN n.kids : n.kids[i].type = "button"
Widths(n, length, equal) == IF equal /\ UniformButtons(n) THEN Equal(n, length) ELSE Shares(n, "x", length)

-----------------------------------------------------------------------------
(* Widths go down.                                                         *)

Bad(kids) == \E i \in DOMAIN kids : kids[i].type = "impossible"

RowOf(n, sizes, kids) ==
  LET high(size) == Greatest([i \in DOMAIN kids |-> kids[i][size].y])
  IN IF Bad(kids) THEN Impossible
     ELSE [n EXCEPT !.kids = kids, !.least.y = high("least"),
                    !.full = Size(Gaps(n.scene.gap, kids) + Total(sizes), high("full"))]
ColumnOf(n, width, kids) ==
  LET high(size) == Gaps(n.scene.gap, kids) + Total([i \in DOMAIN kids |-> kids[i][size].y])
      wide(size) == Greatest([i \in DOMAIN kids |-> kids[i][size].x])
  IN IF Bad(kids) THEN Impossible
     ELSE [n EXCEPT !.kids = kids, !.least = Size(wide("least"), high("least")),
                    !.full = Size(IF "x" \in n.grows THEN width ELSE wide("full"), high("full"))]
ButtonOf(n, width, kid) ==
  LET high == kid.full.y + (2 * Padding)
  IN IF kid = Impossible THEN Impossible
     ELSE [n EXCEPT !.kids = <<kid>>, !.full = Size(width, high), !.least.y = high]
RegionOf(n, kid) ==
  IF kid = Impossible THEN Impossible
  ELSE [n EXCEPT !.kids = <<kid>>, !.full = kid.full, !.least = kid.least]

RECURSIVE Constrain(_, _, _)
ConstrainRow(n, shares) ==
  IF shares = Impossible THEN Impossible
  ELSE RowOf(n, shares.sizes, [i \in DOMAIN n.kids |-> Constrain(n.kids[i], shares.sizes[i], FALSE)])
ConstrainColumn(n, width) ==
  LET assigned(kid) == IF "x" \in kid.grows THEN width ELSE Min({kid.full.x, width})
  IN ColumnOf(n, width, [i \in DOMAIN n.kids |-> Constrain(n.kids[i], assigned(n.kids[i]), FALSE)])
Constrain(n, width, equal) ==
  IF width < 0 THEN Impossible
  ELSE CASE n.type = "rich_text"  -> IF width = 0 THEN Impossible ELSE Composed(n.scene, width)
         [] n.type = "text_input" -> IF width < n.least.x THEN Impossible ELSE [n EXCEPT !.full.x = width]
         [] n.type = "row"        -> ConstrainRow(n, Widths(n, width, equal))
         [] n.type = "column"     -> ConstrainColumn(n, width)
         [] n.type = "button"     -> ButtonOf(n, width, Constrain(n.kids[1], width - (2 * Padding), FALSE))
         [] n.type = "action_region" -> RegionOf(n, Constrain(n.kids[1], width, FALSE))
         [] OTHER -> n

-----------------------------------------------------------------------------
(* Placing.  What is drawn, and what can be clicked, in the order of       *)
(* painting: its bounds and the part of them that shows.                   *)

Refused == <<Impossible>>
Holds(r, size) == \A a \in Axes : r.size[a] >= size[a]
Middle(r, height) == r.at.y + ((r.size.y - height) \div 2)
Drawn(n, bounds, clip) == [type |-> n.type, bounds |-> bounds, clip |-> clip]

PlaceLeaf(n, r, clip) ==
  LET wide == CASE n.type \in {"text_input", "rich_text"} -> r.size.x
                [] n.type = "progress" -> IF "x" \in n.grows THEN r.size.x ELSE n.full.x
                [] n.type = "text"     -> Min({n.full.x, r.size.x})
                [] OTHER               -> n.full.x
      left == IF n.type = "icon" THEN r.at.x + ((r.size.x - n.full.x) \div 2) ELSE r.at.x
      need == IF n.type = "rich_text" THEN Size(n.least.x, n.full.y) ELSE n.least
      bounds == Rect(left, Middle(r, n.full.y), wide, n.full.y)
      shows  == IF n.type \in {"text", "icon", "image"} THEN r ELSE bounds
  IN IF Spacer(n) THEN <<>>
     ELSE IF ~Holds(r, need) THEN Refused ELSE <<Drawn(n, bounds, Intersect(clip, shows))>>

(* place_container: the rectangle of each child, along the axis by its     *)
(* share, across it by the alignment.                                      *)
Across(n, axis, kid, across, uniform) ==
  IF Other(axis) \in kid.grows \/ uniform THEN across ELSE Min({Cross(kid, axis, "full"), across})
Assigned(n, axis, sizes, r, i, wide) ==
  LET spare  == r.size[Other(axis)] - wide
      aside  == CASE n.scene.alignment = "start"  -> 0
                  [] n.scene.alignment = "center" -> spare \div 2
                  [] OTHER                        -> spare
      before == Total(SubSeq(sizes, 1, i - 1)) + (n.scene.gap * (i - 1))
  IN [at   |-> [a \in Axes |-> r.at[a] + IF a = axis THEN before ELSE aside],
      size |-> [a \in Axes |-> IF a = axis THEN sizes[i] ELSE wide]]

RECURSIVE Place(_, _, _, _, _)
PlaceKid(n, axis, sizes, r, i, wide, clip, menu) ==
  IF Cross(n.kids[i], axis, "least") > wide THEN Refused
  ELSE Place(n.kids[i], Assigned(n, axis, sizes, r, i, wide), Intersect(clip, r), menu, FALSE)
PlaceKids(n, axis, shares, r, clip, menu, uniform) ==
  IF shares = Impossible THEN Refused
  ELSE FlattenSeq([i \in DOMAIN n.kids |->
         PlaceKid(n, axis, shares.sizes, r, i,
                  Across(n, axis, n.kids[i], r.size[Other(axis)], uniform), clip, menu)])
PlaceContainer(n, axis, r, clip, menu, uniform) ==
  LET shared == Shares(n, axis, r.size[axis])
  IN PlaceKids(n, axis, IF shared # Impossible /\ uniform THEN Equal(n, r.size[axis]) ELSE shared,
               r, clip, menu, uniform)

(* Of a button only the part its content needs is one, but in an action    *)
(* menu it is as high as what it was assigned.                             *)
Inside(bounds, kid) ==
  LET inner == [a \in Axes |-> bounds.size[a] - (2 * Padding)]
      fits  == [a \in Axes |-> Min({kid.full[a], inner[a]})]
  IN [at |-> [a \in Axes |-> bounds.at[a] + Padding + ((inner[a] - fits[a]) \div 2)], size |-> fits]
PlaceButton(n, bounds, clip, menu) ==
  IF ~Holds(bounds, n.least) THEN Refused
  ELSE <<Drawn(n, bounds, Intersect(clip, bounds))>>
         \o Place(n.kids[1], Inside(bounds, n.kids[1]), Intersect(clip, bounds), menu, FALSE)
ButtonBounds(n, r, menu) ==
  LET high == IF menu THEN r.size.y ELSE Min({n.full.y, r.size.y})
  IN Rect(r.at.x, Middle(r, high), Min({n.full.x, r.size.x}), high)

Place(n, r, clip, menu, equal) ==
  CASE n.type \in {"row", "column"} ->
         PlaceContainer(n, AxisOf(n.scene), r, clip, menu, equal /\ UniformButtons(n))
    [] n.type = "button" -> PlaceButton(n, ButtonBounds(n, r, menu), clip, menu)
    [] n.type = "action_region" ->
         IF ~Holds(r, n.least) THEN Refused
         ELSE <<Drawn(n, r, Intersect(clip, r))>> \o Place(n.kids[1], r, Intersect(clip, r), menu, FALSE)
    [] OTHER -> PlaceLeaf(n, r, clip)

-----------------------------------------------------------------------------
(* The view: a mode, a style or none, and the geometry the theme has for   *)
(* them.                                                                   *)

IsRing(scene) == scene.type = "progress" /\ scene.ring
RECURSIVE HasRing(_)
HasRing(scene) ==
  CASE scene.type \in {"row", "column"}           -> \E i \in DOMAIN scene.children : HasRing(scene.children[i])
    [] scene.type \in {"button", "action_region"} -> HasRing(scene.content)
    [] OTHER                                      -> IsRing(scene)
Leading(scene) == IF scene.type = "row" /\ scene.children # <<>> THEN scene.children[1] ELSE scene
HasCap(scene) == scene.type = "row" /\ Leading(scene).type = "image" /\ Leading(scene).cap

(* A compact view without a style is at least as high as a ring wants it.  *)
Plain(view) == view.mode = "compact" /\ view.style = ""
Geometry(scene, view, height) ==
  LET g == view.geometry
      extra == Max({0, RingHeight - height})
  IN IF ~(Plain(view) /\ HasRing(scene)) THEN g
     ELSE [g EXCEPT !.padding.y = Max({@, (extra + 1) \div 2}), !.least.y = Max({@, RingHeight}),
                    !.most.y = Max({@, RingHeight}), !.radius = RingHeight \div 2]

(* A leading image or ring is concentric with the rounded end of the view; *)
(* the image stands nowhere else.                                          *)
CapFits(scene, view, g) ==
  LET cap == Leading(scene)
  IN /\ view.mode = "compact" /\ g.least.y = g.most.y /\ 2 * g.radius = g.least.y
     /\ cap.width = cap.height /\ cap.height < g.least.y
LeadingInset(scene, view, g) ==
  CASE Plain(view) /\ IsRing(Leading(scene)) -> Max({0, g.radius - (Ring \div 2)})
    [] HasCap(scene)                         -> (g.least.y - Leading(scene).width) \div 2
    [] OTHER                                 -> g.padding.x

Clamp(value, g, axis) == Max({g.least[axis], Min({g.most[axis], value})})

(* layout_scene_impl: the view's size, the content's place, and what is    *)
(* drawn.                                                                  *)
Menu(view) == view.mode = "expanded" /\ view.style = "action-menu"
Finished(scene, g, content, size, placed) ==
  IF Contains(placed, Impossible) THEN Impossible
  ELSE [type |-> "plan", size |-> size, content |-> content, radius |-> Min({g.radius, Min({size.x, size.y}) \div 2}),
        drawn |-> [i \in DOMAIN placed |->
                     IF i = 1 /\ HasCap(scene) /\ placed[i].type = "image"
                     THEN [placed[i] EXCEPT !.clip = Rect(0, 0, size.x, size.y)] ELSE placed[i]]]
PlacedIn(scene, view, g, node, content, size) ==
  IF \E a \in Axes : content.size[a] <= 0 THEN Impossible
  ELSE Finished(scene, g, content, size, Place(node, content, content, Menu(view), Menu(view)))
Raised(scene, view, g, border, node, width, height) ==
  IF node.full.y > g.most.y - border.y THEN Impossible
  ELSE PlacedIn(scene, view, g, node,
                Rect(border.x - g.padding.x, g.padding.y, width - border.x, height - border.y), Size(width, height))
Narrowed(scene, view, g, border, width, node) ==
  IF node = Impossible THEN Impossible
  ELSE Raised(scene, view, g, border, node, width, Clamp(node.full.y + border.y, g, "y"))
Bordered(scene, view, measured, g, border) ==
  LET width == Clamp(measured.full.x + border.x, g, "x")
      most  == [a \in Axes |-> g.most[a] - border[a]]
  IN IF (HasCap(scene) /\ ~CapFits(scene, view, g)) \/ \E a \in Axes : most[a] <= 0 \/ most[a] < measured.least[a]
     THEN Impossible
     ELSE Narrowed(scene, view, g, border, width, Constrain(measured, width - border.x, Menu(view)))
Sized(scene, view, measured, g) ==
  Bordered(scene, view, measured, g, Size(LeadingInset(scene, view, g) + g.padding.x, 2 * g.padding.y))
Planned(scene, view, measured) == Sized(scene, view, measured, Geometry(scene, view, measured.full.y))
Plan(scene, view) == Planned(scene, view, Measure(scene))
=============================================================================
