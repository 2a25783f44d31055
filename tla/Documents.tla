----------------------------- MODULE Documents ------------------------------
(***************************************************************************)
(* The records of Lua modules between the host that checks them and the    *)
(* core that parses them: families of inputs, each one a good record with  *)
(* one thing changed, and what the two sides make of them.                 *)
(***************************************************************************)
EXTENDS Values

CONSTANTS MaxDepth, MaxNodes, MaxItems, MaxLinks, MaxResources,
          MaxValueDepth, MaxValueItems

Core == INSTANCE Protocol
Host == INSTANCE LuaScenes WITH MaxPublished <- MaxResources
Usages == INSTANCE Usage
Text == INSTANCE Base64

S(v) == Str(v, 4)
Node(type, fields) == Obj(("type" :> S(type)) @@ fields)

-----------------------------------------------------------------------------
(* Good nodes, and what may be changed in a field.                         *)

Label == Node("text", [value |-> S("text"), role |-> S("body")])
Items == <<Node("text", [value |-> S("text"), emphasis |-> Arr(<<S("bold")>>)]),
           Node("link", [value |-> S("text"), action_id |-> S("go"), accessible_label |-> S("go")]),
           Node("inline_image", [resource_id |-> S("i"), role |-> S("r"), accessible_label |-> S("i")])>>

Good(type) ==
  Node(type,
    CASE type = "text"  -> [value |-> S("text"), role |-> S("body"), truncation |-> S("end")]
      [] type = "icon"  -> [name |-> S("bell"), accessible_label |-> S("bell"), role |-> S("body")]
      [] type = "image" -> [resource_id |-> S("i"), role |-> S("r"), accessible_label |-> S("i")]
      [] type = "rich_text" -> [role |-> S("body"), content |-> Arr(SubSeq(Items, 1, 2))]
      [] type \in {"row", "column"} ->
           [children |-> Arr(<<Label>>), alignment |-> S("center"), gap |-> S("small")]
      [] type = "spacer" -> [flexible |-> Bool(TRUE), size_token |-> S("small")]
      [] type = "progress" ->
           [value |-> Float(500), label |-> S("half"), state |-> S("normal"), shape |-> S("ring"),
            transition_from |-> Integer(0)]
      [] type = "indicator" ->
           [state |-> S("on"), accessible_label |-> S("on"), effects |-> Arr(<<S("glow")>>)]
      [] type = "text_input" ->
           [input_id |-> S("q"), action_id |-> S("go"), submit_action_id |-> S("go"),
            navigation_action_id |-> S("go"), initial_value |-> S("x"), placeholder |-> S("x"),
            accessible_label |-> S("x")]
      [] OTHER ->
           [content |-> Label, action_id |-> S("go"), enabled |-> Bool(TRUE),
            accessible_label |-> S("go"), close_on_activate |-> Bool(FALSE)])

Types == {"text", "icon", "image", "rich_text", "row", "column", "spacer", "progress", "indicator",
          "text_input", "button", "action_region"}
Changes == {"keep", "drop", "string", "whole", "flag", "over", "list", "twice", "empty", "long",
            "input", "huge", "item", "items", "image", "null"}

Changed(x, change) ==
  CASE change = "string" -> S("other")
    [] change = "whole"  -> Integer(1)
    [] change = "flag"   -> Bool(TRUE)
    [] change = "over"   -> Float(1001)
    [] change = "list"   -> Arr(<<>>)
    [] change = "twice"  -> IF x.t = "array" THEN Arr(x.v \o x.v) ELSE Arr(<<S("bold"), S("bold")>>)
    [] change = "empty"  -> Str("", 0)
    [] change = "long"   -> Str("other", 129)
    [] change = "input"  -> Str("other", 1025)
    [] change = "huge"   -> Str("other", 4097)
    [] change = "item"   -> Arr(<<Integer(1)>>)
    [] change = "items"  -> Arr(Items)
    [] change = "image"  -> Arr(<<Good("image")>>)
    [] change = "null"   -> Null
    [] OTHER             -> x

With(x, field, change) ==
  IF change = "drop" THEN Obj(Restrict(x.v, DOMAIN x.v \ {field}))
  ELSE IF field \in DOMAIN x.v THEN Obj([x.v EXCEPT ![field] = Changed(@, change)])
  ELSE Obj(x.v @@ (field :> Changed(S("text"), change)))

(* Where the node stands in the scene.                                     *)
Placed(x, place) ==
  CASE place = "root"   -> x
    [] place = "row"    -> Node("row", [children |-> Arr(<<x, Label>>)])
    [] place = "pair"   -> Node("column", [children |-> Arr(<<x, x>>)])
    [] place = "button" ->
         Node("button", [content |-> x, action_id |-> S("go"), accessible_label |-> S("go")])
    [] OTHER ->
         Node("row", [children |-> Arr(<<Node("row", [children |-> Arr(<<x>>)])>>)])

SceneInputs ==
  UNION {{[type |-> t, field |-> f, change |-> c, place |-> p] :
            f \in DOMAIN Good(t).v \cup {"other"}, c \in Changes,
            p \in {"root", "row", "pair", "button", "deep"}} : t \in Types}

SceneOf(i) == Placed(With(Good(i.type), i.field, i.change), i.place)
Publication(scenes) ==
  Obj([context_id |-> S("c"), priority |-> Integer(0), views |-> Obj(scenes)])

-----------------------------------------------------------------------------
(* Publications.                                                           *)

Resource(size) ==
  Obj([id |-> S("i"), format |-> S("rgba8"), width |-> Integer(size), height |-> Integer(size),
       data |-> Str("base64==", 4 * (((4 * size * size) + 2) \div 3))])
Presentation ==
  Obj([reveal |-> S("expanded"), duration_ms |-> Integer(1000), compact_style |-> S("wide"),
       expanded_style |-> S("menu"), escape_action_id |-> S("back")])
Whole ==
  Obj([context_id |-> S("c"), priority |-> Integer(0), expires_in_ms |-> Integer(0),
       activation_only |-> Bool(FALSE), views |-> Obj([compact |-> Label, expanded |-> Good("image")]),
       resources |-> Arr(<<Resource(1)>>),
       transitions |-> Obj([compact |-> S("crossfade"), expanded |-> S("slide-left")]),
       presentation |-> Presentation])

(* A change of a field of the publication, or of a field of one of its     *)
(* parts; any of the optional parts may be left out.                       *)
Parts == {"publication", "views", "transitions", "presentation", "resource", "resources"}
PartFields(part) ==
  CASE part = "publication"  -> DOMAIN Whole.v \cup {"compact", "other"}
    [] part = "views"        -> {"compact", "expanded", "other"}
    [] part = "transitions"  -> {"compact", "expanded", "other"}
    [] part = "presentation" -> DOMAIN Presentation.v \cup {"other"}
    [] part = "resource"     -> DOMAIN Resource(1).v \cup {"other"}
    [] OTHER                 -> {"twice", "big"}
PublicationInputs ==
  UNION {{[part |-> part, field |-> f, change |-> c, without |-> w] :
            f \in PartFields(part), c \in Changes,
            w \in {"none", "views", "resources", "transitions", "presentation", "compact", "expanded"}} :
         part \in Parts}

Without(p, part) ==
  IF part \in {"compact", "expanded"} /\ Has(p, "views") /\ p.v["views"].t = "object"
  THEN Obj([p.v EXCEPT !["views"] = Obj(Restrict(p.v["views"].v, DOMAIN p.v["views"].v \ {part}))])
  ELSE Obj(Restrict(p.v, DOMAIN p.v \ {part}))
PublicationOf(i) ==
  LET r == Whole.v["resources"].v[1]
  IN Without(
       CASE i.part = "publication" -> With(Whole, i.field, i.change)
         [] i.part \in {"views", "transitions", "presentation"} ->
              Obj([Whole.v EXCEPT ![i.part] = With(@, i.field, i.change)])
         [] i.part = "resource" ->
              Obj([Whole.v EXCEPT !["resources"] = Arr(<<With(r, i.field, i.change)>>)])
         [] i.field = "twice" -> Obj([Whole.v EXCEPT !["resources"] = Arr(<<r, r>>)])
         [] OTHER -> Obj([Whole.v EXCEPT !["resources"] =
                            Arr(<<r>> \o [k \in 1..5 |-> With(Resource(512), "id", "keep")])]),
       i.without)

-----------------------------------------------------------------------------
(* What the core may still find wrong in a publication the host let        *)
(* through: the limits of a whole scene, what must be unique, what refers  *)
(* to something else, and the presentation.                                *)
OfTheWhole == {"deep", "nodes", "duplicate", "emphasis", "reference", "bytes", "resources"}
OfThePresentation == {"reveal", "view", "duration", "presentation"}

(* And three rules of text_input the host does not know.                   *)
InputFaults(p) ==
  LET nodes(x) == Core!Faults(x, LAMBDA y :
        IF ~IsNode(y, {"text_input"}) THEN {}
        ELSE When(~Has(y, "accessible_label"), "missing")
               \cup When(Core!Size(y, "initial_value") > Core!MaxInput, "text")
               \cup When(\E f \in {"submit_action_id", "navigation_action_id"} :
                           Has(y, f) /\ Core!Size(y, f) = 0, "action"))
  IN UNION {nodes(p.v["views"].v[f]) : f \in DOMAIN p.v["views"].v}

HostAndCoreAgree(p) ==
  Host!CheckPublication(p) = {} =>
    Core!ParseRecord(Host!Published(p))
      \subseteq OfTheWhole \cup OfThePresentation \cup InputFaults(p)

(* What a constructor validated is what is published.                      *)
Survives(x) ==
  LET lua == Host!ToLua(x, TRUE)
  IN Host!LuaFaults(lua) \subseteq {"deep", "items"} /\ Host!ToJson(lua) = x

(* ui.row and ui.column: children by position or by name are the same.     *)
ByName(x) == Host!Table(<<>>, [f \in DOMAIN x.v \ {"type"} |-> Host!ToLua(x.v[f], TRUE)], FALSE)
ByPosition(x) ==
  Host!Table([i \in 1..Len(x.v["children"].v) |-> Host!ToLua(x.v["children"].v[i], TRUE)],
             [f \in DOMAIN x.v \ {"type", "children"} |-> Host!ToLua(x.v[f], TRUE)], FALSE)
ContainersAgree(x) ==
  IsNode(x, {"row", "column"}) /\ Has(x, "children") /\ x.v["children"].t = "array" =>
    /\ Host!ContainerFaults(ByPosition(x)) = Host!ContainerFaults(ByName(x))
    /\ \A lua \in {ByPosition(x), ByName(x)} :
         Host!ContainerFaults(lua) = {} => Host!Container(lua, x.v["type"]) = x

(* gisland.dismiss and gisland.log.                                        *)
CallInputs ==
  [context : {Null, Str("", 0), S("c"), Str("other", 128), Str("other", 129)}]
    \cup [level : {S("info"), S("error"), S("other"), Null},
          message : {Null, Str("", 0), S("text"), Str("other", 4096), Str("other", 4097)}]
CallsAgree(i) ==
  IF "context" \in DOMAIN i
  THEN Host!DismissFaults(i.context) = {} => Core!ParseRecord(Host!Dismissed(i.context)) = {}
  ELSE Host!LogFaults(i.level, i.message) = {} => Core!ParseRecord(Host!Logged(i.level, i.message)) = {}

Values ==
  <<Null, Arr(<<>>), Obj(<<>>), Arr(<<Null>>), Arr(<<Arr(<<>>), Obj(<<>>)>>),
    Obj([a |-> Arr(<<>>), b |-> Obj(<<>>), c |-> Null]), Arr(<<Integer(1), Float(1), Bool(FALSE)>>)>>
ValueInputs == [kind : {"value"}, index : 1..Len(Values)] \cup [kind : {"scene"}, type : Types]
ValueOf(i) == IF i.kind = "value" THEN Values[i.index] ELSE Placed(Good(i.type), "row")

-----------------------------------------------------------------------------
(* Negotiation.                                                            *)

(* What the records of the publications use that the core takes.           *)
UsageOf(r) == [used |-> Usages!Used(r), activation_only |-> Usages!ActivationOnly(r)]
UsageInputs ==
  {UsageOf(Host!Published(PublicationOf(i))) :
     i \in {j \in PublicationInputs : Core!ParseRecord(Host!Published(PublicationOf(j))) = {}}}

RangeInputs == [low : -1..13, high : -1..13, view : BOOLEAN]

(* Base64.                                                                 *)
ByteInputs == UNION {[1..k -> {0, 1, 63, 64, 254, 255}] : k \in 0..4}
SymbolInputs ==
  [1..4 -> {0, 1, 4, 16, 63, Text!Pad, Text!Bad}]
    \cup {<<1, 2, 3>> \o <<c>> \o s : c \in {4, Text!Pad}, s \in [1..4 -> {0, 1, 16, Text!Pad}]}
=============================================================================
