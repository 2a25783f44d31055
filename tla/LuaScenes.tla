----------------------------- MODULE LuaScenes ------------------------------
(***************************************************************************)
(* What the Lua host lets a module send: the conversion of Lua values      *)
(* (lua_value.cpp) and the validation of scenes and publications           *)
(* (lua_scene.cpp) before they go to the core, and the protocol the host   *)
(* selects (lua_host.cpp).                                                 *)
(***************************************************************************)
EXTENDS Trees

CONSTANTS
  MaxValueDepth, MaxValueItems,    \* LuaValueLimits: max_depth, max_items
  MaxPublished                     \* maximum_resources

MaxText       == 4096
MaxIdentifier == 128
MaxBase64     == 5592408
MaxDimension  == 512

-----------------------------------------------------------------------------
(* Lua values: a table has integer keys and string keys, and may be marked  *)
(* as an array; null is a light userdata.                                   *)

Table(array, object, marked) ==
  [t |-> "table", v |-> [array |-> array, object |-> object, marked |-> marked]]
LuaNull == [t |-> "sentinel", v |-> "null"]
Nil     == [t |-> "nil", v |-> "nil"]

(* mark_lua_table_as_array: an empty JSON array becomes a marked table.     *)
Pushed(x, s) == Table(s, <<>>, s = <<>>)

(* push_json_to_lua.                                                        *)
RECURSIVE ToLua(_, _)
ToLua(x, nested) ==
  CASE x.t = "null"   -> IF nested THEN LuaNull ELSE Nil
    [] x.t = "array"  -> Pushed(x, [i \in 1..Len(x.v) |-> ToLua(x.v[i], TRUE)])
    [] x.t = "object" -> Table(<<>>, [f \in DOMAIN x.v |-> ToLua(x.v[f], TRUE)], FALSE)
    [] OTHER          -> x

(* convert_lua_value: the faults of a value, and what it converts to.  An   *)
(* array's keys must run from 1 without a hole; an empty table is an object *)
(* unless it is marked.  A table that contains itself has the tag cycle.    *)
RECURSIVE ValueFaults(_, _), Entries(_), ToJson(_)
Entries(x) ==
  IF x.t # "table" THEN 0
  ELSE LET a == x.v.array  o == x.v.object
       IN Cardinality(DOMAIN a) + Cardinality(DOMAIN o)
            + FoldFunction(+, 0, [i \in DOMAIN a |-> Entries(a[i])])
            + FoldFunction(+, 0, [f \in DOMAIN o |-> Entries(o[f])])
ValueFaults(x, depth) ==
  CASE x.t \in {"function", "cycle", "infinite"} -> {x.t}
    [] x.t # "table" -> {}
    [] OTHER ->
         LET a == x.v.array  o == x.v.object
         IN When(depth >= MaxValueDepth, "deep")
              \cup When(DOMAIN a # {} /\ DOMAIN o # {}, "mixed")
              \cup When(DOMAIN a # 1..Cardinality(DOMAIN a), "sparse")
              \cup UNION {ValueFaults(a[i], depth + 1) : i \in DOMAIN a}
              \cup UNION {ValueFaults(o[f], depth + 1) : f \in DOMAIN o}
ToJson(x) ==
  CASE x.t \in {"nil", "sentinel"} -> Null
    [] x.t # "table"               -> x
    [] DOMAIN x.v.array # {}       -> Arr([i \in DOMAIN x.v.array |-> ToJson(x.v.array[i])])
    [] DOMAIN x.v.object # {}      -> Obj([f \in DOMAIN x.v.object |-> ToJson(x.v.object[f])])
    [] OTHER                       -> IF x.v.marked THEN Arr(<<>>) ELSE Obj(<<>>)
LuaFaults(x) == ValueFaults(x, 0) \cup When(Entries(x) > MaxValueItems, "items")

(* container_object: ui.row and ui.column take their children by position   *)
(* or by name, never both.                                                  *)
ContainerFaults(x) ==
  LET a == x.v.array  o == x.v.object
  IN Unknown([t |-> "object", v |-> o], {"alignment", "gap", "children"})
       \cup When(DOMAIN a # {} /\ "children" \in DOMAIN o, "mixed")
       \cup When(DOMAIN a # 1..Cardinality(DOMAIN a), "sparse")
       \cup UNION {LuaFaults(a[i]) : i \in DOMAIN a} \cup UNION {LuaFaults(o[f]) : f \in DOMAIN o}
Container(x, type) ==
  LET named == [f \in DOMAIN x.v.object |-> ToJson(x.v.object[f])]
      placed == "children" :> Arr([i \in DOMAIN x.v.array |-> ToJson(x.v.array[i])])
  IN Obj(("type" :> type) @@ named @@ placed)

-----------------------------------------------------------------------------
(* Scenes: each node's fields are known, and each string has its limit.     *)

Text(x, f, limit) ==
  IF ~Has(x, f) THEN {} ELSE IF ~IsString(x.v[f]) THEN {"type"} ELSE When(x.v[f].n > limit, "long")
Required(x, fields, limit) ==
  UNION {When(~Has(x, f), "missing") \cup Text(x, f, limit) : f \in fields}
Optional(x, fields, limit) == UNION {Text(x, f, limit) : f \in fields}
Filled(x, fields) == When(\E f \in fields : Has(x, f) /\ IsString(x.v[f]) /\ x.v[f].n = 0, "empty")
Flags(x, fields) == When(\E f \in fields : Has(x, f) /\ x.v[f].t # "boolean", "type")
Known(x, fields) == Unknown(x, fields \cup {"type"})

Names(x, field, names) ==
  IF ~Has(x, field) THEN {}
  ELSE IF x.v[field].t # "array" THEN {"type"}
  ELSE LET s == x.v[field].v
       IN UNION {When(~OneOf(s[i], names), "name") : i \in 1..Len(s)}
Emphasis(x) == Names(x, "emphasis", {"bold", "italic", "underline"})

RichItem(x) ==
  CASE ~IsNode(x, {"text", "link", "inline_image"}) -> {"name"}
    [] IsNode(x, {"text"}) ->
         Known(x, {"value", "emphasis"}) \cup Required(x, {"value"}, MaxText) \cup Emphasis(x)
    [] IsNode(x, {"link"}) ->
         Known(x, {"value", "emphasis", "action_id", "accessible_label"})
           \cup Required(x, {"value", "accessible_label"}, MaxText)
           \cup Required(x, {"action_id"}, MaxIdentifier) \cup Filled(x, {"action_id"})
           \cup Emphasis(x)
    [] OTHER ->
         Known(x, {"resource_id", "role", "accessible_label"})
           \cup Required(x, {"resource_id", "role"}, MaxIdentifier)
           \cup Required(x, {"accessible_label"}, MaxText)

RichText(x) ==
  Known(x, {"role", "content"}) \cup Required(x, {"role"}, MaxIdentifier)
    \cup IF ~Has(x, "content") \/ x.v["content"].t # "array" THEN {"type"}
         ELSE UNION {RichItem(x.v["content"].v[i]) : i \in 1..Len(x.v["content"].v)}

Fraction(x, field) ==
  IF ~Has(x, field) THEN {} ELSE IF ~IsNumber(x.v[field]) THEN {"type"}
  ELSE When(Thousandths(x.v[field]) \notin 0..1000, "range")
Progress(x) ==
  Known(x, {"value", "label", "state", "shape", "transition_from"})
    \cup When(~Has(x, "value"), "missing") \cup Fraction(x, "value") \cup Fraction(x, "transition_from")
    \cup Optional(x, {"label"}, MaxText) \cup Optional(x, {"state", "shape"}, MaxIdentifier)
    \cup When(Has(x, "shape") /\ ~OneOf(x.v["shape"], {"linear", "ring"}), "name")

Unrepeated(s) == \A i, j \in 1..Len(s) : i < j => ~(s[i].t = s[j].t /\ s[i].v = s[j].v)
Indicator(x) ==
  LET names == Names(x, "effects", {"shadow", "glow", "breathe"})
  IN Known(x, {"state", "accessible_label", "effects"}) \cup names
       \cup Required(x, {"state"}, MaxIdentifier) \cup Required(x, {"accessible_label"}, MaxText)
       \cup When(names = {} /\ Has(x, "effects") /\ ~Unrepeated(x.v["effects"].v), "name")

\* mutant: any children will do
Row_Any(x) == Known(x, {"children", "alignment", "gap"})
Row(x) ==
  Known(x, {"children", "alignment", "gap"}) \cup Optional(x, {"alignment", "gap"}, MaxIdentifier)
    \cup When(~Has(x, "children") \/ x.v["children"].t # "array", "type")

TextInput(x) ==
  Known(x, {"input_id", "action_id", "submit_action_id", "navigation_action_id", "initial_value",
            "placeholder", "accessible_label"})
    \cup Required(x, {"input_id", "action_id"}, MaxIdentifier) \cup Filled(x, {"input_id", "action_id"})
    \cup Optional(x, {"submit_action_id", "navigation_action_id"}, MaxIdentifier)
    \cup Optional(x, {"initial_value", "placeholder", "accessible_label"}, MaxText)

Button(x) ==
  Known(x, {"content", "action_id", "enabled", "accessible_label", "close_on_activate"})
    \cup Required(x, {"action_id"}, MaxIdentifier) \cup Filled(x, {"action_id"})
    \cup Required(x, {"accessible_label"}, MaxText) \cup Flags(x, {"enabled", "close_on_activate"})
    \cup When(~Has(x, "content"), "missing")

CheckNode(x) ==
  CASE ~(x.t = "object" /\ Has(x, "type")) -> {"missing"}
    [] IsNode(x, {"text"}) ->
         Known(x, {"value", "role", "truncation"}) \cup Required(x, {"value"}, MaxText)
           \cup Required(x, {"role"}, MaxIdentifier) \cup Optional(x, {"truncation"}, MaxIdentifier)
    [] IsNode(x, {"icon"}) ->
         Known(x, {"name", "accessible_label", "role"}) \cup Required(x, {"name"}, MaxIdentifier)
           \cup Required(x, {"accessible_label"}, MaxText) \cup Optional(x, {"role"}, MaxIdentifier)
    [] IsNode(x, {"image"}) ->
         Known(x, {"resource_id", "role", "accessible_label"})
           \cup Required(x, {"resource_id", "role"}, MaxIdentifier)
           \cup Required(x, {"accessible_label"}, MaxText)
    [] IsNode(x, {"rich_text"}) -> RichText(x)
    [] IsNode(x, {"row", "column"}) -> Row(x)
    [] IsNode(x, {"spacer"}) ->
         Known(x, {"flexible", "size_token"}) \cup Flags(x, {"flexible"})
           \cup Optional(x, {"size_token"}, MaxIdentifier)
    [] IsNode(x, {"progress"}) -> Progress(x)
    [] IsNode(x, {"indicator"}) -> Indicator(x)
    [] IsNode(x, {"text_input"}) -> TextInput(x)
    [] IsNode(x, {"button", "action_region"}) -> Button(x)
    [] OTHER -> {"name"}

CheckScene(x) == Faults(x, CheckNode)

-----------------------------------------------------------------------------
(* Publications.                                                            *)

CheckResource(r) ==
  IF r.t # "object" THEN {"type"}
  ELSE Unknown(r, {"id", "format", "width", "height", "data"})
         \cup Required(r, {"id", "format"}, MaxIdentifier) \cup Filled(r, {"id"})
         \cup When(Has(r, "format") /\ ~OneOf(r.v["format"], {"rgba8"}), "name")
         \cup UNION {IF ~Has(r, f) \/ r.v[f].t # "integer" THEN {"type"}
                     ELSE When(r.v[f].v \notin 1..MaxDimension, "range") : f \in {"width", "height"}}
         \cup Required(r, {"data"}, MaxBase64)

CheckTransitions(p, views) ==
  IF ~Has(p, "transitions") THEN {}
  ELSE LET x == p.v["transitions"]
       IN IF x.t # "object" THEN {"type"}
          ELSE Unknown(x, {"compact", "expanded"}) \cup When(DOMAIN x.v = {}, "missing")
                 \cup When(~DOMAIN x.v \subseteq views, "view")
                 \cup When(\E f \in DOMAIN x.v :
                             ~OneOf(x.v[f], {"crossfade", "slide-left", "slide-right"}), "name")

CheckPresentation(p, views) ==
  IF ~Has(p, "presentation") THEN {}
  ELSE LET x == p.v["presentation"]
       IN IF x.t # "object" THEN {"type"}
          ELSE Unknown(x, {"reveal", "duration_ms", "compact_style", "expanded_style",
                           "escape_action_id"})
                 \cup Optional(x, {"reveal", "compact_style", "expanded_style", "escape_action_id"},
                               MaxIdentifier)
                 \cup Filled(x, {"escape_action_id"})
                 \cup When(Has(x, "escape_action_id") /\ "expanded" \notin views, "view")
                 \cup IF ~Has(x, "duration_ms") THEN {}
                      ELSE IF x.v["duration_ms"].t # "integer" THEN {"type"}
                      ELSE When(x.v["duration_ms"].v \notin 1..60000, "range")

(* validate_publication.  The priority must fit an int of 32 bits.          *)
Whole(p, field) == When(Has(p, field) /\ p.v[field].t # "integer", "type")
Wide(p, field, low) ==
  When(Has(p, field) /\ p.v[field].t = "integer" /\ p.v[field].v < low, "range")
CheckPublication(p) ==
  LET known == Unknown(p, {"context_id", "priority", "expires_in_ms", "views", "resources",
                           "presentation", "transitions", "activation_only"})
      scenes == IF Has(p, "views") /\ p.v["views"].t = "object" THEN p.v["views"].v ELSE <<>>
      views == DOMAIN scenes \cap {"compact", "expanded"}
  IN known \cup Required(p, {"context_id"}, MaxIdentifier) \cup Filled(p, {"context_id"})
       \cup When(~Has(p, "priority"), "missing") \cup Whole(p, "priority") \cup Whole(p, "expires_in_ms")
       \cup Wide(p, "expires_in_ms", 0) \cup Flags(p, {"activation_only"})
       \cup When(~Has(p, "views") \/ DOMAIN scenes = {}, "missing")
       \cup When(views # DOMAIN scenes, "unknown")
       \cup UNION {CheckScene(scenes[f]) : f \in views}
       \cup CheckTransitions(p, views)
       \cup (IF ~Has(p, "resources") THEN {}
             ELSE IF p.v["resources"].t # "array" THEN {"type"}
             ELSE When(Len(p.v["resources"].v) > MaxPublished, "resources")
                    \cup UNION {CheckResource(p.v["resources"].v[i]) :
                                  i \in 1..Len(p.v["resources"].v)})
       \cup CheckPresentation(p, views)

(* LuaSceneApi::publish adds the type, dismiss and log build their record.  *)
Published(p) == Obj(("type" :> Str("publish", 7)) @@ p.v)
DismissFaults(x) == IF ~IsString(x) THEN {"type"} ELSE When(x.n \notin 1..MaxIdentifier, "long")
Dismissed(x) == Obj(("type" :> Str("dismiss", 7)) @@ ("context_id" :> x))
LogFaults(level, message) ==
  When(~IsString(level) \/ ~IsString(message), "type")
    \cup When(~OneOf(level, {"debug", "info", "warning", "error"}), "name")
    \cup When(IsString(message) /\ message.n > MaxText, "long")
Logged(level, message) ==
  Obj(("type" :> Str("log", 3)) @@ ("level" :> level) @@ ("message" :> message))
=============================================================================
