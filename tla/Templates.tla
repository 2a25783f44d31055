----------------------------- MODULE Templates ------------------------------
(***************************************************************************)
(* Declarative views: the templates of a configuration or of a package     *)
(* (config.cpp), and the scenes they give for a data snapshot              *)
(* (scene_template.cpp).  A field of a template is a literal or a table    *)
(* with one binding; a child may repeat a template over an array.          *)
(***************************************************************************)
EXTENDS Trees

CONSTANTS MaxDepth, MaxNodes, MaxItems, MaxLinks, MaxResources

Scene == INSTANCE Protocol

(* A dotted string and its segments; any other string is one segment.      *)
Path(s) == [t |-> "string", v |-> "path", n |-> Len(s), s |-> s]
Segments(x) == IF "s" \in DOMAIN x THEN x.s ELSE IF x.n = 0 THEN <<"">> ELSE <<x.v>>
ValidPath(x) == IsString(x) /\ \A i \in 1..Len(Segments(x)) : Segments(x)[i] # ""

-----------------------------------------------------------------------------
(* Parsing.  What each type of node asks for: fields that may be bound,    *)
(* with the type of their value, and plain strings.                        *)

NodeTypes == {"text", "icon", "spacer", "progress", "indicator", "text_input", "row", "column",
              "button", "action_region"}
Required(type) ==
  CASE type = "text"      -> [value |-> "string", role |-> "string"]
    [] type = "icon"      -> [name |-> "string"]
    [] type = "progress"  -> [value |-> "number"]
    [] type = "indicator" -> [state |-> "string", accessible_label |-> "string"]
    [] OTHER              -> <<>>

(* The others and their defaults.                                          *)
Default(type) ==
  CASE type = "text"       -> [truncation |-> Str("end", 3)]
    [] type = "icon"       -> [accessible_label |-> Str("", 0)]
    [] type = "spacer"     -> [flexible |-> Bool(TRUE), size_token |-> Str("", 0)]
    [] type = "progress"   ->
         [label |-> Str("", 0), state |-> Str("", 0), shape |-> Str("linear", 6)]
    [] type = "text_input" ->
         [initial_value |-> Str("", 0), placeholder |-> Str("", 0), accessible_label |-> Str("", 0)]
    [] type \in {"row", "column"} -> [alignment |-> Str("center", 6), gap |-> Str("normal", 6)]
    [] type \in {"button", "action_region"} ->
         [enabled |-> Bool(TRUE), accessible_label |-> Str("", 0), close_on_activate |-> Bool(FALSE)]
    [] OTHER               -> <<>>
KindOf(type, f) == IF f \in DOMAIN Required(type) THEN Required(type)[f] ELSE Default(type)[f].t
Bindable(type) == DOMAIN Required(type) \cup DOMAIN Default(type)

Plain(type) ==
  CASE type = "text_input" -> {"input_id", "action_id"}
    [] type \in {"button", "action_region"} -> {"action_id"}
    [] OTHER -> {}
PlainOptional(type) ==
  IF type = "text_input" THEN {"submit_action_id", "navigation_action_id"} ELSE {}
Inside(type) ==
  CASE type \in {"row", "column"} -> {"children"}
    [] type \in {"button", "action_region"} -> {"content"}
    [] OTHER -> {}

(* parse_template_value.                                                   *)
ValueFaults(x, kind) ==
  IF x.t = "object"
  THEN When(DOMAIN x.v # {"bind"} \/ ~ValidPath(x.v["bind"]), "binding")
  ELSE When(~Fits(x, kind), "type")

(* required_non_empty_string.                                              *)
StringFaults(x, f) ==
  IF ~Has(x, f) THEN {"missing"}
  ELSE IF ~IsString(x.v[f]) THEN {"type"} ELSE When(x.v[f].n = 0, "empty")

(* parse_scene_template and parse_template_children.                       *)
RECURSIVE TemplateFaults(_), ChildFaults(_)
ChildFaults(c) ==
  IF c.t # "object" THEN {"type"}
  ELSE IF ~Has(c, "repeat") THEN TemplateFaults(c)
  ELSE Unknown(c, {"repeat", "as", "template"})
         \cup StringFaults(c, "repeat") \cup StringFaults(c, "as")
         \cup When(IsString(c.v["repeat"]) /\ ~ValidPath(c.v["repeat"]), "binding")
         \cup When(Has(c, "as") /\ IsString(c.v["as"]) /\ Len(Segments(c.v["as"])) > 1, "alias")
         \cup IF ~Has(c, "template") \/ c.v["template"].t # "object" THEN {"type"}
              ELSE TemplateFaults(c.v["template"])
TemplateFaults(x) ==
  IF Has(x, "repeat") THEN {"repeat"}
  ELSE IF StringFaults(x, "type") # {} THEN StringFaults(x, "type")
  ELSE IF x.v["type"].v \notin NodeTypes THEN {"name"}
  ELSE LET type  == x.v["type"].v
           inner == IF Has(x, "children") /\ x.v["children"].t = "array" THEN x.v["children"].v ELSE <<>>
           named == {i \in 1..Len(inner) : Has(inner[i], "repeat") /\ StringFaults(inner[i], "as") = {}}
       IN Unknown(x, {"type"} \cup Bindable(type) \cup Plain(type) \cup PlainOptional(type) \cup Inside(type))
            \cup When(~DOMAIN Required(type) \subseteq DOMAIN x.v, "missing")
            \cup UNION {ValueFaults(x.v[f], KindOf(type, f)) : f \in Bindable(type) \cap DOMAIN x.v}
            \cup UNION {StringFaults(x, f) : f \in Plain(type) \cup (PlainOptional(type) \cap DOMAIN x.v)}
            \cup IF "children" \in Inside(type)
                 THEN When(~Has(x, "children") \/ x.v["children"].t # "array", "type")
                        \cup UNION {ChildFaults(inner[i]) : i \in 1..Len(inner)}
                        \cup When(\E i, j \in named :
                                    i < j /\ Segments(inner[i].v["as"]) = Segments(inner[j].v["as"]), "alias")
                 ELSE IF "content" \in Inside(type)
                 THEN IF ~Has(x, "content") \/ x.v["content"].t # "object" THEN {"type"}
                      ELSE TemplateFaults(x.v["content"])
                 ELSE {}

(* parse_view_table.                                                       *)
ViewFaults(x) ==
  IF x.t # "object" THEN {"type"}
  ELSE Unknown(x, {"compact", "expanded"}) \cup When(DOMAIN x.v \cap {"compact", "expanded"} = {}, "missing")
         \cup UNION {IF x.v[slot].t # "object" THEN {"type"} ELSE TemplateFaults(x.v[slot]) :
                       slot \in DOMAIN x.v \cap {"compact", "expanded"}}

-----------------------------------------------------------------------------
(* Instantiating.  A value that cannot be had is one of these; scopes are  *)
(* the aliases around a node, from the outside in, each with its item.     *)
NoData    == [t |-> "no data", v |-> ""]
WrongData == [t |-> "wrong data", v |-> ""]
Mismatch  == [t |-> "not repeatable", v |-> ""]

RECURSIVE Descend(_, _)
Descend(x, path) ==
  IF path = <<>> THEN x
  ELSE IF x.t # "object" THEN WrongData
  ELSE IF path[1] \notin DOMAIN x.v THEN NoData
  ELSE Descend(x.v[path[1]], Tail(path))

(* resolve_binding: the innermost alias of that name, or the snapshot.     *)
\* mutant: the outermost alias
Lookup_Outermost(path, scopes, data) ==
  LET named == {i \in 1..Len(scopes) : scopes[i].alias = path[1]}
  IN IF named = {} THEN Descend(data, path) ELSE Descend(scopes[Min(named)].item, Tail(path))
Lookup(path, scopes, data) ==
  LET named == {i \in 1..Len(scopes) : scopes[i].alias = path[1]}
  IN IF named = {} THEN Descend(data, path) ELSE Descend(scopes[Max(named)].item, Tail(path))

(* resolve_value.                                                          *)
Resolved(x, kind, scopes, data) ==
  IF x.t # "object" THEN x
  ELSE LET v == Lookup(Segments(x.v["bind"]), scopes, data)
       IN IF v.t \in {"no data", "wrong data"} \/ Fits(v, kind) THEN v ELSE WrongData

(* instantiate and instantiate_children.                                   *)
RECURSIVE Instance(_, _, _)
Repeated(c, scopes, data) ==
  LET items == Lookup(Segments(c.v["repeat"]), scopes, data)
      item(i) == [alias |-> Segments(c.v["as"])[1], item |-> items.v[i]]
  IN IF items.t \in {"no data", "wrong data"} THEN <<items>>
     ELSE IF items.t # "array" THEN <<Mismatch>>
     ELSE [i \in 1..Len(items.v) |-> Instance(c.v["template"], Append(scopes, item(i)), data)]
Instance(x, scopes, data) ==
  LET type == x.v["type"].v
      kept == Restrict(x.v, ({"type"} \cup Plain(type) \cup PlainOptional(type)) \cap DOMAIN x.v)
      own  == [f \in Bindable(type) |->
                 IF f \in DOMAIN x.v THEN Resolved(x.v[f], KindOf(type, f), scopes, data)
                 ELSE Default(type)[f]]
      children(c) == IF Has(c, "repeat") THEN Repeated(c, scopes, data) ELSE <<Instance(c, scopes, data)>>
  IN Obj(kept @@ own @@
         CASE Inside(type) = {"children"} ->
                "children" :> Arr(FlattenSeq([i \in 1..Len(x.v["children"].v) |->
                                                children(x.v["children"].v[i])]))
           [] Inside(type) = {"content"} -> "content" :> Instance(x.v["content"], scopes, data)
           [] OTHER -> <<>>)

(* What went wrong on the way; the shape of a progress is only looked at   *)
(* here.                                                                   *)
InstanceFaults(scene) ==
  LET of(y) == IF y.t # "object" THEN {y.t}
               ELSE ({y.v[f].t : f \in DOMAIN y.v} \cap {"no data", "wrong data"})
                      \cup When(Has(y, "shape") /\ IsString(y.v["shape"])
                                  /\ y.v["shape"].v \notin {"linear", "ring"}, "shape")
  IN Faults(scene, of) \cup When(Len(Walk(scene, 1)) > MaxNodes, "nodes")

(* instantiate_template, and ModuleViewState::apply for both slots.        *)
SceneFaults(x, data) ==
  LET scene == Instance(x, <<>>, data)
  IN IF InstanceFaults(scene) # {} THEN InstanceFaults(scene)
     ELSE Faults(scene, Scene!ValidateNode) \cup Scene!ValidateWalk(scene)
ApplyFaults(view, data) == UNION {SceneFaults(view[slot], data) : slot \in DOMAIN view}

-----------------------------------------------------------------------------
(* The values a template leaves out are those of its defaults.             *)
RECURSIVE Filled(_)
Filled(x) ==
  IF x.t # "object" THEN x
  ELSE IF ~Has(x, "type")
  THEN IF Has(x, "template") THEN Obj([x.v EXCEPT !["template"] = Filled(@)]) ELSE x
  ELSE LET whole == x.v @@ Default(x.v["type"].v)
       IN Obj([f \in DOMAIN whole |->
                 CASE f = "children" -> Arr([i \in 1..Len(whole[f].v) |-> Filled(whole[f].v[i])])
                   [] f = "content"  -> Filled(whole[f])
                   [] OTHER          -> whole[f]])
=============================================================================
