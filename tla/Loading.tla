------------------------------ MODULE Loading -------------------------------
(***************************************************************************)
(* Families of configurations, packages, views and snapshots: a good one   *)
(* of each with one thing changed, and what loading, reloading and         *)
(* instantiating must make of them.                                        *)
(***************************************************************************)
EXTENDS Configuration

CONSTANTS MaxDepth, MaxNodes, MaxItems, MaxLinks, MaxResources

Views == INSTANCE Templates

S(v) == Str(v, 4)
Bind(path) == Obj([bind |-> Views!Path(path)])
NaN == [t |-> "nan", v |-> "nan"]

-----------------------------------------------------------------------------
(* Views and snapshots.                                                    *)

Label(path) == Obj([type |-> S("text"), value |-> Bind(path), role |-> S("body")])
Repeat(path, alias, body) == Obj([repeat |-> Views!Path(path), as |-> S(alias), template |-> body])
Rows(children) == Obj([type |-> S("row"), children |-> Arr(children)])

Paths == {<<"a">>, <<"a", "name">>, <<"b", "name">>, <<"items">>, <<"a", "items">>, <<"name">>,
          <<"items", "name">>, <<"b", "">>}
Snapshot(odd) ==
  LET item(v) == Obj([name |-> S(v), items |-> Arr(<<Obj([name |-> S(v)]), Obj([name |-> S("inner")])>>)])
      items == Arr(<<item("first"), item("second")>>)
  IN CASE odd = "none"  -> Obj([name |-> S("top"), a |-> item("data"), b |-> item("data"), items |-> items])
       [] odd = "words" -> Obj([name |-> S("top"), a |-> S("word"), items |-> Arr(<<S("word"), Integer(1)>>)])
       [] OTHER         -> Obj([name |-> Integer(1), a |-> items, items |-> item("one")])

(* A repeat in a repeat, whose aliases may hide each other or the data.    *)
TemplateInputs ==
  [outer : {"a", "items"}, inner : {"a", "b"}, over : Paths, bound : Paths, odd : {"none", "words", "bare"},
   kind : {"text", "progress", "button", "icon"}]
Body(i) ==
  CASE i.kind = "progress" ->
         Obj([type |-> S("progress"), value |-> Float(500), label |-> Bind(i.bound), shape |-> S("ring")])
    [] i.kind = "button"   -> Obj([type |-> S("button"), content |-> Label(i.bound), action_id |-> S("go")])
    [] i.kind = "icon"     -> Obj([type |-> S("icon"), name |-> Bind(i.bound)])
    [] OTHER               -> Label(i.bound)
TemplateOf(i) ==
  Rows(<<Label(<<"name">>),
         Repeat(<<"items">>, i.outer, Rows(<<Label(i.bound), Repeat(i.over, i.inner, Body(i))>>))>>)

(* What instantiating means: an alias is a name for its item, which hides  *)
(* whatever had that name.  What comes out is a scene that a module could  *)
(* have published.                                                         *)
RECURSIVE Meaning(_, _)
Meaning(x, data) ==
  LET children(c) ==
        IF ~Has(c, "repeat") THEN <<Meaning(c, data)>>
        ELSE LET items == Views!Descend(data, Views!Segments(c.v["repeat"]))
             IN IF items.t \in {"no data", "wrong data"} THEN <<items>>
                ELSE IF items.t # "array" THEN <<Views!Mismatch>>
                ELSE [k \in 1..Len(items.v) |->
                        Meaning(c.v["template"], Obj((c.v["as"].v :> items.v[k]) @@ data.v))]
  IN CASE Has(x, "children") ->
            Obj([Views!Instance(Obj([x.v EXCEPT !["children"] = Arr(<<>>)]), <<>>, data).v EXCEPT !["children"] =
                   Arr(FlattenSeq([k \in 1..Len(x.v["children"].v) |-> children(x.v["children"].v[k])]))])
       [] Has(x, "content") ->
            Obj([Views!Instance(x, <<>>, data).v EXCEPT !["content"] = Meaning(x.v["content"], data)])
       [] OTHER -> Views!Instance(x, <<>>, data)

InstantiatedAsMeant(i) ==
  LET x == TemplateOf(i)  data == Snapshot(i.odd)
  IN Views!TemplateFaults(x) = {} =>
       /\ Views!Instance(x, <<>>, data) = Meaning(x, data)
       /\ Views!ApplyFaults([compact |-> x], data) = {} =>
            Views!Scene!SceneFaults(Views!Instance(x, <<>>, data)) = {}

-----------------------------------------------------------------------------
(* Packages and configurations.                                            *)

Manifest ==
  Obj([id |-> S("clock"), name |-> S("Clock"), description |-> S("time"), command |-> Arr(<<S("lua-host")>>),
       entry |-> S("main"), config |-> S("config"), view |-> S("view"),
       protocol |-> Obj([major |-> Integer(1), minimum_minor |-> Integer(8), maximum_minor |-> Integer(9)]),
       options_schema |->
         Obj([step |-> Obj([type |-> S("integer"), minimum |-> Integer(1), maximum |-> Integer(5)]),
              scale |-> Obj([type |-> S("number"), minimum |-> Float(500)]),
              mode |-> Obj([type |-> S("string"), allowed |-> Arr(<<S("on"), S("off")>>),
                            required |-> Bool(TRUE)])])])
PackageFiles ==
  [main |-> S("code"), config |-> Obj([defaults |-> Obj([step |-> Integer(2), scale |-> Float(500)])]),
   view |-> Obj([compact |-> Label(<<"time">>), expanded |-> Rows(<<Label(<<"time">>)>>)])]
Packaged ==
  Obj([id |-> S("clock-1"), module |-> S("clock"), arguments |-> Arr(<<S("-v")>>), enabled |-> Bool(TRUE),
       options |-> Obj([mode |-> S("on"), step |-> Integer(3)]), restart |-> S("always"),
       timings |-> Obj([initial_backoff_ms |-> Integer(100)]), environment |-> Obj([tz |-> S("utc")]),
       working_directory |-> S("abs"), view |-> Obj([expanded |-> Label(<<"date">>)])])
Inline ==
  Obj([id |-> S("free"), command |-> Arr(<<S("run"), S("-q")>>), enabled |-> Bool(FALSE),
       options |-> Obj([any |-> Integer(1)]), view |-> Obj([compact |-> Label(<<"x">>)])])
Top ==
  Obj([monitor |-> S("primary"), theme |-> S("plain"),
       defaults |-> Obj([compact |-> S("clock-1"), expanded |-> S("clock-1")]),
       interaction |-> Obj([animation_speed |-> Float(1250), hover_exit_ms |-> Integer(120),
                            reduced_motion |-> Bool(FALSE)])])

Base == [top |-> Top, packaged |-> Packaged, inline |-> Inline, manifest |-> Manifest,
         files |-> PackageFiles, touched |-> {}, user |-> FALSE, bad |-> FALSE]

Changes == {"drop", "string", "on", "clock-1", "free", "compact", "expanded", "whole", "six", "large", "minus",
            "flag", "off", "half", "list", "empty", "date", "nan", "item", "outside", "relative", "bind"}
Changed(change) ==
  CASE change = "string" -> S("other")
    [] change \in {"on", "clock-1", "free", "compact", "expanded", "relative"} -> S(change)
    [] change = "outside" -> S("up")
    [] change = "whole"  -> Integer(1)
    [] change = "six"    -> Integer(6)
    [] change = "large"  -> Integer(86400001)
    [] change = "minus"  -> Integer(-1)
    [] change = "flag"   -> Bool(TRUE)
    [] change = "off"    -> Bool(FALSE)
    [] change = "half"   -> Float(500)
    [] change = "list"   -> Arr(<<>>)
    [] change = "empty"  -> Str("", 0)
    [] change = "date"   -> [t |-> "date", v |-> "date"]
    [] change = "nan"    -> NaN
    [] change = "item"   -> Arr(<<S("on")>>)
    [] OTHER             -> Obj([bind |-> Views!Path(<<"x">>)])
With(x, f, change) ==
  IF change = "drop" THEN Obj(Restrict(x.v, DOMAIN x.v \ {f}))
  ELSE Obj((f :> Changed(change)) @@ x.v)

(* One thing changed, in one of the documents or in a part of one.         *)
Parts ==
  {<<"top", "">>, <<"top", "defaults">>, <<"top", "interaction">>, <<"packaged", "">>, <<"packaged", "options">>,
   <<"packaged", "timings">>, <<"packaged", "environment">>, <<"packaged", "view">>, <<"inline", "">>,
   <<"inline", "options">>, <<"inline", "view">>, <<"manifest", "">>, <<"manifest", "protocol">>,
   <<"manifest", "options_schema">>}
FieldsOf(part) ==
  (IF part[2] = "" THEN DOMAIN Base[part[1]].v ELSE DOMAIN Base[part[1]].v[part[2]].v)
    \cup {"other", "default_module", "module", "arguments", "maximum_backoff_ms", "expanded", "compact"}
Edits ==
  UNION {{[part |-> p, field |-> f, change |-> c] : f \in FieldsOf(p), c \in Changes \ {"large"}} : p \in Parts}
    \cup [part : {<<"packaged", "timings">>}, field : Timings, change : {"large", "minus"}]
    \cup [part : {<<"files", "config">>}, field : {"step", "scale", "mode", "other"}, change : Changes \ {"large"}]
    \cup [part : {<<"files", "main">>, <<"files", "view">>, <<"user", "">>, <<"bad", "">>, <<"none", "">>,
                  <<"program", "">>},
          field : {"contents"}, change : {"string"}]
    \cup [part : {<<"touched", "">>}, field : {"module.toml", "main", "config", "view"}, change : {"string"}]
Edited(e) ==
  CASE e.part[1] = "none" -> Base
    [] e.part[1] \in {"user", "bad"} -> [Base EXCEPT !.user = TRUE, !.bad = e.part[1] = "bad"]
    [] e.part = <<"files", "config">> ->
         [Base EXCEPT !.files["config"] = Obj([defaults |-> With(@.v["defaults"], e.field, e.change)])]
    [] e.part = <<"files", "main">> -> [Base EXCEPT !.files["main"] = S("other")]
    [] e.part = <<"files", "view">> -> [Base EXCEPT !.files["view"] = Obj([compact |-> Label(<<"date">>)])]
    [] e.part[1] = "touched" -> [Base EXCEPT !.touched = {e.field}]
    [] e.part[1] = "program" ->
         [Base EXCEPT !.manifest = Obj([command |-> Arr(<<S("relative")>>)] @@ With(@, "entry", "drop").v)]
    [] e.part[2] = "" -> [Base EXCEPT ![e.part[1]] = With(@, e.field, e.change)]
    [] OTHER -> [Base EXCEPT ![e.part[1]] = Obj([@.v EXCEPT ![e.part[2]] = With(@, e.field, e.change)])]

(* The files as the program finds them: the user's package, when there is  *)
(* one, is the distributed one with another name.  A file that is touched  *)
(* was written again, as it was.                                           *)
Written(b) == [f \in DOMAIN b.files \cup {"module.toml"} |-> IF f \in b.touched THEN 2 ELSE 1]
Roots(b) ==
  LET package(root, m) == [root |-> root, manifest |-> m, files |-> b.files, written |-> Written(b)]
      theirs == With(b.manifest, "name", IF b.bad THEN "list" ELSE "string")
  IN <<IF b.user THEN "clock" :> package("user", theirs) ELSE <<>>,
       "clock" :> package("distributed", b.manifest)>>
Document(b) == Obj(("modules" :> Arr(<<b.packaged, b.inline>>)) @@ b.top.v)
Loads(e) == ConfigFaults(Document(Edited(e)), Roots(Edited(e))) = {}
Loaded(e) == Config(Document(Edited(e)), Roots(Edited(e)))

-----------------------------------------------------------------------------
(* Reloads, from one accepted configuration to another.                    *)

Rounds == {e \in Edits :
             \/ e.part[1] \in {"none", "user", "program", "touched", "files"} /\ e.change \in {"string", "six", "whole"}
             \/ e.part = <<"inline", "">> /\ e.field \in {"enabled", "view", "command"} /\ e.change \in {"flag", "drop", "item"}
             \/ e.part \in {<<"inline", "options">>, <<"packaged", "view">>} /\ e.change \in {"nan", "drop"}}
Unedited == {e \in Edits : e.part[1] = "none"}
Reloads ==
  [from : Edits, to : Unedited] \cup [from : Unedited, to : Edits] \cup [from : Rounds, to : Rounds]
=============================================================================
