------------------------------ MODULE Protocol ------------------------------
(***************************************************************************)
(* What the core takes from a module: the parser of its records            *)
(* (protocol.cpp), the validation of scenes (scene.cpp), and the protocol  *)
(* version and the capabilities a record needs (module_supervisor.cpp).    *)
(* A parser is the set of what it finds wrong; it accepts when the set is  *)
(* empty.  (The code stops at the first fault.)                            *)
(***************************************************************************)
EXTENDS Trees

CONSTANTS
  MaxDepth, MaxNodes,      \* maximum_depth, maximum_nodes
  MaxItems, MaxLinks,      \* maximum_rich_items, maximum_rich_links
  MaxResources             \* maximum_image_resources

MaxText       == 4096
MaxIdentifier == 128
MaxInput      == 1024
MaxRichText   == 16384
MaxDimension  == 512
MaxImageBytes == 4194304

-----------------------------------------------------------------------------
(* Parsing the nodes.                                                      *)

ParseText(x) == Misfits(x, [value |-> "string", role |-> "string"], [truncation |-> "string"])
ParseIcon(x) == Misfits(x, [name |-> "string", accessible_label |-> "string"], [role |-> "string"])
ParseImage(x) ==
  Misfits(x, [resource_id |-> "string", role |-> "string", accessible_label |-> "string"], <<>>)
ParseSpacer(x) == Misfits(x, <<>>, [flexible |-> "boolean", size_token |-> "string"])

(* The values of a list that must be strings of a set.                     *)
Listed(x, field, names) ==
  IF ~Has(x, field) THEN {}
  ELSE IF x.v[field].t # "array" THEN {"type"}
  ELSE UNION {IF ~IsString(x.v[field].v[i]) THEN {"type"}
              ELSE When(x.v[field].v[i].v \notin names, "name") : i \in 1..Len(x.v[field].v)}
Repeats(x, field) ==
  /\ Has(x, field) /\ x.v[field].t = "array"
  /\ LET s == x.v[field].v
     IN \E i, j \in 1..Len(s) : i < j /\ IsString(s[i]) /\ IsString(s[j]) /\ s[i].v = s[j].v

ParseEmphasis(x) == Listed(x, "emphasis", {"bold", "italic", "underline"})

ParseItem(x) ==
  CASE ~Has(x, "type") -> {"missing"}
    [] IsNode(x, {"text"}) -> Misfits(x, [value |-> "string"], <<>>) \cup ParseEmphasis(x)
    [] IsNode(x, {"link"}) ->
         Misfits(x, [value |-> "string", action_id |-> "string", accessible_label |-> "string"], <<>>)
           \cup ParseEmphasis(x)
    [] IsNode(x, {"inline_image"}) -> ParseImage(x)
    [] OTHER -> {"name"}

Items(x) == IF Has(x, "content") /\ x.v["content"].t = "array" THEN x.v["content"].v ELSE <<>>
ParseRichText(x) ==
  Misfits(x, [role |-> "string", content |-> "array"], <<>>)
    \cup UNION {ParseItem(Items(x)[i]) : i \in 1..Len(Items(x))}

ParseProgress(x) ==
  Misfits(x, [value |-> "number"],
          [label |-> "string", state |-> "string", shape |-> "string", transition_from |-> "number"])
    \cup When(Has(x, "shape") /\ ~OneOf(x.v["shape"], {"linear", "ring"}), "name")

ParseIndicator(x) ==
  Misfits(x, [state |-> "string", accessible_label |-> "string"], <<>>)
    \cup Listed(x, "effects", {"shadow", "glow", "breathe"})
    \cup When(Repeats(x, "effects"), "name")

ParseContainer(x) ==
  Misfits(x, [children |-> "array"], [alignment |-> "string", gap |-> "string"])
ParseButton(x) ==
  Misfits(x, [content |-> "any", action_id |-> "string", accessible_label |-> "string"],
          [enabled |-> "boolean", close_on_activate |-> "boolean"])
ParseTextInput(x) ==
  Misfits(x, [input_id |-> "string", action_id |-> "string", accessible_label |-> "string"],
          [initial_value |-> "string", placeholder |-> "string",
           submit_action_id |-> "string", navigation_action_id |-> "string"])

ParseNode(x) ==
  CASE x.t # "object"                 -> {"type"}
    [] x.t = "object" /\ ~Has(x, "type") -> {"missing"}
    [] IsNode(x, {"text"})            -> ParseText(x)
    [] IsNode(x, {"icon"})            -> ParseIcon(x)
    [] IsNode(x, {"image"})           -> ParseImage(x)
    [] IsNode(x, {"rich_text"})       -> ParseRichText(x)
    [] IsNode(x, {"row", "column"})   -> ParseContainer(x)
    [] IsNode(x, {"spacer"})          -> ParseSpacer(x)
    [] IsNode(x, {"progress"})        -> ParseProgress(x)
    [] IsNode(x, {"indicator"})       -> ParseIndicator(x)
    [] IsNode(x, {"text_input"})      -> ParseTextInput(x)
    [] IsNode(x, {"button", "action_region"}) -> ParseButton(x)
    [] OTHER                          -> {"name"}

-----------------------------------------------------------------------------
(* Validating the nodes of a scene that parses.                            *)

Size(x, field) == IF Has(x, field) /\ IsString(x.v[field]) THEN x.v[field].n ELSE 0
Longer(x, fields, limit, fault) == When(\E f \in fields : Size(x, f) > limit, fault)
Identifiers(x, fields) == Longer(x, fields, MaxIdentifier, "identifier")
Texts(x, fields) == Longer(x, fields, MaxText, "text")
Named(x, field, fault) == When(Has(x, field) /\ IsString(x.v[field]) /\ Size(x, field) = 0, fault)
Unit(x, field) ==
  When(Has(x, field) /\ Thousandths(x.v[field]) \notin 0..1000, "progress")

ValidateTextInput(x) ==
  Named(x, "input_id", "empty") \cup Named(x, "action_id", "action")
    \cup Named(x, "submit_action_id", "action") \cup Named(x, "navigation_action_id", "action")
    \cup Longer(x, {"initial_value"}, MaxInput, "text")
    \cup Identifiers(x, {"input_id", "action_id", "submit_action_id", "navigation_action_id"})
    \cup Texts(x, {"placeholder", "accessible_label"})

ValidateItem(x) ==
  Texts(x, {"value", "accessible_label"}) \cup Identifiers(x, {"action_id", "resource_id", "role"})
    \cup Named(x, "action_id", "action") \cup When(Repeats(x, "emphasis"), "emphasis")

ValidateRichText(x) ==
  LET items == Items(x)
      texts == SelectSeq(items, LAMBDA i : ~IsNode(i, {"inline_image"}))
      links == SelectSeq(items, LAMBDA i : IsNode(i, {"link"}))
  IN Identifiers(x, {"role"})
       \cup When(Len(items) > MaxItems \/ Len(links) > MaxLinks, "nodes")
       \cup When(FoldLeft(LAMBDA sum, i : sum + Size(i, "value"), 0, texts) > MaxRichText, "text")
       \cup UNION {ValidateItem(items[i]) : i \in 1..Len(items)}

ValidateNode(x) ==
  CASE IsNode(x, {"text"})     -> Texts(x, {"value"}) \cup Identifiers(x, {"role", "truncation"})
    [] IsNode(x, {"icon"})     -> Identifiers(x, {"name", "role"}) \cup Texts(x, {"accessible_label"})
    [] IsNode(x, {"image"})    ->
         Identifiers(x, {"resource_id", "role"}) \cup Texts(x, {"accessible_label"})
    [] IsNode(x, {"rich_text"}) -> ValidateRichText(x)
    [] IsNode(x, {"spacer"})   -> Identifiers(x, {"size_token"})
    [] IsNode(x, {"progress"}) ->
         Unit(x, "value") \cup Unit(x, "transition_from")
           \cup Texts(x, {"label"}) \cup Identifiers(x, {"state"})
    [] IsNode(x, {"indicator"}) -> Identifiers(x, {"state"}) \cup Texts(x, {"accessible_label"})
    [] IsNode(x, {"text_input"}) -> ValidateTextInput(x)
    [] IsNode(x, {"row", "column"}) -> Identifiers(x, {"alignment", "gap"})
    [] OTHER -> Named(x, "action_id", "action") \cup Identifiers(x, {"action_id"})
                  \cup Texts(x, {"accessible_label"})

(* The validator counts nodes as it walks: the items of a rich text count,  *)
(* and each walk stops at the first node too many.                          *)
Weight(x) == 1 + IF IsNode(x, {"rich_text"}) THEN Len(Items(x)) ELSE 0
ValidateWalk(scene) ==
  LET w == Walk(scene, 1)
      count(i) == FoldLeft(LAMBDA sum, y : sum + Weight(y.node), 0, SubSeq(w, 1, i))
      inputs == SelectSeq(w, LAMBDA y : IsNode(y.node, {"text_input"}))
  IN When(\E i \in 1..Len(w) : w[i].depth > MaxDepth, "deep")
       \cup When(\E i \in 1..Len(w) : count(i) > MaxNodes, "nodes")
       \cup When(\E i, j \in 1..Len(inputs) :
                   i < j /\ inputs[i].node.v["input_id"].v = inputs[j].node.v["input_id"].v,
                 "duplicate")

(* parse_scene, then validate_scene.                                       *)
SceneFaults(scene) ==
  LET parsed == Faults(scene, ParseNode)
  IN IF parsed # {} THEN parsed ELSE Faults(scene, ValidateNode) \cup ValidateWalk(scene)

-----------------------------------------------------------------------------
(* Images.                                                                 *)
(* The data of a record is a string that is base64 with two pads, or not.   *)
Decoded(x) == IF x.v = "base64==" /\ x.n % 4 = 0 THEN ((x.n \div 4) * 3) - 2 ELSE -1
ImageBytes(r) == 4 * r.v["width"].v * r.v["height"].v
ResourceMisfits(r) ==
  Misfits(r, [id |-> "string", format |-> "string", width |-> "integer", height |-> "integer",
              data |-> "string"], <<>>)
ResourceFaults(r) ==
  IF r.t # "object" THEN {"type"}
  ELSE IF ResourceMisfits(r) # {} THEN ResourceMisfits(r)
  ELSE When(Size(r, "id") = 0, "empty") \cup Identifiers(r, {"id"})
         \cup When(~OneOf(r.v["format"], {"rgba8"}), "name")
         \cup When(~{r.v["width"].v, r.v["height"].v} \subseteq 1..MaxDimension, "dimension")
         \cup When(Decoded(r.v["data"]) # ImageBytes(r), "bytes")

ParseResources(p) ==
  IF ~Has(p, "resources") THEN {}
  ELSE IF p.v["resources"].t # "array" THEN {"type"}
  ELSE LET rs    == p.v["resources"].v
           faults == UNION {ResourceFaults(rs[i]) : i \in 1..Len(rs)}
       IN When(Len(rs) > MaxResources, "resources")
            \cup IF faults # {} THEN faults
                 ELSE When(\E i, j \in 1..Len(rs) : i < j /\ rs[i].v["id"].v = rs[j].v["id"].v,
                           "duplicate")
                        \cup When(FoldLeft(LAMBDA sum, r : sum + ImageBytes(r), 0, rs)
                                    > MaxImageBytes, "resources")

References(scene) ==
  LET w == Walk(scene, 1)
      of(x) == IF IsNode(x, {"image"}) THEN {x.v["resource_id"].v}
               ELSE IF IsNode(x, {"rich_text"})
               THEN {Items(x)[i].v["resource_id"].v :
                       i \in {j \in 1..Len(Items(x)) : IsNode(Items(x)[j], {"inline_image"})}}
               ELSE {}
  IN UNION {of(w[i].node) : i \in 1..Len(w)}

-----------------------------------------------------------------------------
(* The records.                                                            *)

ParseTransitions(p) ==
  IF ~Has(p, "transitions") THEN {}
  ELSE LET x == p.v["transitions"]
       IN IF x.t # "object" THEN {"type"}
          ELSE Unknown(x, {"compact", "expanded"}) \cup When(DOMAIN x.v = {}, "missing")
                 \cup UNION {IF ~IsString(x.v[f]) THEN {"type"}
                             ELSE When(x.v[f].v \notin {"crossfade", "slide-left", "slide-right"},
                                       "name") : f \in DOMAIN x.v}

(* The views, in the independent form or in the older one.                 *)
Independent(p) == Has(p, "views")
Views(p) ==
  IF Independent(p) THEN IF p.v["views"].t = "object" THEN p.v["views"].v ELSE <<>>
  ELSE [f \in {g \in {"compact", "expanded"} \cap DOMAIN p.v : g = "compact" \/ p.v[g] # Null}
          |-> p.v[f]]

ParseViews(p) ==
  LET form == IF Independent(p)
              THEN When(p.v["views"].t # "object", "type")
                     \cup When(DOMAIN p.v \cap {"compact", "expanded"} # {}, "views")
                     \cup When(~DOMAIN Views(p) \subseteq {"compact", "expanded"}, "unknown")
                     \cup When(DOMAIN Views(p) = {}, "missing")
              ELSE When("compact" \notin DOMAIN p.v, "missing")
  IN IF form # {} THEN form ELSE UNION {SceneFaults(Views(p)[f]) : f \in DOMAIN Views(p)}

ParsePresentation(p) ==
  LET x == p.v["presentation"]
      expanded == "expanded" \in DOMAIN Views(p)
      misfits == Misfits(x, <<>>, [reveal |-> "string", duration_ms |-> "integer",
                                   compact_style |-> "string", expanded_style |-> "string",
                                   escape_action_id |-> "string"])
  IN IF ~Has(p, "presentation") THEN {}
     ELSE IF ~Independent(p) \/ x.t # "object" THEN {"type"}
     ELSE IF misfits # {} THEN misfits
     ELSE Unknown(x, {"reveal", "duration_ms", "compact_style", "expanded_style", "escape_action_id"})
            \cup When(Has(x, "reveal") /\ ~OneOf(x.v["reveal"], {"expanded"}), "reveal")
            \cup When(DOMAIN x.v \cap {"reveal", "expanded_style", "escape_action_id"} # {}
                        /\ ~expanded, "view")
            \cup When(Has(x, "duration_ms") /\ ~Has(x, "reveal"), "duration")
            \cup When(Has(x, "duration_ms") /\ x.v["duration_ms"].v \notin 1..60000, "range")
            \cup When(Has(x, "escape_action_id") /\ Size(x, "escape_action_id") = 0, "action")
            \cup Identifiers(x, {"escape_action_id"})
            \cup When(DOMAIN x.v \subseteq {"duration_ms"}, "presentation")

(* parse_publish.                                                          *)
ParsePublish(p) ==
  LET fields == Misfits(p, [context_id |-> "string", priority |-> "integer"],
                        [activation_only |-> "boolean", expires_in_ms |-> "integer"])
      parts  == ParseResources(p) \cup ParseTransitions(p) \cup ParseViews(p)
                  \cup ParsePresentation(p)
      ids    == IF Has(p, "resources")
                THEN {p.v["resources"].v[i].v["id"].v : i \in 1..Len(p.v["resources"].v)} ELSE {}
  IN IF fields # {} THEN fields
     ELSE Named(p, "context_id", "empty")
            \cup When(Has(p, "expires_in_ms") /\ p.v["expires_in_ms"].v < 0, "range")
            \cup IF parts # {} THEN parts
                 ELSE When(Has(p, "transitions")
                             /\ ~DOMAIN p.v["transitions"].v \subseteq DOMAIN Views(p), "view")
                        \cup When(~UNION {References(Views(p)[f]) : f \in DOMAIN Views(p)}
                                    \subseteq ids, "reference")

ParseReady(r) ==
  LET misfits == Misfits(r, [protocol_major |-> "integer", protocol_minor |-> "integer"], <<>>)
      list == IF Has(r, "capabilities") THEN r.v["capabilities"] ELSE Arr(<<>>)
  IN IF misfits # {} THEN misfits
     ELSE When(r.v["protocol_major"].v < 0 \/ r.v["protocol_minor"].v < 0, "range")
            \cup IF list.t # "array" THEN {"type"}
                 ELSE When(\E i \in 1..Len(list.v) : ~IsString(list.v[i]), "type")
                        \cup When(\E i \in 1..Len(list.v) : list.v[i].t = "string" /\ list.v[i].n = 0,
                                  "empty")
                        \cup When(Repeats(r, "capabilities"), "duplicate")

ParseData(r) ==
  Misfits(r, [value |-> "object"], <<>>) \cup ParseTransitions(r)
ParseDismiss(r) == Misfits(r, [context_id |-> "string"], <<>>) \cup Named(r, "context_id", "empty")

(* The invocation is a decimal number of 64 bits, the message may be null.  *)
ParseResult(r) ==
  Misfits(r, [action_id |-> "string", accepted |-> "boolean"], [invocation_id |-> "string"])
    \cup Named(r, "action_id", "empty")
    \cup When(Has(r, "invocation_id") /\ ~OneOf(r.v["invocation_id"], {"decimal"}), "name")
    \cup When(Has(r, "message") /\ r.v["message"].t \notin {"string", "null"}, "type")
ParseLog(r) ==
  Misfits(r, [level |-> "string", message |-> "string"], <<>>)
    \cup When(Has(r, "level") /\ ~OneOf(r.v["level"], {"debug", "info", "warning", "error"}), "name")
    \cup Texts(r, {"message"})

ParseRecord(r) ==
  CASE r.t # "object"                  -> {"type"}
    [] r.t = "object" /\ ~Has(r, "type") -> {"missing"}
    [] IsNode(r, {"ready"})            -> ParseReady(r)
    [] IsNode(r, {"publish"})          -> ParsePublish(r)
    [] IsNode(r, {"dismiss"})          -> ParseDismiss(r)
    [] IsNode(r, {"action_result"})    -> ParseResult(r)
    [] IsNode(r, {"log"})              -> ParseLog(r)
    [] IsNode(r, {"data"})             -> ParseData(r)
    [] OTHER                           -> {"name"}
=============================================================================
