------------------------------- MODULE Usage --------------------------------
(* What a record of a module uses, of what is negotiated: the walks that      *)
(* handle_protocol_line makes of its scenes (module_supervisor.cpp).          *)
EXTENDS Trees, Negotiation

Some(scene, Of(_)) == LET w == Walk(scene, 1) IN \E i \in 1..Len(w) : Of(w[i].node)

UsesRich(x) == IsNode(x, {"rich_text", "action_region"})
UsesText(x) ==
  \/ IsNode(x, {"text_input"})
  \/ IsNode(x, {"button", "action_region"}) /\ Has(x, "close_on_activate") /\ x.v["close_on_activate"].v
UsesRole(x)       == IsNode(x, {"icon"}) /\ Has(x, "role") /\ ~OneOf(x.v["role"], {"body"})
UsesTransition(x) == IsNode(x, {"progress"}) /\ Has(x, "transition_from")
UsesEffects(x)    == IsNode(x, {"indicator"}) /\ Has(x, "effects") /\ x.v["effects"].v # <<>>

Scenes(r) ==
  IF Has(r, "views") THEN r.v["views"].v
  ELSE [f \in {"compact", "expanded"} \cap DOMAIN r.v |-> r.v[f]]
InScenes(r, Of(_)) == \E f \in DOMAIN Scenes(r) : Some(Scenes(r)[f], Of)
Presents(r, field) == Has(r, "presentation") /\ Has(r.v["presentation"], field)

(* handle_protocol_line: the capabilities an accepted record is held to.   *)
Uses(r, c) ==
  IF c = "data-snapshots" THEN IsNode(r, {"data"})
  ELSE IF c = "content-transitions" THEN Has(r, "transitions")
  ELSE IF ~IsNode(r, {"publish"}) THEN FALSE
  ELSE CASE c = "context-images"      -> Has(r, "resources") /\ r.v["resources"].v # <<>>
         [] c = "rich-content"        -> InScenes(r, UsesRich)
         [] c = "independent-views"   -> Has(r, "views")
         [] c = "text-input"          -> InScenes(r, UsesText)
         [] c = "status-indicator"    -> InScenes(r, LAMBDA x : IsNode(x, {"indicator"}))
         [] c = "indicator-effects"   -> InScenes(r, UsesEffects)
         [] c = "icon-roles"          -> InScenes(r, UsesRole)
         [] c = "progress-transitions" -> InScenes(r, UsesTransition)
         [] c = "compact-view-styles" -> Presents(r, "compact_style")
         [] c = "expanded-view-styles" -> Presents(r, "expanded_style")
         [] c = "escape-action"       -> Presents(r, "escape_action_id")
         [] OTHER                     -> FALSE
Used(r) == {c \in Capabilities : Uses(r, c)}
ActivationOnly(r) == Has(r, "activation_only") /\ r.v["activation_only"].v
=============================================================================
