--------------------------------- MODULE Overlay --------------------------------
(* What of the island is on the screen, and who has the keyboard: the classes     *)
(* PresentationController, OverlayModeController and HoverController              *)
(* (src/island.cpp), the commands that move them (src/control_dispatcher.cpp) and *)
(* the frame of Application::run (src/application.cpp) that asks them.  A frame   *)
(* goes through the phases                                                        *)
(*   start    time passes                                                         *)
(*   watch    the configuration may be reloaded                                   *)
(*   events   modules publish and withdraw contexts; the pointer is looked at     *)
(*   control  the commands of gislandctl; then the selection is rendered          *)
(*   focus    the keyboard is taken or given up                                   *)
(*   input    keys and clicks                                                     *)
(*   draw     the mode settles, the window is shown or hidden                     *)
(* A waiting time is what is left of it.                                          *)

EXTENDS Integers, FiniteSets

CONSTANTS
  Keys,               \* the context keys in use
  Kinds,              \* the kinds of contexts that modules publish
  Lease,              \* the three seconds of a consultation
  RevealTime,         \* the duration of a timed reveal, the lifetime of a notice
  ExitTolerance,      \* interaction.hover_exit
  ReducedMotion,      \* interaction.reduced_motion
  MaxPublications,    \* bound: publications
  MaxRequests         \* bound: commands, reloads and closing actions

ASSUME OverlayAssumption ==
  /\ Kinds \subseteq {"plain", "notice", "timed", "standing"}
  /\ {Lease, RevealTime} \subseteq Nat \ {0} /\ ExitTolerance \in Nat
  /\ ReducedMotion \in BOOLEAN
  /\ {MaxPublications, MaxRequests} \subseteq Nat

VARIABLES
  contexts,           \* what is published: a function from keys to contexts
  pinned,             \* the key that the activation pins
  publications,       \* the number of publications, which is the latest version
  requests,           \* the number of commands, reloads and closing actions
  presentation,
  modes,              \* mode_controller
  rendered,           \* the contexts whose scenes were rendered, by slot
  deferred,           \* compact_refresh_deferred
  mode,
  visible,
  reveal_spring,      \* 0 away, 1 on its way, 2 arrived
  actions_ready,
  keyboard,           \* the session: the key of keyboard_context, or none
  to_release,         \* keyboard_activation_to_release
  hidden_config,      \* interaction.hidden_mode in the configuration
  phase, delta, hovered, accepted    \* of this frame

world == <<contexts, pinned, publications>>
controllers == <<presentation, modes>>
scenes == <<rendered, deferred, mode, actions_ready>>
window == <<visible, reveal_spring>>
session == <<keyboard, to_release>>
frame == <<phase, delta, hovered, accepted>>
vars == <<world, requests, controllers, scenes, window, session, hidden_config, frame>>

Unset == -1
None == [key |-> "none", version |-> 0, kind |-> "none"]
NoKey == "none"
Slots == {"compact", "expanded"}
Empty == [slot \in Slots |-> None]

Less(left, time) == IF left > time THEN left - time ELSE IF left = Unset THEN Unset ELSE 0

--------------------------------------------------------------------------------
(* class PresentationController.                                                  *)

NoSource == [version |-> 0, left |-> Unset]

NewPresentation(hidden) ==
  [hidden       |-> hidden,      \* hidden_mode_
   held         |-> FALSE,       \* held_
   consultation |-> FALSE,       \* consultation_
   lease        |-> Unset,       \* consultation_deadline_
   source       |-> NoSource,    \* reveal_source_: versions identify contexts
   has_content  |-> FALSE,       \* has_content_
   visible      |-> FALSE]       \* visible_

ShouldPresent(p) == p.has_content /\ (~p.hidden \/ p.consultation \/ p.source # NoSource)

Consult_Keeps(p) ==   \* mutant
  [p EXCEPT !.consultation = TRUE]

Consult(p) ==
  [p EXCEPT !.consultation = TRUE, !.lease = IF p.held THEN Unset ELSE Lease]

Held_KeepsLease(p) ==   \* mutant
  [p EXCEPT !.held = TRUE, !.consultation = @ \/ (p.hidden /\ ShouldPresent(p))]

Held(p) ==
  LET consulted == p.consultation \/ (p.hidden /\ ShouldPresent(p))
  IN  [p EXCEPT !.held = TRUE, !.consultation = consulted, !.lease = IF consulted THEN Unset ELSE @]

LetGo(p) ==
  [p EXCEPT !.held = FALSE, !.lease = IF p.consultation THEN Lease ELSE @]

\* set_interaction_hold
Hold(p, held) ==
  IF p.held = held THEN p ELSE IF held THEN Held(p) ELSE LetGo(p)

SetHiddenMode(p, hidden, interacting) ==
  LET switched == [p EXCEPT !.hidden = hidden]
      consulted == Consult(switched)
  IN  IF p.hidden # hidden /\ hidden /\ (interacting \/ p.held)
      THEN IF interacting THEN Hold(consulted, TRUE) ELSE consulted
      ELSE switched

Closed(p) ==
  [p EXCEPT !.held = FALSE, !.consultation = FALSE, !.lease = Unset, !.source = NoSource]

Expired_KeepsReveal(p) ==   \* mutant
  [p EXCEPT !.consultation = @ /\ p.lease # 0, !.lease = IF @ = 0 THEN Unset ELSE @]

Expired(p) ==
  [p EXCEPT
     !.consultation = @ /\ p.lease # 0,
     !.lease        = IF @ = 0 THEN Unset ELSE @,
     !.source       = IF @.left = 0 THEN NoSource ELSE @]

\* update(now, has_content)
Updated(p, has_content) ==
  IF has_content THEN Expired([p EXCEPT !.has_content = TRUE])
  ELSE [Closed(p) EXCEPT !.has_content = FALSE]

\* reconcile, with the contexts that are selected.
Reconciled(p, selection) ==
  IF \E slot \in Slots : selection[slot].version = p.source.version THEN p
  ELSE [p EXCEPT !.source = NoSource]

--------------------------------------------------------------------------------
(* classes HoverController and OverlayModeController.                             *)

NewModes ==
  [explicit   |-> FALSE,     \* explicit_open_
   suppressed |-> FALSE,     \* hover_suppressed_
   preview    |-> 0,         \* preview_remaining_
   persistent |-> FALSE,     \* persistent_reveal_
   hover      |-> FALSE,     \* HoverController::mode_ is expanded
   outside    |-> 0,         \* HoverController::outside_elapsed_
   hovered    |-> FALSE]     \* hovered_

ModeOf(m) ==
  IF m.explicit \/ m.persistent \/ m.preview > 0 \/ m.hover THEN "expanded" ELSE "compact"

Collapsed(m) == [m EXCEPT !.hover = FALSE, !.outside = 0]

\* HoverController::update
Hovered(m, over, time) ==
  CASE over -> [m EXCEPT !.hover = TRUE, !.outside = 0]
    [] ~over /\ m.hover /\ m.outside + time >= ExitTolerance -> Collapsed(m)
    [] ~over /\ m.hover /\ m.outside + time < ExitTolerance -> [m EXCEPT !.outside = @ + time]
    [] OTHER -> m

\* OverlayModeController::update
ModeUpdated(m, over, has_expanded, time) ==
  LET aged == [m EXCEPT !.hovered = over, !.preview = Less(@, time)]
  IN  CASE ~has_expanded -> [NewModes EXCEPT !.hovered = over]
        [] has_expanded /\ m.suppressed -> [Collapsed(aged) EXCEPT !.suppressed = over]
        [] OTHER -> Hovered(aged, over, time)

\* set_reveal; no duration means for ever.
SetReveal(m, has_expanded, duration) ==
  [m EXCEPT !.persistent = has_expanded /\ duration = Unset,
            !.preview = IF has_expanded /\ duration # Unset THEN duration ELSE 0]

Opened(m) ==
  [m EXCEPT !.explicit = TRUE, !.suppressed = FALSE, !.preview = 0, !.persistent = FALSE]

ClosedModes(m) ==
  [Collapsed(m) EXCEPT !.explicit = FALSE, !.suppressed = m.hovered, !.preview = 0, !.persistent = FALSE]

--------------------------------------------------------------------------------
(* The contexts.  Which of several contexts is better is the arbiter's business,  *)
(* here the latest is; a context goes away by itself or because its time is over. *)

Offers(kind) ==
  CASE kind = "plain"  -> Slots
    [] kind = "notice" -> {"compact"}
    [] OTHER           -> {"expanded"}

SelectedIn(published, pin, slot) ==
  LET contributing == {published[key] : key \in {k \in DOMAIN published : slot \in Offers(published[k].kind)}}
  IN  CASE contributing = {} -> None
        [] \E c \in contributing : c.key = pin -> published[pin]
        [] OTHER -> CHOOSE c \in contributing : \A other \in contributing : other.version <= c.version

SelectionIn(published, pin) == [slot \in Slots |-> SelectedIn(published, pin, slot)]
Selection == SelectionIn(contexts, pinned)

Without(keys) == [key \in DOMAIN contexts \ keys |-> contexts[key]]
PinWithout(keys) == IF pinned \in keys THEN NoKey ELSE pinned

\* The presentation that a publication asks for, when it is selected at once.
Asked(context, selection) ==
  CASE selection["expanded"] = context /\ context.kind = "timed" ->
         [version |-> context.version, left |-> RevealTime]
    [] selection["expanded"] = context /\ context.kind = "standing" ->
         [version |-> context.version, left |-> Unset]
    [] selection["compact"] = context /\ context.kind = "notice" ->
         [version |-> context.version, left |-> RevealTime]
    [] OTHER -> accepted

Publish(key, kind) ==
  LET context == [key |-> key, version |-> publications + 1, kind |-> kind]
      published == [k \in DOMAIN contexts \cup {key} |-> IF k = key THEN context ELSE contexts[k]]
  IN  /\ phase \in {"watch", "events"} /\ publications < MaxPublications
      /\ contexts' = published
      /\ publications' = publications + 1
      /\ accepted' = Asked(context, SelectionIn(published, pinned))
      /\ phase' = "events"
      /\ UNCHANGED <<pinned, requests, controllers, scenes, window, session, hidden_config, delta, hovered>>

Withdraw(key) ==
  /\ phase \in {"watch", "events"} /\ key \in DOMAIN contexts
  /\ contexts' = Without({key})
  /\ pinned' = PinWithout({key})
  /\ phase' = "events"
  /\ UNCHANGED <<publications, requests, controllers, scenes, window, session, hidden_config,
                 delta, hovered, accepted>>

--------------------------------------------------------------------------------
(* The frame, up to the commands.                                                 *)

\* Deadlines are compared with a later clock; nothing is decided yet.
Begin(time) ==
  /\ phase = "start"
  /\ presentation' = [presentation EXCEPT !.lease = Less(@, time), !.source.left = Less(@, time)]
  /\ delta' = time
  /\ phase' = "watch"
  /\ UNCHANGED <<world, requests, modes, scenes, window, session, hidden_config, hovered, accepted>>

InSession == keyboard # NoKey

\* A window that is not shown is not hovered.  An activation that is not held may end.
Point(over) ==
  /\ phase \in {"watch", "events"} /\ (over => visible)
  /\ hovered' = over
  /\ presentation' = Hold(presentation, over \/ InSession)
  /\ LET held == (over \/ InSession) /\ ModeOf(modes) = "expanded" /\ rendered["expanded"] # None
     IN  pinned' \in IF held THEN {pinned} ELSE {pinned, NoKey}
  /\ phase' = "control"
  /\ UNCHANGED <<contexts, publications, requests, modes, scenes, window, session, hidden_config,
                 delta, accepted>>

\* replace_rendered: the compact content that is on the screen may be preserved, and a
\* mode that is not preserved starts over.
ModesAfter(m, preserve) == IF preserve \/ ModeOf(m) = "compact" THEN m ELSE NewModes

Replace_KeepsReady(selection, preserve, preserve_compact) ==   \* mutant
  /\ rendered' = selection
  /\ deferred' = preserve_compact
  /\ mode' = IF preserve THEN mode ELSE "compact"
  /\ keyboard' = IF InSession /\ selection["expanded"] # None THEN selection["expanded"].key ELSE keyboard
  /\ UNCHANGED actions_ready

Replace(selection, preserve, preserve_compact) ==
  /\ rendered' = selection
  /\ deferred' = preserve_compact
  /\ actions_ready' = FALSE
  /\ mode' = IF preserve THEN mode ELSE "compact"
  /\ keyboard' = IF InSession /\ selection["expanded"] # None THEN selection["expanded"].key ELSE keyboard

\* A reload that succeeds: modules that are gone or replaced lose their contexts, and
\* the rest is rendered again.
Reload(hidden, gone) ==
  LET selection == SelectionIn(Without(gone), PinWithout(gone))
      expanded == selection["expanded"] # None
      open == IF ModeOf(modes) = "expanded" /\ ~expanded THEN ClosedModes(modes) ELSE modes
      preserve == ModeOf(open) = "expanded" /\ expanded
  IN  /\ phase \in {"watch", "control"} /\ requests < MaxRequests
      /\ requests' = requests + 1
      /\ contexts' = Without(gone) /\ pinned' = PinWithout(gone)
      /\ hidden_config' = hidden
      /\ presentation' = IF hidden = hidden_config THEN presentation
                         ELSE SetHiddenMode(presentation, hidden, modes.explicit)
      /\ \/ /\ selection # Empty
            /\ modes' = ModesAfter(open, preserve)
            /\ Replace(selection, preserve, FALSE)
         \/ /\ selection = Empty
            /\ modes' = open
            /\ rendered' = Empty
            /\ UNCHANGED <<deferred, mode, actions_ready, keyboard>>
      /\ phase' = IF phase = "watch" THEN "events" ELSE phase
      /\ UNCHANGED <<publications, window, to_release, delta, hovered, accepted>>

--------------------------------------------------------------------------------
(* The commands of gislandctl that succeed.                                       *)

Command(new_presentation, new_modes, new_contexts, new_pin) ==
  /\ phase = "control" /\ requests < MaxRequests
  /\ requests' = requests + 1
  /\ presentation' = new_presentation /\ modes' = new_modes
  /\ contexts' = new_contexts /\ pinned' = new_pin
  /\ UNCHANGED <<publications, scenes, window, session, hidden_config, frame>>

Open ==
  /\ Selection["expanded"] # None
  /\ Command(Consult(presentation), Opened(modes), contexts, pinned)

Close == Command(Closed(presentation), ClosedModes(modes), contexts, NoKey)

Toggle == IF ModeOf(modes) = "expanded" THEN Close ELSE Open

HiddenMode(hidden) ==
  /\ hidden # presentation.hidden
  /\ Command(SetHiddenMode(presentation, hidden, modes.explicit), modes, contexts, pinned)

Collapse == Command(presentation, ClosedModes(modes), contexts, NoKey)

Activate(key) ==
  /\ key \in DOMAIN contexts
  /\ Command(Consult(presentation), ClosedModes(modes), contexts, key)

\* An activation that cannot be opened is taken back.
ActivateOpen(key) ==
  /\ key \in DOMAIN contexts
  /\ IF SelectionIn(contexts, key)["expanded"].key = key
     THEN Command(Consult(presentation), Opened(modes), contexts, key)
     ELSE Command(presentation, modes, contexts, NoKey)

DismissCommand ==
  LET selected == Selection[ModeOf(modes)]
  IN  /\ selected # None
      /\ Command(presentation, modes, Without({selected.key}), PinWithout({selected.key}))

--------------------------------------------------------------------------------
(* Rendering what is selected.                                                    *)

HasContent == rendered # Empty
Current == Reconciled(Updated(presentation, HasContent), Selection)
RevealsNow == \E slot \in Slots : Selection[slot] # None /\ Selection[slot].version = accepted.version

\* retaining_hidden_departure
Retaining == Current.hidden /\ visible /\ ~ShouldPresent(Current) /\ ~RevealsNow

ExpandedChanged == rendered["expanded"] # Selection["expanded"]

\* Without a compact context the compact revision is the one of everything, which any
\* event may have raised.
MustRender ==
  /\ ~Retaining /\ Selection # Empty
  /\ \/ rendered # Selection
     \/ deferred /\ mode = "compact"
MayRender == MustRender \/ (~Retaining /\ Selection # Empty /\ Selection["compact"] = None)

\* preserve_compact_during_expanded_switch
PreservesCompact ==
  /\ HasContent
  /\ mode = "compact" /\ ModeOf(modes) = "expanded"
  /\ rendered["compact"].key # Selection["compact"].key
  /\ rendered["expanded"].key # Selection["expanded"].key
  /\ Selection["expanded"] # None

Revealed(m) ==
  LET kind == Selection["expanded"].kind
  IN  CASE kind = "timed"    -> SetReveal(m, TRUE, RevealTime)
        [] kind = "standing" -> SetReveal(m, TRUE, Unset)
        [] OTHER             -> SetReveal(m, FALSE, Unset)

RenderAccepted ==
  LET preserve == ModeOf(modes) = "expanded" /\ Selection["expanded"] # None
      kept == ModesAfter(modes, preserve)
  IN  /\ phase = "control" /\ MayRender
      /\ Replace(Selection, preserve, PreservesCompact)
      /\ modes' = IF ExpandedChanged THEN Revealed(kept) ELSE kept
      /\ presentation' = IF RevealsNow THEN [Current EXCEPT !.source = accepted] ELSE Current
      /\ phase' = "focus"
      /\ UNCHANGED <<world, requests, window, to_release, hidden_config, delta, hovered, accepted>>

\* The layout refuses a scene: its context goes, or the version that was shown returns.
RenderRefused(slot) ==
  /\ phase = "control" /\ MayRender /\ Selection[slot] # None
  /\ LET key == Selection[slot].key
         shown == {rendered[s] : s \in {s \in Slots : rendered[s].key = key}} \ {contexts[key]}
     IN  \/ contexts' = Without({key}) /\ pinned' = PinWithout({key})
         \/ \E old \in shown : contexts' = [contexts EXCEPT ![key] = old] /\ UNCHANGED pinned
  /\ presentation' = Current
  /\ phase' = "focus"
  /\ UNCHANGED <<publications, requests, modes, scenes, window, session, hidden_config,
                 delta, hovered, accepted>>

RenderNothing ==
  /\ phase = "control" /\ Selection = Empty /\ HasContent
  /\ rendered' = Empty /\ actions_ready' = FALSE
  /\ modes' = NewModes
  /\ visible' = FALSE
  /\ presentation' = Current
  /\ phase' = "focus"
  /\ UNCHANGED <<world, requests, deferred, mode, reveal_spring, session, hidden_config,
                 delta, hovered, accepted>>

RenderUnchanged ==
  /\ phase = "control" /\ ~MustRender /\ (Selection = Empty => ~HasContent)
  /\ presentation' = Current
  /\ phase' = "focus"
  /\ UNCHANGED <<world, requests, modes, scenes, window, session, hidden_config, delta, hovered, accepted>>

--------------------------------------------------------------------------------
(* The keyboard.                                                                  *)

\* end_keyboard_session: the activation goes with the session, or when the window leaves.
EndSession(release) ==
  /\ keyboard' = NoKey
  /\ pinned' = IF release THEN PinWithout({keyboard}) ELSE pinned
  /\ to_release' = IF release THEN to_release ELSE keyboard

LoseFocus ==
  LET closed == ClosedModes(modes)
      hidden == presentation.hidden
  IN  /\ phase = "focus" /\ InSession
      /\ modes' = IF hidden THEN SetReveal(closed, rendered["expanded"] # None, Lease) ELSE closed
      /\ presentation' = IF hidden THEN Hold(presentation, hovered) ELSE presentation
      /\ EndSession(~hidden)
      /\ phase' = "input"
      /\ UNCHANGED <<contexts, publications, requests, scenes, window, hidden_config,
                     delta, hovered, accepted>>

WantsFocus == modes.explicit /\ ~InSession /\ rendered["expanded"] # None

\* The window is shown before it takes the keyboard, which may be refused.
TakeFocus(taken) ==
  /\ phase = "focus" /\ WantsFocus
  /\ visible' = (visible \/ presentation.hidden)
  /\ presentation' = [presentation EXCEPT !.visible = @ \/ (presentation.hidden /\ ~visible)]
  /\ keyboard' = IF taken THEN rendered["expanded"].key ELSE keyboard
  /\ to_release' = IF taken THEN NoKey ELSE to_release
  /\ phase' = "input"
  /\ UNCHANGED <<world, requests, modes, scenes, reveal_spring, hidden_config, delta, hovered, accepted>>

GiveUpFocus ==
  /\ phase = "focus" /\ ~modes.explicit /\ InSession
  /\ EndSession(TRUE)
  /\ phase' = "input"
  /\ UNCHANGED <<contexts, publications, requests, controllers, scenes, window, hidden_config,
                 delta, hovered, accepted>>

KeepFocus ==
  /\ phase = "focus" /\ ~WantsFocus /\ (InSession => modes.explicit)
  /\ phase' = "input"
  /\ UNCHANGED <<world, requests, controllers, scenes, window, session, hidden_config,
                 delta, hovered, accepted>>

NoInput ==
  /\ phase = "input"
  /\ phase' = "draw"
  /\ UNCHANGED <<world, requests, controllers, scenes, window, session, hidden_config,
                 delta, hovered, accepted>>

KeysReachView == InSession /\ rendered["expanded"] # None

Escape ==
  /\ phase = "input" /\ KeysReachView
  /\ modes' = ClosedModes(modes)
  /\ presentation' = Closed(presentation)
  /\ EndSession(TRUE)
  /\ phase' = "draw"
  /\ UNCHANGED <<contexts, publications, requests, scenes, window, hidden_config,
                 delta, hovered, accepted>>

\* send_action, by a key or a click, for a target that closes what it was taken from.
ClosingAction ==
  /\ phase = "input" /\ requests < MaxRequests
  /\ KeysReachView \/ (actions_ready /\ rendered["expanded"] # None)
  /\ rendered[mode] # None
  /\ requests' = requests + 1
  /\ modes' = ClosedModes(modes)
  /\ pinned' = NoKey
  /\ presentation' = Closed(presentation)
  /\ phase' = "draw"
  /\ UNCHANGED <<contexts, publications, scenes, window, session, hidden_config,
                 delta, hovered, accepted>>

--------------------------------------------------------------------------------
(* The end of the frame: the window follows.                                      *)

\* A step of the spring towards its target.
Sprung(presented) ==
  CASE ~presentation.hidden \/ ReducedMotion -> IF presented THEN 2 ELSE 0
    [] presentation.hidden /\ ~ReducedMotion /\ delta = 0 -> reveal_spring
    [] OTHER -> IF presented THEN (IF reveal_spring = 2 THEN 2 ELSE reveal_spring + 1)
                ELSE (IF reveal_spring = 0 THEN 0 ELSE reveal_spring - 1)

\* Whether the window is hidden at the end of the frame, and the activation released.
Leaves(presented, spring) ==
  /\ visible \/ presented
  /\ HasContent => ~presented /\ (~presentation.hidden \/ spring = 0)

Releases(presented, spring) ==
  IF HasContent THEN Leaves(presented, spring) ELSE ~presented

Draw(ready) ==
  LET next == ModeUpdated(modes, hovered, rendered["expanded"] # None, delta)
      held == Hold(presentation, hovered \/ InSession)
      presented == ShouldPresent(held)
      spring == Sprung(presented)
      leaves == Leaves(presented, spring)
  IN  /\ phase = "draw"
      /\ modes' = next
      /\ mode' = ModeOf(next)
      /\ reveal_spring' = spring
      /\ ready => /\ mode' = "expanded" /\ rendered["expanded"] # None /\ (visible \/ presented)
                  /\ ~held.hidden \/ spring = 2
      /\ actions_ready' = ready
      /\ presentation' = [held EXCEPT !.visible = ~leaves /\ (@ \/ (presented /\ ~visible))]
      /\ visible' = ((visible \/ presented) /\ ~leaves)
      /\ IF Releases(presented, spring)
         THEN pinned' = PinWithout({to_release} \ {NoKey}) /\ to_release' = NoKey
         ELSE UNCHANGED <<pinned, to_release>>
      /\ phase' = "start" /\ delta' = 0 /\ hovered' = FALSE /\ accepted' = NoSource
      /\ UNCHANGED <<contexts, publications, requests, rendered, deferred, keyboard, hidden_config>>

Init ==
  /\ contexts = << >> /\ pinned = NoKey /\ publications = 0 /\ requests = 0
  /\ hidden_config \in BOOLEAN
  /\ presentation = NewPresentation(hidden_config) /\ modes = NewModes
  /\ rendered = Empty /\ deferred = FALSE /\ mode = "compact" /\ actions_ready = FALSE
  /\ visible = FALSE /\ reveal_spring = 0
  /\ keyboard = NoKey /\ to_release = NoKey
  /\ phase = "start" /\ delta = 0 /\ hovered = FALSE /\ accepted = NoSource

Modules ==
  \/ \E key \in Keys, kind \in Kinds : Publish(key, kind)
  \/ \E key \in Keys : Withdraw(key)

Commands ==
  \/ Open \/ Close \/ Toggle \/ Collapse \/ DismissCommand
  \/ \E hidden \in BOOLEAN : HiddenMode(hidden)
  \/ \E key \in Keys : Activate(key) \/ ActivateOpen(key)

Frame ==
  \/ \E time \in {0, 1} : Begin(time)
  \/ \E over \in BOOLEAN : Point(over)
  \/ RenderAccepted \/ RenderNothing \/ RenderUnchanged
  \/ \E slot \in Slots : RenderRefused(slot)
  \/ \E taken \in BOOLEAN : TakeFocus(taken)
  \/ LoseFocus \/ GiveUpFocus \/ KeepFocus
  \/ NoInput \/ Escape \/ ClosingAction
  \/ \E ready \in BOOLEAN : Draw(ready)

Next ==
  \/ Modules \/ Commands \/ Frame
  \/ \E hidden \in BOOLEAN, gone \in SUBSET DOMAIN contexts : Reload(hidden, gone)

Spec == Init /\ [][Next]_vars

\* The frame loop runs and time goes by.
FairSpec == Spec /\ WF_vars(Frame) /\ SF_vars(Begin(1))

--------------------------------------------------------------------------------
(* Properties.                                                                    *)

Versions == 0..MaxPublications
ContextsOrNone == {None} \cup [key : Keys, version : Versions \ {0}, kind : Kinds]
Left(longest) == {Unset} \cup 0..longest
Sources == [version : Versions, left : Left(RevealTime)]
KeysOrNone == Keys \cup {NoKey}

Presentations ==
  [hidden : BOOLEAN, held : BOOLEAN, consultation : BOOLEAN, lease : Left(Lease), source : Sources,
   has_content : BOOLEAN, visible : BOOLEAN]

AllModes ==
  [explicit : BOOLEAN, suppressed : BOOLEAN, preview : Nat, persistent : BOOLEAN,
   hover : BOOLEAN, outside : Nat, hovered : BOOLEAN]

\* Every variable keeps its type; the waiting times stay within what was set.
TypeOK ==
  /\ DOMAIN contexts \subseteq Keys /\ \A key \in DOMAIN contexts : contexts[key] \in ContextsOrNone
  /\ pinned \in {NoKey} \cup DOMAIN contexts
  /\ publications \in Versions /\ requests \in 0..MaxRequests
  /\ presentation \in Presentations /\ modes \in AllModes
  /\ modes.outside = 0 \/ modes.outside < ExitTolerance
  /\ rendered \in [Slots -> ContextsOrNone]
  /\ {deferred, visible, actions_ready, hidden_config, hovered} \subseteq BOOLEAN
  /\ mode \in Slots /\ reveal_spring \in 0..2
  /\ {keyboard, to_release} \subseteq KeysOrNone
  /\ phase \in {"start", "watch", "events", "control", "focus", "input", "draw"}
  /\ delta \in {0, 1} /\ accepted \in Sources

\* A consultation ends by itself exactly when nobody holds it: it has a deadline unless the
\* pointer or the keyboard is on the island.
ConsultationTimed ==
  presentation.consultation => (presentation.held <=> presentation.lease = Unset)

\* What is typed or clicked belongs to what is seen: the keyboard session is the one of the
\* expanded scene on the screen, and clicks count only while the expanded scene is open.
InputReachesView ==
  phase = "input" =>
    /\ InSession /\ rendered["expanded"] # None => keyboard = rendered["expanded"].key
    /\ actions_ready /\ rendered["expanded"] # None => mode = "expanded"

\* The activation of a session that lost the focus stays while its window is leaving and goes
\* with it, whether the window leaves at the end of its spring or because nothing is left to show.
ActivationIsReleased ==
  [][phase = "draw" /\ (visible \/ ~HasContent) =>
       visible' \/ ShouldPresent(presentation') \/ to_release' = NoKey]_vars

\* Keyboard focus holds an island that was called: whatever else happens, its consultation does
\* not end while the keyboard session that holds it goes on and something is on the screen.
SessionHolds ==
  [][/\ HasContent /\ presentation.consultation /\ presentation.held
     /\ InSession /\ modes.explicit /\ InSession' /\ modes.explicit'
     => presentation'.consultation]_vars

\* Once nobody points at it, types or asks for more, a hidden island disappears and stays away,
\* unless a standing presentation is on it.
HiddenAtRest ==
  <>[](/\ presentation.hidden /\ ~hovered /\ ~modes.explicit
       /\ \A slot \in Slots : rendered[slot].kind # "standing")
  => <>[](phase = "start" => ~visible)
================================================================================
