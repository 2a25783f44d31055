----------------------------- MODULE OverlayProofs ------------------------------
(* Proofs about the overlay, for every set of keys and contexts and every         *)
(* duration: what each operation of PresentationController keeps, then one step   *)
(* per action.                                                                    *)

EXTENDS Overlay, TLAPS

Waiting == Nat \cup {Unset}
AnySource == [version : Nat, left : Waiting]

AnyPresentation ==
  [hidden : BOOLEAN, held : BOOLEAN, consultation : BOOLEAN, lease : Waiting, source : AnySource,
   has_content : BOOLEAN, visible : BOOLEAN]

\* A consultation has a deadline exactly while nobody holds the island.
Timed(p) ==
  /\ p \in AnyPresentation
  /\ p.consultation => (p.held <=> p.lease = Unset)

--------------------------------------------------------------------------------
(* The operations of PresentationController.                                      *)

LEMMA Durations == Lease \in Waiting /\ Lease # Unset /\ RevealTime \in Waiting
  BY OverlayAssumption DEF Waiting, Unset

LEMMA NoSourceIsSource == NoSource \in AnySource
  BY DEF NoSource, AnySource, Waiting, Unset

LEMMA NewIsTimed ==
  ASSUME NEW hidden \in BOOLEAN
  PROVE  Timed(NewPresentation(hidden))
  BY NoSourceIsSource DEF NewPresentation, Timed, AnyPresentation, Waiting

\* Time goes by: a deadline stays one.
LEMMA LessKeepsUnset ==
  ASSUME NEW left \in Waiting, NEW time \in {0, 1}
  PROVE  Less(left, time) \in Waiting /\ (Less(left, time) = Unset <=> left = Unset)
  BY DEF Less, Waiting, Unset

LEMMA AgedIsTimed ==
  ASSUME NEW p, Timed(p), NEW time \in {0, 1}
  PROVE  Timed([p EXCEPT !.lease = Less(@, time), !.source.left = Less(@, time)])
<1>1. p.lease \in Waiting /\ p.source \in AnySource /\ p.source.left \in Waiting
  BY DEF Timed, AnyPresentation, AnySource
<1>2. [p.source EXCEPT !.left = Less(@, time)] \in AnySource
  BY <1>1, LessKeepsUnset DEF AnySource
<1> QED
  BY <1>1, <1>2, LessKeepsUnset DEF Timed, AnyPresentation

LEMMA PresentedIsBoolean ==
  ASSUME NEW p \in AnyPresentation
  PROVE  ShouldPresent(p) \in BOOLEAN
  BY DEF ShouldPresent

LEMMA ConsultIsTimed ==
  ASSUME NEW p, Timed(p)
  PROVE  Timed(Consult(p))
  BY Durations DEF Timed, AnyPresentation, Consult, Waiting

LEMMA HoldIsTimed ==
  ASSUME NEW p, Timed(p), NEW held \in BOOLEAN
  PROVE  Timed(Hold(p, held))
<1>1. CASE p.held = held
  BY <1>1 DEF Hold
<1>2. CASE p.held # held /\ held
  <2>1. Hold(p, held) = Held(p)
    BY <1>2 DEF Hold
  <2>2. (p.consultation \/ (p.hidden /\ ShouldPresent(p))) \in BOOLEAN
    BY PresentedIsBoolean DEF Timed, AnyPresentation
  <2> QED
    BY <2>1, <2>2 DEF Held, Timed, AnyPresentation, Waiting
<1>3. CASE p.held # held /\ ~held
  <2>1. Hold(p, held) = LetGo(p)
    BY <1>3 DEF Hold
  <2> QED
    BY <2>1, Durations DEF LetGo, Timed, AnyPresentation
<1> QED
  BY <1>1, <1>2, <1>3

LEMMA SetHiddenModeIsTimed ==
  ASSUME NEW p, Timed(p), NEW hidden \in BOOLEAN, NEW interacting
  PROVE  Timed(SetHiddenMode(p, hidden, interacting))
<1> DEFINE switched == [p EXCEPT !.hidden = hidden]
<1>1. Timed(switched)
  BY DEF Timed, AnyPresentation
<1>2. Timed(Consult(switched))
  BY <1>1, ConsultIsTimed
<1>3. Timed(Hold(Consult(switched), TRUE))
  BY <1>2, HoldIsTimed
<1> QED
  BY <1>1, <1>2, <1>3 DEF SetHiddenMode

LEMMA ClosedIsTimed ==
  ASSUME NEW p, Timed(p)
  PROVE  Timed(Closed(p))
  BY NoSourceIsSource DEF Timed, AnyPresentation, Closed, Waiting

LEMMA ExpiredIsTimed ==
  ASSUME NEW p, Timed(p)
  PROVE  Timed(Expired(p))
  BY NoSourceIsSource DEF Timed, AnyPresentation, Expired, Waiting, Unset

LEMMA UpdatedIsTimed ==
  ASSUME NEW p, Timed(p), NEW has_content \in BOOLEAN
  PROVE  Timed(Updated(p, has_content))
<1>1. CASE has_content
  <2>1. Timed([p EXCEPT !.has_content = TRUE])
    BY DEF Timed, AnyPresentation
  <2> QED
    BY <1>1, <2>1, ExpiredIsTimed DEF Updated
<1>2. CASE ~has_content
  BY <1>2, ClosedIsTimed DEF Updated, Timed, AnyPresentation
<1> QED
  BY <1>1, <1>2

LEMMA ReconciledIsTimed ==
  ASSUME NEW p, Timed(p), NEW selection
  PROVE  Timed(Reconciled(p, selection))
  BY NoSourceIsSource DEF Timed, AnyPresentation, Reconciled

\* What every frame renders with.
LEMMA CurrentIsTimed ==
  ASSUME Timed(presentation)
  PROVE  Timed(Current)
  BY UpdatedIsTimed, ReconciledIsTimed DEF Current, HasContent

--------------------------------------------------------------------------------
(* Consultations.                                                                 *)

\* The invariant that the steps keep; what a publication asks for may become the source.
PresentationInv ==
  /\ Timed(presentation)
  /\ accepted \in AnySource
  /\ hovered \in BOOLEAN
  /\ publications \in Nat

LEMMA AskedIsSource ==
  ASSUME accepted \in AnySource, NEW context, context.version \in Nat, NEW selection
  PROVE  Asked(context, selection) \in AnySource
<1>1. Unset \in Waiting
  BY DEF Waiting
<1> QED
  BY <1>1, Durations DEF Asked, AnySource

LEMMA CommandKeeps ==
  ASSUME PresentationInv, NEW p, Timed(p), NEW m, NEW c, NEW k, Command(p, m, c, k)
  PROVE  PresentationInv'
  BY DEF PresentationInv, Command, frame

LEMMA CommandsKeep ==
  ASSUME PresentationInv, Commands
  PROVE  PresentationInv'
<1> USE DEF PresentationInv
<1>1. CASE Open
  BY <1>1, ConsultIsTimed, CommandKeeps DEF Open
<1>2. CASE Close
  BY <1>2, ClosedIsTimed, CommandKeeps DEF Close
<1>3. CASE Toggle
  BY <1>3, ConsultIsTimed, ClosedIsTimed, CommandKeeps DEF Toggle, Open, Close
<1>4. CASE Collapse
  BY <1>4, CommandKeeps DEF Collapse
<1>5. CASE DismissCommand
  BY <1>5, CommandKeeps DEF DismissCommand
<1>6. ASSUME NEW hidden \in BOOLEAN, HiddenMode(hidden)
      PROVE  PresentationInv'
  BY <1>6, SetHiddenModeIsTimed, CommandKeeps DEF HiddenMode
<1>7. ASSUME NEW key \in Keys, Activate(key)
      PROVE  PresentationInv'
  BY <1>7, ConsultIsTimed, CommandKeeps DEF Activate
<1>8. ASSUME NEW key \in Keys, ActivateOpen(key)
      PROVE  PresentationInv'
  BY <1>8, ConsultIsTimed, CommandKeeps DEF ActivateOpen
<1> QED
  BY <1>1, <1>2, <1>3, <1>4, <1>5, <1>6, <1>7, <1>8 DEF Commands

LEMMA DrawKeeps ==
  ASSUME PresentationInv, NEW ready \in BOOLEAN, Draw(ready)
  PROVE  PresentationInv'
<1> DEFINE held == Hold(presentation, hovered \/ InSession)
           presented == ShouldPresent(held)
           leaves == Leaves(presented, Sprung(presented))
           shown(before) == ~leaves /\ (before \/ (presented /\ ~visible))
<1>1. Timed(held)
  BY HoldIsTimed DEF PresentationInv, InSession
<1>2. presentation' = [held EXCEPT !.visible = shown(@)]
  BY DEF Draw
<1>3. shown(held.visible) \in BOOLEAN
  OBVIOUS
<1> HIDE DEF held, shown
<1>4. Timed(presentation')
  BY <1>1, <1>2, <1>3 DEF Timed, AnyPresentation
<1>5. accepted' = NoSource /\ hovered' = FALSE /\ publications' = publications
  BY DEF Draw
<1> QED
  BY <1>4, <1>5, NoSourceIsSource DEF PresentationInv

LEMMA FrameKeeps ==
  ASSUME PresentationInv, Frame
  PROVE  PresentationInv'
<1> USE DEF PresentationInv
<1>1. ASSUME NEW time \in {0, 1}, Begin(time)
      PROVE  PresentationInv'
  BY <1>1, AgedIsTimed DEF Begin, world
<1>2. ASSUME NEW over \in BOOLEAN, Point(over)
      PROVE  PresentationInv'
  BY <1>2, HoldIsTimed DEF Point, InSession
<1>3. CASE RenderAccepted
  <2>1. Timed(Current)
    BY CurrentIsTimed
  <2>2. Timed([Current EXCEPT !.source = accepted])
    BY <2>1 DEF Timed, AnyPresentation
  <2> QED
    BY <1>3, <2>1, <2>2 DEF RenderAccepted, world
<1>4. CASE RenderNothing \/ RenderUnchanged \/ \E slot \in Slots : RenderRefused(slot)
  BY <1>4, CurrentIsTimed DEF RenderNothing, RenderUnchanged, RenderRefused, world
<1>5. ASSUME NEW taken \in BOOLEAN, TakeFocus(taken)
      PROVE  PresentationInv'
  BY <1>5 DEF TakeFocus, world, Timed, AnyPresentation
<1>6. CASE LoseFocus
  BY <1>6, HoldIsTimed DEF LoseFocus
<1>7. CASE GiveUpFocus \/ KeepFocus \/ NoInput
  BY <1>7 DEF GiveUpFocus, KeepFocus, NoInput, controllers, world
<1>8. CASE Escape \/ ClosingAction
  BY <1>8, ClosedIsTimed DEF Escape, ClosingAction
<1>9. ASSUME NEW ready \in BOOLEAN, Draw(ready)
      PROVE  PresentationInv'
  BY <1>9, DrawKeeps
<1> QED
  BY <1>1, <1>2, <1>3, <1>4, <1>5, <1>6, <1>7, <1>8, <1>9 DEF Frame

LEMMA PresentationIsInductive ==
  /\ Init => PresentationInv
  /\ PresentationInv /\ [Next]_vars => PresentationInv'
<1>1. Init => PresentationInv
  <2> SUFFICES ASSUME Init
               PROVE  PresentationInv
    OBVIOUS
  <2>1. Timed(presentation)
    BY NewIsTimed DEF Init
  <2>2. accepted \in AnySource /\ hovered \in BOOLEAN /\ publications \in Nat
    BY NoSourceIsSource DEF Init
  <2> QED
    BY <2>1, <2>2 DEF PresentationInv
<1>2. ASSUME PresentationInv, [Next]_vars
      PROVE  PresentationInv'
  <2>1. ASSUME NEW key \in Keys, NEW kind \in Kinds, Publish(key, kind)
        PROVE  PresentationInv'
    BY <1>2, <2>1, AskedIsSource DEF Publish, PresentationInv, controllers
  <2>2. ASSUME NEW key \in Keys, Withdraw(key)
        PROVE  PresentationInv'
    BY <1>2, <2>2 DEF Withdraw, PresentationInv, controllers
  <2>3. CASE Commands
    BY <1>2, <2>3, CommandsKeep
  <2>4. CASE Frame
    BY <1>2, <2>4, FrameKeeps
  <2>5. ASSUME NEW hidden \in BOOLEAN, NEW gone \in SUBSET DOMAIN contexts, Reload(hidden, gone)
        PROVE  PresentationInv'
    BY <1>2, <2>5, SetHiddenModeIsTimed DEF Reload, PresentationInv
  <2>6. CASE UNCHANGED vars
    BY <1>2, <2>6 DEF PresentationInv, vars, controllers, world, frame
  <2> QED
    BY <1>2, <2>1, <2>2, <2>3, <2>4, <2>5, <2>6 DEF Next, Modules
<1> QED
  BY <1>1, <1>2

\* In every reachable state a consultation has a deadline unless somebody holds the island,
\* and then has none: PresentationController (src/island.cpp) never leaves a consultation that
\* nobody holds and that never ends, whatever commands, reloads and keys come in between.
THEOREM ConsultationsAreTimed == Spec => []ConsultationTimed
<1>1. PresentationInv => ConsultationTimed
  BY DEF PresentationInv, Timed, ConsultationTimed
<1> QED
  BY <1>1, PresentationIsInductive, PTL DEF Spec

--------------------------------------------------------------------------------
(* What keyboard focus holds.                                                     *)

\* No operation but closing ends a consultation that is held: holding and letting go keep it,
\* changing the mode keeps or starts it, and time does not end what has no deadline.
LEMMA HoldKeepsConsultation ==
  ASSUME NEW p, Timed(p), p.consultation, NEW held \in BOOLEAN
  PROVE  Hold(p, held).consultation
<1>1. CASE p.held = held
  BY <1>1 DEF Hold
<1>2. CASE p.held # held /\ held
  BY <1>2 DEF Hold, Held, Timed, AnyPresentation
<1>3. CASE p.held # held /\ ~held
  BY <1>3 DEF Hold, LetGo, Timed, AnyPresentation
<1> QED
  BY <1>1, <1>2, <1>3

LEMMA ConsultStarts ==
  ASSUME NEW p, Timed(p)
  PROVE  Consult(p).consultation
  BY DEF Consult, Timed, AnyPresentation

LEMMA SetHiddenModeKeepsConsultation ==
  ASSUME NEW p, Timed(p), p.consultation, NEW hidden \in BOOLEAN, NEW interacting
  PROVE  SetHiddenMode(p, hidden, interacting).consultation
<1> DEFINE switched == [p EXCEPT !.hidden = hidden]
<1>1. Timed(switched) /\ switched.consultation
  BY DEF Timed, AnyPresentation
<1>2. Timed(Consult(switched)) /\ Consult(switched).consultation
  BY <1>1, ConsultIsTimed, ConsultStarts
<1>3. Hold(Consult(switched), TRUE).consultation
  BY <1>2, HoldKeepsConsultation
<1> QED
  BY <1>1, <1>2, <1>3 DEF SetHiddenMode

LEMMA CurrentKeepsConsultation ==
  ASSUME Timed(presentation), presentation.consultation, presentation.held, HasContent
  PROVE  Current.consultation
<1> DEFINE seen == [presentation EXCEPT !.has_content = TRUE]
<1>1. Timed(seen) /\ seen.consultation /\ seen.lease = Unset
  BY DEF Timed, AnyPresentation
<1> HIDE DEF seen
<1>2. Timed(Expired(seen))
  BY <1>1, ExpiredIsTimed
<1>3. Expired(seen).consultation
  <2>1. seen \in AnyPresentation /\ seen.lease # 0
    BY <1>1 DEF Timed, Unset
  <2> QED
    BY <1>1, <2>1 DEF Expired, AnyPresentation
<1>4. Updated(presentation, HasContent) = Expired(seen)
  BY DEF Updated, seen
<1> QED
  BY <1>2, <1>3, <1>4 DEF Current, Reconciled, Timed, AnyPresentation

Closes == ~InSession' \/ ~modes'.explicit

LEMMA CommandHolds ==
  ASSUME PresentationInv, presentation.consultation, Commands
  PROVE  presentation'.consultation \/ ~modes'.explicit
<1>1. Timed(presentation)
  BY DEF PresentationInv
<1>2. ~ClosedModes(modes).explicit
  BY DEF ClosedModes, Collapsed
<1>3. CASE Open
  BY <1>1, <1>3, ConsultStarts DEF Open, Command
<1>4. CASE Close
  BY <1>2, <1>4 DEF Close, Command
<1>5. CASE Toggle
  BY <1>3, <1>4, <1>5 DEF Toggle
<1>6. CASE Collapse \/ DismissCommand
  BY <1>6 DEF Collapse, DismissCommand, Command
<1>7. ASSUME NEW hidden \in BOOLEAN, HiddenMode(hidden)
      PROVE  presentation'.consultation
  BY <1>1, <1>7, SetHiddenModeKeepsConsultation DEF HiddenMode, Command
<1>8. ASSUME NEW key \in Keys, Activate(key) \/ ActivateOpen(key)
      PROVE  presentation'.consultation
  BY <1>1, <1>8, ConsultStarts DEF Activate, ActivateOpen, Command
<1> QED
  BY <1>3, <1>4, <1>5, <1>6, <1>7, <1>8 DEF Commands

LEMMA FrameHolds ==
  ASSUME PresentationInv, HasContent, presentation.consultation, presentation.held, Frame
  PROVE  presentation'.consultation \/ Closes
<1>1. Timed(presentation) /\ hovered \in BOOLEAN /\ Current.consultation /\ Timed(Current)
  BY CurrentKeepsConsultation, CurrentIsTimed DEF PresentationInv
<1>2. ~ClosedModes(modes).explicit
  BY DEF ClosedModes, Collapsed
<1>3. ASSUME NEW time \in {0, 1}, Begin(time)
      PROVE  presentation'.consultation
  BY <1>1, <1>3 DEF Begin, Timed, AnyPresentation
<1>4. ASSUME NEW over \in BOOLEAN, Point(over)
      PROVE  presentation'.consultation
  BY <1>1, <1>4, HoldKeepsConsultation DEF Point, InSession
<1>5. CASE RenderAccepted
  BY <1>1, <1>5 DEF RenderAccepted, Timed, AnyPresentation
<1>6. CASE RenderNothing \/ RenderUnchanged \/ \E slot \in Slots : RenderRefused(slot)
  BY <1>1, <1>6 DEF RenderNothing, RenderUnchanged, RenderRefused
<1>7. ASSUME NEW taken \in BOOLEAN, TakeFocus(taken)
      PROVE  presentation'.consultation
  BY <1>1, <1>7 DEF TakeFocus, Timed, AnyPresentation
<1>8. CASE LoseFocus
  BY <1>8 DEF LoseFocus, EndSession, Closes, InSession
<1>9. CASE GiveUpFocus \/ KeepFocus \/ NoInput
  BY <1>9 DEF GiveUpFocus, KeepFocus, NoInput, controllers
<1>10. CASE Escape \/ ClosingAction
  BY <1>2, <1>10 DEF Escape, ClosingAction, Closes
<1>11. ASSUME NEW ready \in BOOLEAN, Draw(ready)
       PROVE  presentation'.consultation
  <2> DEFINE held == Hold(presentation, hovered \/ InSession)
             presented == ShouldPresent(held)
             leaves == Leaves(presented, Sprung(presented))
             shown(before) == ~leaves /\ (before \/ (presented /\ ~visible))
  <2>1. Timed(held) /\ held.consultation
    BY <1>1, HoldIsTimed, HoldKeepsConsultation DEF InSession
  <2>2. presentation' = [held EXCEPT !.visible = shown(@)]
    BY <1>11 DEF Draw
  <2> HIDE DEF held, shown
  <2> QED
    BY <2>1, <2>2 DEF Timed, AnyPresentation
<1> QED
  BY <1>3, <1>4, <1>5, <1>6, <1>7, <1>8, <1>9, <1>10, <1>11 DEF Frame

\* Keyboard focus holds an island that was called: no step, neither a deadline nor a reload nor a
\* change of what is selected, ends its consultation while the keyboard session that holds it
\* goes on and something is on the screen (set_interaction_hold and update, src/island.cpp).
THEOREM SessionsHold == Spec => SessionHolds
<1>1. ASSUME PresentationInv, Next,
             HasContent, presentation.consultation, presentation.held,
             InSession', modes'.explicit
      PROVE  presentation'.consultation
  <2>1. Timed(presentation)
    BY <1>1 DEF PresentationInv
  <2>2. CASE Modules
    BY <1>1, <2>2 DEF Modules, Publish, Withdraw, controllers
  <2>3. CASE Commands
    BY <1>1, <2>3, CommandHolds
  <2>4. CASE Frame
    BY <1>1, <2>4, FrameHolds DEF Closes
  <2>5. ASSUME NEW hidden \in BOOLEAN, NEW gone \in SUBSET DOMAIN contexts, Reload(hidden, gone)
        PROVE  presentation'.consultation
    BY <1>1, <2>1, <2>5, SetHiddenModeKeepsConsultation DEF Reload
  <2> QED
    BY <1>1, <2>2, <2>3, <2>4, <2>5 DEF Next
<1>2. PresentationInv /\ [Next]_vars =>
        [/\ HasContent /\ presentation.consultation /\ presentation.held
         /\ InSession /\ modes.explicit /\ InSession' /\ modes.explicit'
         => presentation'.consultation]_vars
  BY <1>1
<1> QED
  BY <1>2, PresentationIsInductive, PTL DEF Spec, SessionHolds

--------------------------------------------------------------------------------
(* The activation of a session that lost the focus.                               *)

LEMMA DrawReleases ==
  ASSUME PresentationInv, NEW ready \in BOOLEAN, Draw(ready), visible \/ ~HasContent
  PROVE  visible' \/ ShouldPresent(presentation') \/ to_release' = NoKey
<1> DEFINE held == Hold(presentation, hovered \/ InSession)
           presented == ShouldPresent(held)
           spring == Sprung(presented)
           leaves == Leaves(presented, spring)
           shown(before) == ~leaves /\ (before \/ (presented /\ ~visible))
<1>1. Timed(held)
  BY HoldIsTimed DEF PresentationInv, InSession
<1>2. presentation' = [held EXCEPT !.visible = shown(@)]
  BY DEF Draw
<1>3. visible' = ((visible \/ presented) /\ ~leaves)
  BY DEF Draw
<1>4. Releases(presented, spring) => to_release' = NoKey
  BY DEF Draw
<1>5. ShouldPresent(presentation') = presented
  <2> HIDE DEF held, shown
  <2> QED
    BY <1>1, <1>2 DEF ShouldPresent, Timed, AnyPresentation
<1>6. CASE HasContent
  BY <1>3, <1>4, <1>6 DEF Releases
<1>7. CASE ~HasContent
  BY <1>4, <1>5, <1>7 DEF Releases
<1> QED
  BY <1>6, <1>7

\* A window that is gone at the end of a frame leaves no activation to release, whether it left
\* at the end of its spring or because nothing is left to show (Application::run's drawing).
THEOREM ActivationsAreReleased == Spec => ActivationIsReleased
<1>1. ASSUME PresentationInv, Next, phase = "draw", visible \/ ~HasContent
      PROVE  visible' \/ ShouldPresent(presentation') \/ to_release' = NoKey
  <2>1. ASSUME NEW p, NEW m, NEW c, NEW k, Command(p, m, c, k)
        PROVE  FALSE
    BY <1>1, <2>1 DEF Command
  <2>2. ~Commands
    BY <2>1 DEF Commands, Open, Close, Toggle, Collapse, DismissCommand, HiddenMode, Activate,
                ActivateOpen
  <2>3. ~Modules /\ \A hidden, gone : ~Reload(hidden, gone)
    BY <1>1 DEF Modules, Publish, Withdraw, Reload
  <2>4. PICK ready \in BOOLEAN : Draw(ready)
    BY <1>1, <2>2, <2>3 DEF Next, Frame, Begin, Point, RenderAccepted, RenderNothing,
                            RenderUnchanged, RenderRefused, TakeFocus, LoseFocus, GiveUpFocus,
                            KeepFocus, NoInput, Escape, ClosingAction
  <2> QED
    BY <1>1, <2>4, DrawReleases
<1>2. PresentationInv /\ [Next]_vars =>
        [phase = "draw" /\ (visible \/ ~HasContent) =>
           visible' \/ ShouldPresent(presentation') \/ to_release' = NoKey]_vars
  BY <1>1
<1> QED
  BY <1>2, PresentationIsInductive, PTL DEF Spec, ActivationIsReleased

--------------------------------------------------------------------------------
(* Keys and clicks.                                                               *)

\* Not only when input is read: between the phases, too.
ViewInv ==
  /\ InSession /\ rendered["expanded"] # None => keyboard = rendered["expanded"].key
  /\ actions_ready /\ rendered["expanded"] # None => mode = "expanded"

LEMMA ReplaceKeepsView ==
  ASSUME NEW selection, NEW preserve, NEW preserve_compact,
         Replace(selection, preserve, preserve_compact)
  PROVE  ViewInv'
  BY DEF Replace, ViewInv, InSession

\* What is typed goes to the scene of its keyboard session and a click counts only while the
\* expanded scene is open (send_action and the input part of Application::run).
THEOREM InputAlwaysReachesView == Spec => []InputReachesView
<1>1. Init => ViewInv
  BY DEF Init, ViewInv, InSession
<1>2. ViewInv /\ [Next]_vars => ViewInv'
  <2> SUFFICES ASSUME ViewInv, [Next]_vars
               PROVE  ViewInv'
    OBVIOUS
  <2> USE DEF ViewInv, InSession
  <2>1. CASE Modules
    <3>1. ASSUME NEW key \in Keys, NEW kind \in Kinds, Publish(key, kind)
          PROVE  ViewInv'
      BY <3>1 DEF Publish, scenes, session
    <3>2. ASSUME NEW key \in Keys, Withdraw(key)
          PROVE  ViewInv'
      BY <3>2 DEF Withdraw, scenes, session
    <3> QED
      BY <2>1, <3>1, <3>2 DEF Modules
  <2>2. CASE Commands
    <3>1. \A p, m, c, k : Command(p, m, c, k) => ViewInv'
      BY DEF Command, scenes, session
    <3> HIDE DEF ViewInv
    <3>2. CASE Open \/ Close \/ Toggle \/ Collapse \/ DismissCommand
      BY <3>1, <3>2 DEF Open, Close, Toggle, Collapse, DismissCommand
    <3>3. ASSUME NEW hidden \in BOOLEAN, HiddenMode(hidden)
          PROVE  ViewInv'
      BY <3>1, <3>3 DEF HiddenMode
    <3>4. ASSUME NEW key \in Keys, Activate(key) \/ ActivateOpen(key)
          PROVE  ViewInv'
      BY <3>1, <3>4 DEF Activate, ActivateOpen
    <3> QED
      BY <2>2, <3>2, <3>3, <3>4 DEF Commands
  <2>3. ASSUME NEW hidden \in BOOLEAN, NEW gone \in SUBSET DOMAIN contexts, Reload(hidden, gone)
        PROVE  ViewInv'
    <3>1. Empty["expanded"] = None
      BY DEF Empty, Slots
    <3> QED
      BY <2>3, <3>1, ReplaceKeepsView DEF Reload
  <2>4. CASE Frame
    <3>1. ASSUME NEW ready \in BOOLEAN, Draw(ready)
          PROVE  ViewInv'
      BY <3>1 DEF Draw
    <3>2. CASE RenderAccepted
      BY <3>2, ReplaceKeepsView DEF RenderAccepted
    <3>3. CASE RenderNothing
      BY <3>3 DEF RenderNothing, session, Empty, Slots
    <3>4. ASSUME NEW taken \in BOOLEAN, TakeFocus(taken)
          PROVE  ViewInv'
      BY <3>4 DEF TakeFocus, WantsFocus, scenes
    <3>5. CASE LoseFocus \/ GiveUpFocus \/ Escape
      BY <3>5 DEF LoseFocus, GiveUpFocus, Escape, EndSession, scenes
    <3>6. CASE \/ \E time \in {0, 1} : Begin(time)
               \/ \E over \in BOOLEAN : Point(over)
               \/ RenderUnchanged
      BY <3>6 DEF Begin, Point, RenderUnchanged, scenes, session
    <3>7. ASSUME NEW slot \in Slots, RenderRefused(slot)
          PROVE  ViewInv'
      BY <3>7 DEF RenderRefused, scenes, session
    <3>8. CASE KeepFocus \/ NoInput \/ ClosingAction
      BY <3>8 DEF KeepFocus, NoInput, ClosingAction, scenes, session
    <3> QED
      BY <2>4, <3>1, <3>2, <3>3, <3>4, <3>5, <3>6, <3>7, <3>8 DEF Frame
  <2>5. CASE UNCHANGED vars
    BY <2>5 DEF vars, scenes, session
  <2> QED
    BY <2>1, <2>2, <2>3, <2>4, <2>5 DEF Next
<1>3. ViewInv => InputReachesView
  BY DEF ViewInv, InputReachesView
<1> QED
  BY <1>1, <1>2, <1>3, PTL DEF Spec

================================================================================
