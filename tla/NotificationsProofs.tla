-------------------------- MODULE NotificationsProofs ---------------------------
(* Proofs about the notifications module, for every limit and every kind of      *)
(* notification.  First its panel: what each operation of the history does to it, *)
(* then one step per action.  Then its tables: what is live, and the history.    *)

EXTENDS Notifications, WellFoundedInduction, SequenceTheorems, FiniteSetTheorems, TLAPS

\* A history has these fields; what the panel needs of their types.
HistoryShape(x) ==
  x \in [records : {x.records}, next : {x.next}, sequences : {x.sequences}, count : Nat,
         hidden : {x.hidden}, session : {x.session}, expanded : BOOLEAN, opening : BOOLEAN,
         idle : BOOLEAN, published : BOOLEAN, shown : {x.shown}]

\* What is on the screen is what the module counts with.
Current(x) ==
  /\ x.published = (x.count > 0)
  /\ x.published => x.shown = Visible(x)

\* One of the timers runs while the panel is up; once it was seen, the second one.
Timed(x) ==
  /\ (x.count > 0) = (x.opening \/ x.idle)
  /\ x.expanded => x.idle

\* The inductive invariant.
PanelInv == HistoryShape(h) /\ Current(h) /\ (~stopped => Timed(h))

--------------------------------------------------------------------------------
(* The operations of the history.                                                *)

\* Two histories that differ in neither records nor what is hidden show the same.
SamePanel(x, y) ==
  /\ x.count = y.count /\ x.expanded = y.expanded /\ x.opening = y.opening /\ x.idle = y.idle
  /\ x.published = y.published /\ x.shown = y.shown

LEMMA UnmappedKeepsPanel ==
  ASSUME NEW x, HistoryShape(x), NEW id
  PROVE  /\ HistoryShape(Unmapped(x, id)) /\ SamePanel(Unmapped(x, id), x)
         /\ Visible(Unmapped(x, id)) = Visible(x)
<1>1. Unmapped(x, id) = [x EXCEPT !.sequences = Restrict(@, DOMAIN @ \ {id})]
  BY DEF Unmapped
<1>2. HistoryShape(Unmapped(x, id)) /\ SamePanel(Unmapped(x, id), x)
  BY <1>1 DEF HistoryShape, SamePanel
<1>3. Unmapped(x, id).records = x.records /\ Unmapped(x, id).hidden = x.hidden
  BY <1>1 DEF HistoryShape
<1> QED
  BY <1>2, <1>3 DEF SamePanel, Visible

LEMMA AddHistoryKeepsPanel ==
  ASSUME NEW x, HistoryShape(x), NEW id
  PROVE  HistoryShape(AddHistory(x, id)) /\ SamePanel(AddHistory(x, id), x)
<1>1. \E records, next, sequences :
        AddHistory(x, id) = [x EXCEPT !.records = records, !.next = next, !.sequences = sequences]
  BY DEF AddHistory
<1> QED
  BY <1>1 DEF HistoryShape, SamePanel

LEMMA RemoveHistoryKeepsPanel ==
  ASSUME NEW x, HistoryShape(x), NEW id
  PROVE  HistoryShape(RemoveHistory(x, id)) /\ SamePanel(RemoveHistory(x, id), x)
<1>1. CASE id \in DOMAIN x.sequences
  <2>1. \E records : RemoveHistory(x, id) = [Unmapped(x, id) EXCEPT !.records = records]
    BY <1>1 DEF RemoveHistory
  <2> QED
    BY <2>1, UnmappedKeepsPanel DEF HistoryShape, SamePanel
<1>2. CASE id \notin DOMAIN x.sequences
  BY <1>2 DEF RemoveHistory, SamePanel
<1> QED
  BY <1>1, <1>2

LEMMA PublishIsCurrent ==
  ASSUME NEW x, HistoryShape(x), x.count > 0
  PROVE  LET y == PublishHistory(x)
         IN  /\ HistoryShape(y) /\ Current(y) /\ y.count = x.count
             /\ y.expanded = x.expanded /\ y.opening = x.opening /\ y.idle = x.idle
             /\ y.records = x.records /\ y.hidden = x.hidden
<1> DEFINE y == PublishHistory(x)
<1>1. y = [x EXCEPT !.shown = Visible(x), !.published = TRUE]
  BY DEF PublishHistory
<1>2. /\ HistoryShape(y) /\ y.count = x.count /\ y.records = x.records /\ y.hidden = x.hidden
      /\ y.expanded = x.expanded /\ y.opening = x.opening /\ y.idle = x.idle
      /\ y.shown = Visible(x) /\ y.published = TRUE
  BY <1>1 DEF HistoryShape
<1>3. Visible(y) = Visible(x)
  BY <1>2 DEF Visible
<1> QED
  BY <1>2, <1>3 DEF Current

LEMMA ResetIsCurrent ==
  ASSUME NEW x, HistoryShape(x)
  PROVE  LET y == ResetHistory(x)
         IN  /\ HistoryShape(y) /\ Current(y) /\ y.count = 0 /\ y.expanded = FALSE
             /\ y.opening = x.opening /\ y.idle = x.idle
<1> DEFINE y == ResetHistory(x)
<1>1. /\ HistoryShape(y) /\ y.count = 0 /\ y.expanded = FALSE /\ y.published = FALSE
      /\ y.opening = x.opening /\ y.idle = x.idle
  BY DEF ResetHistory, HistoryShape
<1> HIDE DEF y
<1>2. (y.count > 0) = FALSE
  BY <1>1
<1>3. Current(y)
  BY <1>1, <1>2 DEF Current
<1> QED
  BY <1>1, <1>3 DEF y

LEMMA SilencedKeepsPanel ==
  ASSUME NEW x, HistoryShape(x)
  PROVE  LET y == Silenced(x)
         IN  /\ HistoryShape(y) /\ (Current(x) => Current(y))
             /\ y.count = x.count /\ y.opening = FALSE /\ y.idle = FALSE
<1> DEFINE y == Silenced(x)
<1>1. /\ HistoryShape(y) /\ y.count = x.count /\ y.opening = FALSE /\ y.idle = FALSE
      /\ y.published = x.published /\ y.shown = x.shown
      /\ y.records = x.records /\ y.hidden = x.hidden
  BY DEF Silenced, HistoryShape
<1>2. Visible(y) = Visible(x)
  BY <1>1 DEF Visible
<1> QED
  BY <1>1, <1>2 DEF Current

LEMMA CloseHistoryIsCurrent ==
  ASSUME NEW x, HistoryShape(x)
  PROVE  HistoryShape(CloseHistory(x)) /\ Current(CloseHistory(x)) /\ Timed(CloseHistory(x))
<1> DEFINE y == Silenced(x)
<1>1. HistoryShape(y) /\ y.opening = FALSE /\ y.idle = FALSE
  BY SilencedKeepsPanel
<1> HIDE DEF y
<1>2. /\ HistoryShape(ResetHistory(y)) /\ Current(ResetHistory(y))
      /\ ResetHistory(y).count = 0 /\ ResetHistory(y).expanded = FALSE
      /\ ResetHistory(y).opening = FALSE /\ ResetHistory(y).idle = FALSE
  BY <1>1, ResetIsCurrent
<1>3. Timed(ResetHistory(y))
  BY <1>2 DEF Timed
<1> QED
  BY <1>2, <1>3 DEF CloseHistory, y

\* A panel that keeps its entries and what is on the screen.
LEMMA SamePanelIsCurrent ==
  ASSUME NEW x, HistoryShape(x), Current(x), NEW y, HistoryShape(y),
         y.count = x.count, y.published = x.published, y.shown = x.shown,
         y.records = x.records, y.hidden = x.hidden
  PROVE  Current(y)
<1>1. Visible(y) = Visible(x)
  BY DEF Visible
<1> QED
  BY <1>1 DEF Current

--------------------------------------------------------------------------------
(* The steps.                                                                    *)

LEMMA CloseKeepsPanel ==
  ASSUME PanelInv, NEW id, Close(id), stopped' = stopped
  PROVE  PanelInv'
<1>1. h' = Unmapped(h, id)
  BY DEF Close
<1>2. HistoryShape(h') /\ SamePanel(h', h) /\ Visible(h') = Visible(h)
  BY <1>1, UnmappedKeepsPanel DEF PanelInv
<1> QED
  BY <1>2 DEF PanelInv, Current, Timed, SamePanel

LEMMA NotifyKeepsPanel == PanelInv /\ Notify => PanelInv'
<1> SUFFICES ASSUME PanelInv, Notify PROVE PanelInv'
  OBVIOUS
<1>1. PICK kind \in Kinds, replaces \in Ids \cup {0}, refused \in BOOLEAN :
        LET id    == IF replaces \in DOMAIN n.live THEN replaces ELSE Allocated(n)
            begun == NotifyBegins(id)
            kept  == Recorded(begun.h, id, kind)
        IN  IF refused THEN h' = begun.h
            ELSE h' = IF kept.count > 0 THEN PublishHistory(kept) ELSE kept
  BY Zenon DEF Notify
<1> DEFINE id    == IF replaces \in DOMAIN n.live THEN replaces ELSE Allocated(n)
           begun == NotifyBegins(id)
           kept  == Recorded(begun.h, id, kind)
<1>2. HistoryShape(begun.h) /\ SamePanel(begun.h, h) /\ Visible(begun.h) = Visible(h)
  BY UnmappedKeepsPanel DEF NotifyBegins, PanelInv, SamePanel
<1>3. HistoryShape(kept) /\ SamePanel(kept, h)
  BY <1>2, AddHistoryKeepsPanel, RemoveHistoryKeepsPanel DEF Recorded, SamePanel
<1>4. CASE refused
  BY <1>1, <1>2, <1>4 DEF PanelInv, Current, Timed, SamePanel, Notify
<1>5. CASE ~refused /\ kept.count > 0
  BY <1>1, <1>3, <1>5, PublishIsCurrent DEF PanelInv, Timed, SamePanel, Notify
<1>6. CASE ~refused /\ ~(kept.count > 0)
  BY <1>1, <1>3, <1>6 DEF PanelInv, Current, Timed, SamePanel, Notify
<1> QED
  BY <1>4, <1>5, <1>6

LEMMA ShowMoreKeepsPanel == PanelInv /\ ShowMore => PanelInv'
<1> SUFFICES ASSUME PanelInv, ShowMore PROVE PanelInv'
  OBVIOUS
<1> DEFINE x == IF h.count = 0 THEN [h EXCEPT !.session = @ + 1, !.hidden = {}] ELSE h
           more == Min({x.count + 1, VisibleLimit})
           y == PublishHistory([x EXCEPT !.count = more])
           z == [y EXCEPT !.expanded = @ \/ visibility = "expanded-active"]
<1>1. HistoryShape(x) /\ x.count = h.count /\ x.expanded = h.expanded
  BY DEF PanelInv, HistoryShape
<1>2. more \in Nat /\ more > 0
  BY <1>1, NotificationsAssumption DEF Min, HistoryShape
<1> HIDE DEF x, more
<1>3. HistoryShape([x EXCEPT !.count = more]) /\ [x EXCEPT !.count = more].count = more
  BY <1>1, <1>2 DEF HistoryShape
<1>4. HistoryShape(y) /\ Current(y) /\ y.count = more
  BY <1>2, <1>3, PublishIsCurrent
<1> HIDE DEF y
<1>5. /\ HistoryShape(z) /\ z.count = more /\ z.published = y.published /\ z.shown = y.shown
      /\ z.records = y.records /\ z.hidden = y.hidden
  BY <1>4 DEF HistoryShape
<1>6. h' = Awaited(z) /\ stopped' = stopped
  BY DEF ShowMore, x, y, more
<1> HIDE DEF z
<1>7. /\ HistoryShape(h') /\ h'.count = z.count /\ h'.published = z.published /\ h'.shown = z.shown
      /\ h'.records = z.records /\ h'.hidden = z.hidden /\ h'.expanded = z.expanded
      /\ (h'.opening \/ h'.idle) /\ (h'.expanded => h'.idle)
  BY <1>5, <1>6 DEF Awaited, HistoryShape
<1>8. Current(h')
  BY <1>4, <1>5, <1>7, SamePanelIsCurrent
<1> QED
  BY <1>2, <1>5, <1>6, <1>7, <1>8 DEF PanelInv, Timed

LEMMA HideKeepsPanel == PanelInv /\ Hide => PanelInv'
<1> SUFFICES ASSUME PanelInv, Hide PROVE PanelInv'
  OBVIOUS
<1>1. PICK r \in ToSet(Visible(h)) :
        h' = AfterHide([h EXCEPT !.hidden = @ \cup {r.seq}, !.count = @ - 1])
  BY DEF Hide
<1> DEFINE x == [h EXCEPT !.hidden = @ \cup {r.seq}, !.count = @ - 1]
<1>2. h.count \in Nat /\ h.count > 0 /\ HistoryShape(h) /\ stopped' = stopped
  BY DEF PanelInv, HistoryShape, Hide
<1>3. HistoryShape(x) /\ x.count \in Nat
  <2>1. h.count - 1 \in Nat
    BY <1>2
  <2> QED
    BY <1>2, <2>1 DEF HistoryShape
<1> HIDE DEF x
<1>4. h' = AfterHide(x)
  BY <1>1 DEF x
<1>5. CASE x.count = 0
  BY <1>2, <1>3, <1>4, <1>5, CloseHistoryIsCurrent DEF AfterHide, PanelInv
<1>6. CASE x.count # 0
  <2> DEFINE y == [x EXCEPT !.idle = TRUE]
  <2>1. HistoryShape(y) /\ y.count = x.count /\ y.idle = TRUE
    BY <1>3 DEF HistoryShape
  <2>2. h' = PublishHistory(y)
    BY <1>4, <1>6 DEF AfterHide
  <2> HIDE DEF y
  <2>3. y.count > 0
    BY <2>1, <1>3, <1>6
  <2> QED
    BY <1>2, <2>1, <2>2, <2>3, PublishIsCurrent DEF PanelInv, Timed
<1> QED
  BY <1>5, <1>6

LEMMA OpenTimeoutKeepsPanel == PanelInv /\ OpenTimeout => PanelInv'
<1> SUFFICES ASSUME PanelInv, OpenTimeout PROVE PanelInv'
  OBVIOUS
<1> DEFINE x == [h EXCEPT !.opening = FALSE]
<1>1. /\ HistoryShape(x) /\ x.count = h.count /\ x.published = h.published /\ x.shown = h.shown
      /\ x.records = h.records /\ x.hidden = h.hidden /\ x.expanded = h.expanded
      /\ x.opening = FALSE /\ x.idle = h.idle
  BY DEF PanelInv, HistoryShape
<1>2. Current(x)
  BY <1>1, SamePanelIsCurrent DEF PanelInv
<1>3. h' = (IF x.count > 0 /\ ~x.expanded THEN CloseHistory(x) ELSE x) /\ ~stopped /\ stopped' = stopped
  BY DEF OpenTimeout
<1> HIDE DEF x
<1>4. CASE x.count > 0 /\ ~x.expanded
  BY <1>1, <1>3, <1>4, CloseHistoryIsCurrent DEF PanelInv
<1>5. CASE ~(x.count > 0 /\ ~x.expanded)
  BY <1>1, <1>2, <1>3, <1>5 DEF PanelInv, Timed, HistoryShape
<1> QED
  BY <1>4, <1>5

LEMMA VisibilityKeepsPanel == PanelInv /\ Visibility => PanelInv'
<1> SUFFICES ASSUME PanelInv, Visibility PROVE PanelInv'
  OBVIOUS
<1>1. stopped' = stopped /\ ~stopped
  BY DEF Visibility
<1>2. CASE visibility' = "expanded-active" /\ h.count > 0
  <2>1. h' = [h EXCEPT !.opening = FALSE, !.expanded = TRUE, !.idle = TRUE]
    BY <1>2 DEF Visibility
  <2>2. /\ HistoryShape(h') /\ h'.count = h.count /\ h'.published = h.published /\ h'.shown = h.shown
        /\ h'.records = h.records /\ h'.hidden = h.hidden /\ h'.idle
    BY <2>1 DEF PanelInv, HistoryShape
  <2>3. Current(h')
    BY <2>2, SamePanelIsCurrent DEF PanelInv
  <2> QED
    BY <1>2, <2>2, <2>3 DEF PanelInv, Timed
<1>3. CASE visibility' = "hidden" /\ h.expanded
  <2>1. h' = ResetHistory(Silenced(h))
    BY <1>3 DEF Visibility
  <2> QED
    BY <2>1, CloseHistoryIsCurrent DEF CloseHistory, PanelInv
<1>4. CASE ~(visibility' = "expanded-active" /\ h.count > 0) /\ ~(visibility' = "hidden" /\ h.expanded)
  BY <1>1, <1>4 DEF Visibility, PanelInv
<1> QED
  BY <1>2, <1>3, <1>4

LEMMA ShutdownKeepsPanel == PanelInv /\ Shutdown => PanelInv'
  BY SilencedKeepsPanel DEF PanelInv, Shutdown

LEMMA PanelInvInitially == Init => PanelInv
<1> SUFFICES ASSUME Init PROVE PanelInv
  OBVIOUS
<1>1. PICK records \in Loaded :
        h = [records |-> records, next |-> Len(records) + 1, sequences |-> <<>>, count |-> 0,
             hidden |-> {}, session |-> 0, expanded |-> FALSE, opening |-> FALSE, idle |-> FALSE,
             published |-> FALSE, shown |-> <<>>]
  BY DEF Init
<1>2. HistoryShape(h) /\ h.count = 0 /\ ~h.published /\ ~h.expanded /\ ~h.opening /\ ~h.idle
  BY <1>1 DEF HistoryShape
<1>3. h.published = FALSE /\ (h.count > 0) = FALSE /\ (h.opening \/ h.idle) = FALSE
  BY <1>1, <1>2
<1>4. Current(h)
  BY <1>2, <1>3 DEF Current
<1>5. Timed(h)
  BY <1>2, <1>3 DEF Timed
<1> QED
  BY <1>2, <1>4, <1>5 DEF PanelInv

LEMMA PanelInvInductive == PanelInv /\ [Next]_vars => PanelInv'
<1> SUFFICES ASSUME PanelInv, [Next]_vars PROVE PanelInv'
  OBVIOUS
<1>1. CASE Notify
  BY <1>1, NotifyKeepsPanel
<1>2. CASE CloseNotification \/ Expire \/ Invoke
  BY <1>2, CloseKeepsPanel DEF CloseNotification, Expire, Invoke
<1>3. CASE ShowMore
  BY <1>3, ShowMoreKeepsPanel
<1>4. CASE Hide
  BY <1>4, HideKeepsPanel
<1>5. CASE CloseAll \/ IdleTimeout
  BY <1>5, CloseHistoryIsCurrent DEF CloseAll, IdleTimeout, PanelInv
<1>6. CASE Visibility
  BY <1>6, VisibilityKeepsPanel
<1>7. CASE OpenTimeout
  BY <1>7, OpenTimeoutKeepsPanel
<1>8. CASE Writes \/ UNCHANGED vars
  BY <1>8 DEF Writes, WriteEnds, WriteReported, vars, PanelInv
<1>9. CASE Shutdown
  BY <1>9, ShutdownKeepsPanel
<1> QED
  BY <1>1, <1>2, <1>3, <1>4, <1>5, <1>6, <1>7, <1>8, <1>9 DEF Next, Timeouts

(* The panel lists what the module takes clicks for, and one of its timers runs  *)
(* exactly while it is up: whichever of clicks, timers, visibility and            *)
(* notifications comes in which order (history_publication, close_history).       *)
THEOREM PanelIsAlwaysCurrent == Spec => []PanelIsCurrent
<1>1. PanelInv => PanelIsCurrent
  BY DEF PanelInv, PanelIsCurrent, Current, Timed
<1> QED
  BY <1>1, PanelInvInitially, PanelInvInductive, PTL DEF Spec
--------------------------------------------------------------------------------
(* Sequences without repetition, and taking one element out of them.             *)

\* The element at place p is taken out of seq.
LEMMA RemoveAtProperties ==
  ASSUME NEW S, NEW seq \in Seq(S), NEW p \in 1..Len(seq)
  PROVE  LET r == RemoveAt(seq, p)
         IN  /\ r \in Seq(S) /\ Len(r) = Len(seq) - 1
             /\ \A i \in 1..Len(seq) - 1 : r[i] = IF i < p THEN seq[i] ELSE seq[i + 1]
<1> DEFINE len == Len(seq)
           a == SubSeq(seq, 1, p - 1)
           b == SubSeq(seq, p + 1, len)
           r == RemoveAt(seq, p)
<1>1. len \in Nat /\ \A i \in 1..len : seq[i] \in S
  BY LenProperties, ElementOfSeq
<1>2. 1 \in Int /\ p - 1 \in Int /\ p + 1 \in Int /\ len \in Int
  BY <1>1
<1>3. a \in Seq(S) /\ Len(a) = p - 1 /\ \A i \in 1..p - 1 : a[i] = seq[i]
  <2>1. \A i \in 1..p - 1 : seq[i] \in S
    BY <1>1
  <2>2. /\ a \in Seq(S) /\ Len(a) = IF 1 <= p - 1 THEN p - 1 - 1 + 1 ELSE 0
        /\ \A i \in 1..p - 1 - 1 + 1 : a[i] = seq[1 + i - 1]
    BY <1>2, <2>1, SubSeqProperties
  <2>3. p - 1 - 1 + 1 = p - 1 /\ \A i \in 1..p - 1 : 1 + i - 1 = i
    OBVIOUS
  <2> HIDE DEF a
  <2> QED
    BY <1>1, <2>2, <2>3
<1>4. b \in Seq(S) /\ Len(b) = len - p /\ \A i \in 1..len - p : b[i] = seq[p + i]
  <2>1. \A i \in p + 1..len : seq[i] \in S
    BY <1>1
  <2>2. /\ b \in Seq(S) /\ Len(b) = IF p + 1 <= len THEN len - (p + 1) + 1 ELSE 0
        /\ \A i \in 1..len - (p + 1) + 1 : b[i] = seq[p + 1 + i - 1]
    BY <1>2, <2>1, SubSeqProperties
  <2>3. len - (p + 1) + 1 = len - p /\ \A i \in 1..len - p : p + 1 + i - 1 = p + i
    BY <1>1
  <2> HIDE DEF b
  <2>4. (IF p + 1 <= len THEN len - p ELSE 0) = len - p
    BY <1>1
  <2>5. Len(b) = len - p
    BY <2>2, <2>3, <2>4
  <2>6. \A i \in 1..len - p : b[i] = seq[p + 1 + i - 1]
    BY <2>2, <2>3
  <2> QED
    BY <2>2, <2>3, <2>5, <2>6
<1> HIDE DEF a, b
<1>5. /\ a \o b \in Seq(S) /\ Len(a \o b) = len - 1
      /\ \A i \in 1..len - 1 :
            (a \o b)[i] = IF i <= p - 1 THEN a[i] ELSE b[i - (p - 1)]
  <2>1. /\ a \o b \in Seq(S) /\ Len(a \o b) = Len(a) + Len(b)
        /\ \A i \in 1..Len(a) + Len(b) :
              (a \o b)[i] = IF i <= Len(a) THEN a[i] ELSE b[i - Len(a)]
    BY <1>3, <1>4, ConcatProperties
  <2>2. Len(a) + Len(b) = len - 1
    BY <1>1, <1>3, <1>4
  <2>3. Len(a) = p - 1
    BY <1>3
  <2> QED
    BY <2>1, <2>2, <2>3
<1>7. \A i \in 1..len - 1 : (a \o b)[i] = IF i < p THEN seq[i] ELSE seq[i + 1]
  <2> TAKE i \in 1..len - 1
  <2>1. CASE i < p
    <3>1. i <= p - 1 /\ i \in 1..p - 1
      BY <1>1, <2>1
    <3> QED
      BY <1>3, <1>5, <2>1, <3>1
  <2>2. CASE ~(i < p)
    <3>1. ~(i <= p - 1) /\ i - (p - 1) \in 1..len - p /\ p + (i - (p - 1)) = i + 1
      BY <1>1, <2>2
    <3>2. (a \o b)[i] = b[i - (p - 1)]
      BY <1>5, <3>1
    <3> QED
      BY <1>4, <2>2, <3>1, <3>2
  <2> QED
    BY <2>1, <2>2
<1>8. r = a \o b
  BY DEF RemoveAt, a, b
<1> HIDE DEF r
<1> QED
  BY <1>5, <1>7, <1>8 DEF r

\* What is left, and in what places, when the only element to go is at place p.
Taken(r, seq, p) ==
  /\ Len(r) = Len(seq) - 1
  /\ \A i \in 1..Len(r) : \E j \in 1..Len(seq) : j # p /\ r[i] = seq[j]
  /\ \A j \in 1..Len(seq) : j # p => \E i \in 1..Len(r) : r[i] = seq[j]
  /\ \A i, j \in 1..Len(r) : i # j => \E k, l \in 1..Len(seq) :
        k # l /\ r[i] = seq[k] /\ r[j] = seq[l]

LEMMA RemoveAtTakes ==
  ASSUME NEW S, NEW seq \in Seq(S), NEW p \in 1..Len(seq)
  PROVE  RemoveAt(seq, p) \in Seq(S) /\ Taken(RemoveAt(seq, p), seq, p)
<1> DEFINE len == Len(seq)
           at(i) == IF i < p THEN i ELSE i + 1
<1>1. len \in Nat
  BY LenProperties
<1>2. PICK r : r = RemoveAt(seq, p)
  OBVIOUS
<1>3. r \in Seq(S) /\ Len(r) = len - 1 /\ \A i \in 1..len - 1 : r[i] = seq[at(i)]
  BY <1>2, RemoveAtProperties
<1>4. \A i \in 1..len - 1 : at(i) \in 1..len /\ at(i) # p
  BY <1>1
<1>5. \A i, j \in 1..len - 1 : i # j => at(i) # at(j)
  BY <1>1
<1>6. \A j \in 1..len : j # p => \E i \in 1..len - 1 : at(i) = j
  <2> SUFFICES ASSUME NEW j \in 1..len, j # p PROVE \E i \in 1..len - 1 : at(i) = j
    OBVIOUS
  <2>1. CASE j < p
    <3>1. j \in 1..len - 1 /\ at(j) = j
      BY <1>1, <2>1
    <3> QED
      BY <3>1
  <2>2. CASE ~(j < p)
    <3>1. j - 1 \in 1..len - 1 /\ at(j - 1) = j
      BY <1>1, <2>2
    <3> QED
      BY <3>1
  <2> QED
    BY <2>1, <2>2
<1> HIDE DEF at
<1>7. \A i \in 1..len - 1 : \E j \in 1..len : j # p /\ r[i] = seq[j]
  BY <1>3, <1>4
<1>8. \A j \in 1..len : j # p => \E i \in 1..len - 1 : r[i] = seq[j]
  BY <1>3, <1>6
<1>9. \A i, j \in 1..len - 1 : i # j => \E k, l \in 1..len : k # l /\ r[i] = seq[k] /\ r[j] = seq[l]
  BY <1>3, <1>4, <1>5
<1> QED
  <2>1. Len(r) = len - 1
    BY <1>3
  <2>2. 1..Len(r) = 1..len - 1
    BY <2>1
  <2>3. Taken(r, seq, p)
    <3>1. \A i \in 1..Len(r) : \E j \in 1..len : j # p /\ r[i] = seq[j]
      BY <1>7, <2>2
    <3>2. \A j \in 1..len : j # p => \E i \in 1..Len(r) : r[i] = seq[j]
      BY <1>8, <2>2
    <3>3. \A i, j \in 1..Len(r) : i # j =>
             \E k, l \in 1..len : k # l /\ r[i] = seq[k] /\ r[j] = seq[l]
      <4> TAKE i, j \in 1..Len(r)
      <4>1. i \in 1..len - 1 /\ j \in 1..len - 1
        BY <2>2
      <4> QED
        BY <1>9, <4>1, Zenon
    <3> QED
      BY <2>1, <3>1, <3>2, <3>3, Zenon DEF Taken
  <2> QED
    BY <1>2, <1>3, <2>3

LEMMA MinOfOne ==
  ASSUME NEW p \in Nat
  PROVE  Min({p}) = p
  BY DEF Min

\* The order of eviction without id.
LEMMA OrderWithout ==
  ASSUME NEW order \in Seq(Ids), IsInjective(order), NEW id \in ToSet(order)
  PROVE  LET r == RemoveFirst(order, id)
         IN  /\ r \in Seq(Ids) /\ IsInjective(r)
             /\ ToSet(r) = ToSet(order) \ {id}
<1>1. Len(order) \in Nat /\ DOMAIN order = 1..Len(order)
  BY LenProperties
<1>2. PICK p \in 1..Len(order) : order[p] = id
  BY <1>1 DEF ToSet
<1>3. {i \in 1..Len(order) : order[i] = id} = {p}
  BY <1>1, <1>2 DEF IsInjective
<1>4. RemoveFirst(order, id) = RemoveAt(order, p)
  BY <1>2, <1>3, MinOfOne DEF RemoveFirst, SelectInSeq
<1>5. PICK r : r = RemoveAt(order, p)
  OBVIOUS
<1>6. r \in Seq(Ids) /\ Taken(r, order, p)
  BY <1>5, RemoveAtTakes
<1>7. DOMAIN r = 1..Len(r)
  BY <1>6, LenProperties
<1>8. IsInjective(r)
  <2> SUFFICES ASSUME NEW i \in 1..Len(r), NEW j \in 1..Len(r), i # j, r[i] = r[j] PROVE FALSE
    BY <1>7 DEF IsInjective
  <2>1. PICK k \in 1..Len(order), l \in 1..Len(order) : k # l /\ r[i] = order[k] /\ r[j] = order[l]
    BY <1>6 DEF Taken
  <2> QED
    BY <1>1, <2>1 DEF IsInjective
<1>9. ToSet(r) = ToSet(order) \ {id}
  <2>1. ASSUME NEW i \in 1..Len(r) PROVE r[i] \in ToSet(order) \ {id}
    <3>1. PICK j \in 1..Len(order) : j # p /\ r[i] = order[j]
      BY <1>6 DEF Taken
    <3> QED
      BY <1>1, <1>3, <3>1 DEF ToSet
  <2>2. ASSUME NEW x \in ToSet(order) \ {id} PROVE x \in ToSet(r)
    <3>1. PICK j \in 1..Len(order) : order[j] = x /\ j # p
      BY <1>1, <1>2 DEF ToSet
    <3>2. PICK i \in 1..Len(r) : r[i] = order[j]
      BY <1>6, <3>1 DEF Taken
    <3> QED
      BY <1>7, <3>1, <3>2 DEF ToSet
  <2>3. ToSet(r) \subseteq ToSet(order) \ {id}
    BY <1>7, <2>1 DEF ToSet
  <2> QED
    BY <2>2, <2>3
<1> QED
  BY <1>4, <1>5, <1>6, <1>8, <1>9
\* The order of eviction with one more at its end.
LEMMA OrderWith ==
  ASSUME NEW order \in Seq(Ids), IsInjective(order), NEW id \in Ids, id \notin ToSet(order)
  PROVE  LET r == Append(order, id)
         IN  /\ r \in Seq(Ids) /\ IsInjective(r)
             /\ ToSet(r) = ToSet(order) \cup {id}
<1> DEFINE r == Append(order, id)
           len == Len(order)
<1>1. len \in Nat /\ DOMAIN order = 1..len
  BY LenProperties
<1>2. /\ r \in Seq(Ids) /\ Len(r) = len + 1 /\ \A i \in 1..len : r[i] = order[i]
      /\ r[len + 1] = id
  BY AppendProperties
<1>3. DOMAIN r = 1..len + 1
  BY <1>2, LenProperties
<1> HIDE DEF r
<1>4. \A i \in 1..len : order[i] # id
  BY <1>1 DEF ToSet
<1>5. IsInjective(r)
  <2> SUFFICES ASSUME NEW i \in 1..len + 1, NEW j \in 1..len + 1, r[i] = r[j] PROVE i = j
    BY <1>3 DEF IsInjective
  <2>1. CASE i \in 1..len /\ j \in 1..len
    BY <1>1, <1>2, <2>1 DEF IsInjective
  <2>2. CASE ~(i \in 1..len /\ j \in 1..len)
    BY <1>1, <1>2, <1>4, <2>2
  <2> QED
    BY <2>1, <2>2
<1>6. ToSet(r) = ToSet(order) \cup {id}
  <2>1. ASSUME NEW i \in 1..len + 1 PROVE r[i] \in ToSet(order) \cup {id}
    BY <1>1, <1>2 DEF ToSet
  <2>2. ASSUME NEW x \in ToSet(order) \cup {id} PROVE \E i \in 1..len + 1 : r[i] = x
    <3>1. CASE x \in ToSet(order)
      <4>1. PICK i \in 1..len : order[i] = x
        BY <1>1, <3>1 DEF ToSet
      <4>2. i \in 1..len + 1 /\ r[i] = x
        BY <1>1, <1>2, <4>1
      <4> QED
        BY <4>2
    <3>2. CASE x = id
      <4>1. len + 1 \in 1..len + 1
        BY <1>1
      <4> QED
        BY <1>2, <3>2, <4>1
    <3> QED
      BY <3>1, <3>2
  <2> QED
    BY <1>3, <2>1, <2>2 DEF ToSet
<1> QED
  BY <1>2, <1>5, <1>6 DEF r

LEMMA RestrictIs ==
  ASSUME NEW f, NEW S
  PROVE  DOMAIN Restrict(f, S) = S /\ \A x \in S : Restrict(f, S)[x] = f[x]
  BY DEF Restrict

LEMMA LeastPlace ==
  ASSUME NEW T \in SUBSET Nat, T # {}
  PROVE  \E least \in T : \A d \in T : least <= d
<1> DEFINE R == OpToRel(<, Nat)
<1>1. IsWellFoundedOn(R, Nat)
  BY NatLessThanWellFounded
<1>2. \A c, d \in Nat : c < d => <<c, d>> \in R
  BY DEF OpToRel
<1> HIDE DEF R
<1>3. PICK least \in T : \A d \in T : <<d, least>> \notin R
  BY <1>1, WFMin
<1>4. \A d \in T : ~(d < least)
  BY <1>2, <1>3
<1> QED
  BY <1>4

--------------------------------------------------------------------------------
(* What is live.                                                                 *)

\* The tables of live notifications agree.
LiveGood(x) ==
  /\ x \in [live : {x.live}, order : Seq(Ids), next : Ids, timers : {x.timers},
            contexts : {x.contexts}, held : {x.held}]
  /\ DOMAIN x.live \subseteq Ids /\ x.live \in [DOMAIN x.live -> Kinds]
  /\ ToSet(x.order) = DOMAIN x.live /\ IsInjective(x.order)
  /\ x.contexts = DOMAIN x.live /\ x.held = DOMAIN x.live
  /\ Cardinality(DOMAIN x.live) <= MaxLive

\* A timer runs for each that asked for one, and for no other.
Timing(x) == x.timers = {id \in DOMAIN x.live : x.live[id].timed}

LEMMA SomeAreLive ==
  ASSUME NEW ids \in SUBSET Ids
  PROVE  IsFiniteSet(ids) /\ Cardinality(ids) \in Nat /\ Cardinality(Ids) = MaxId
<1>1. MaxId \in Nat \ {0}
  BY NotificationsAssumption
<1>2. IsFiniteSet(Ids) /\ Cardinality(Ids) = MaxId
  BY <1>1, FS_Interval DEF Ids
<1> QED
  BY <1>2, FS_Subset, FS_CardinalityType

\* allocate_id finds an id that is free: there are more ids than notifications.
LEMMA AllocatedIsFree ==
  ASSUME NEW x, LiveGood(x)
  PROVE  Allocated(x) \in Ids /\ Allocated(x) \notin DOMAIN x.live
<1> DEFINE free(d) == Candidate(x, d) \notin DOMAIN x.live
           T == {d \in 0..MaxId - 1 : free(d)}
<1>1. MaxId \in Nat \ {0} /\ MaxLive \in Nat /\ MaxLive < MaxId /\ x.next \in 1..MaxId
  BY NotificationsAssumption DEF LiveGood, Ids
<1>2. PICK id \in Ids : id \notin DOMAIN x.live
  <2>1. Cardinality(DOMAIN x.live) \in Nat /\ Cardinality(Ids) = MaxId
    BY SomeAreLive DEF LiveGood
  <2>2. Cardinality(DOMAIN x.live) # Cardinality(Ids)
    BY <1>1, <2>1 DEF LiveGood
  <2> QED
    BY <2>2 DEF LiveGood
<1>3. \A d \in 0..MaxId - 1 : Candidate(x, d) \in Ids
  BY <1>1 DEF Candidate, Ids
<1>4. T # {}
  <2>1. CASE id >= x.next
    <3>1. id - x.next \in 0..MaxId - 1 /\ Candidate(x, id - x.next) = id
      BY <1>1, <2>1 DEF Candidate, Ids
    <3> QED
      BY <1>2, <3>1
  <2>2. CASE ~(id >= x.next)
    <3>1. id - x.next + MaxId \in 0..MaxId - 1 /\ Candidate(x, id - x.next + MaxId) = id
      BY <1>1, <2>2 DEF Candidate, Ids
    <3> QED
      BY <1>2, <3>1
  <2> QED
    BY <2>1, <2>2
<1>5. T \in SUBSET Nat
  BY <1>1
<1>6. PICK d \in T : \A e \in T : d <= e
  BY <1>4, <1>5, LeastPlace
<1>7. \A e \in 0..d - 1 : Candidate(x, e) \in DOMAIN x.live
  <2> SUFFICES ASSUME NEW e \in 0..d - 1, free(e) PROVE FALSE
    OBVIOUS
  <2>1. e \in T
    BY <1>1, <1>6
  <2> QED
    BY <1>5, <1>6, <2>1
<1> DEFINE P(c) == Candidate(x, c) \notin DOMAIN x.live /\ \A e \in 0..c - 1 : Candidate(x, e) \in DOMAIN x.live
           chosen == CHOOSE c \in 0..MaxId - 1 : P(c)
<1>8. d \in 0..MaxId - 1 /\ P(d)
  BY <1>6, <1>7
<1> HIDE DEF P
<1>9. chosen \in 0..MaxId - 1 /\ P(chosen)
  BY <1>8
<1>10. Allocated(x) = Candidate(x, chosen)
  BY DEF Allocated, P
<1> HIDE DEF chosen
<1> QED
  BY <1>3, <1>9, <1>10 DEF P

\* close_notification.
LEMMA ClosedIsGood ==
  ASSUME NEW x, LiveGood(x), NEW id \in DOMAIN x.live
  PROVE  LET y == Closed(x, id)
         IN  /\ LiveGood(y) /\ (Timing(x) => Timing(y)) /\ y.next = x.next
             /\ DOMAIN y.live = DOMAIN x.live \ {id}
             /\ \A i \in DOMAIN y.live : y.live[i] = x.live[i]
             /\ Cardinality(DOMAIN y.live) = Cardinality(DOMAIN x.live) - 1
<1> DEFINE y == Closed(x, id)
           order == RemoveFirst(x.order, id)
<1>1. /\ y.live = Restrict(x.live, DOMAIN x.live \ {id}) /\ y.order = order /\ y.next = x.next
      /\ y.timers = x.timers \ {id} /\ y.contexts = x.contexts \ {id} /\ y.held = x.held \ {id}
      /\ y \in [live : {y.live}, order : {y.order}, next : {y.next}, timers : {y.timers},
                contexts : {y.contexts}, held : {y.held}]
  BY DEF Closed, LiveGood
<1>2. order \in Seq(Ids) /\ IsInjective(order) /\ ToSet(order) = DOMAIN x.live \ {id}
  BY OrderWithout DEF LiveGood
<1> HIDE DEF y, order
<1>3. /\ DOMAIN y.live = DOMAIN x.live \ {id} /\ \A i \in DOMAIN y.live : y.live[i] = x.live[i]
      /\ y.live \in [DOMAIN y.live -> Kinds]
  BY <1>1 DEF Restrict, LiveGood
<1>4. Cardinality(DOMAIN y.live) = Cardinality(DOMAIN x.live) - 1
  <2>1. IsFiniteSet(DOMAIN x.live)
    BY SomeAreLive DEF LiveGood
  <2> QED
    BY <1>3, <2>1, FS_RemoveElement
<1>5. Cardinality(DOMAIN y.live) <= MaxLive
  <2>1. Cardinality(DOMAIN x.live) \in Nat /\ Cardinality(DOMAIN x.live) <= MaxLive /\ MaxLive \in Nat
    BY SomeAreLive, NotificationsAssumption DEF LiveGood
  <2> QED
    BY <1>4, <2>1
<1>6. x.next \in Ids /\ DOMAIN x.live \subseteq Ids /\ x.contexts = DOMAIN x.live /\ x.held = DOMAIN x.live
  BY DEF LiveGood
<1>7. y \in [live : {y.live}, order : Seq(Ids), next : Ids, timers : {y.timers},
            contexts : {y.contexts}, held : {y.held}]
  BY <1>1, <1>2, <1>6
<1>8. LiveGood(y)
  BY <1>1, <1>2, <1>3, <1>5, <1>6, <1>7 DEF LiveGood
<1>9. Timing(x) => Timing(y)
  BY <1>1, <1>3 DEF Timing
<1> QED
  BY <1>1, <1>3, <1>4, <1>8, <1>9 DEF y

\* What notify adds, or replaces.
LEMMA ShownIsGood ==
  ASSUME NEW x, LiveGood(x), Timing(x), NEW id \in Ids, NEW kind \in Kinds,
         id \notin DOMAIN x.live => Cardinality(DOMAIN x.live) < MaxLive
  PROVE  LET y == Shown(x, id, kind)
         IN  /\ LiveGood(y) /\ Timing(y)
             /\ DOMAIN y.live = DOMAIN x.live \cup {id}
             /\ y.live[id] = kind /\ \A i \in DOMAIN x.live \ {id} : y.live[i] = x.live[i]
<1> DEFINE y == Shown(x, id, kind)
<1>1. /\ y.live = [i \in DOMAIN x.live \cup {id} |-> IF i = id THEN kind ELSE x.live[i]]
      /\ y.order = (IF id \in DOMAIN x.live THEN x.order ELSE Append(x.order, id)) /\ y.next = x.next
      /\ y.timers = Timers(x, id, kind) /\ y.contexts = x.contexts \cup {id} /\ y.held = x.held \cup {id}
      /\ y \in [live : {y.live}, order : {y.order}, next : {y.next}, timers : {y.timers},
                contexts : {y.contexts}, held : {y.held}]
  BY DEF Shown, LiveGood
<1> HIDE DEF y
<1>2. /\ x.order \in Seq(Ids) /\ IsInjective(x.order) /\ ToSet(x.order) = DOMAIN x.live
      /\ x.next \in Ids /\ DOMAIN x.live \subseteq Ids /\ x.contexts = DOMAIN x.live
      /\ x.held = DOMAIN x.live /\ x.live \in [DOMAIN x.live -> Kinds]
  BY DEF LiveGood
<1>3. y.order \in Seq(Ids) /\ IsInjective(y.order) /\ ToSet(y.order) = DOMAIN x.live \cup {id}
  <2>1. CASE id \in DOMAIN x.live
    <3>1. y.order = x.order /\ DOMAIN x.live \cup {id} = DOMAIN x.live
      BY <1>1, <2>1
    <3> QED
      BY <1>2, <3>1
  <2>2. CASE id \notin DOMAIN x.live
    BY <1>1, <1>2, <2>2, OrderWith
  <2> QED
    BY <2>1, <2>2
<1>4. /\ DOMAIN y.live = DOMAIN x.live \cup {id} /\ y.live \in [DOMAIN y.live -> Kinds]
      /\ y.live[id] = kind /\ \A i \in DOMAIN x.live \ {id} : y.live[i] = x.live[i]
  BY <1>1, <1>2
<1>5. Cardinality(DOMAIN y.live) <= MaxLive
  <2>1. IsFiniteSet(DOMAIN x.live) /\ Cardinality(DOMAIN x.live) \in Nat /\ MaxLive \in Nat
    BY <1>2, SomeAreLive, NotificationsAssumption
  <2>2. Cardinality(DOMAIN y.live) =
          IF id \in DOMAIN x.live THEN Cardinality(DOMAIN x.live) ELSE Cardinality(DOMAIN x.live) + 1
    BY <1>4, <2>1, FS_AddElement
  <2>3. Cardinality(DOMAIN x.live) <= MaxLive
    BY DEF LiveGood
  <2> QED
    BY <2>1, <2>2, <2>3
<1>6. y \in [live : {y.live}, order : Seq(Ids), next : Ids, timers : {y.timers},
            contexts : {y.contexts}, held : {y.held}]
  BY <1>1, <1>2, <1>3
<1>7. LiveGood(y)
  BY <1>1, <1>2, <1>3, <1>4, <1>5, <1>6 DEF LiveGood
<1>8. Timing(y)
  BY <1>1, <1>4 DEF Timing, Timers
<1> QED
  BY <1>4, <1>7, <1>8 DEF y

LEMMA NextIsGood ==
  ASSUME NEW x, LiveGood(x), NEW next \in Ids
  PROVE  LET y == [x EXCEPT !.next = next]
         IN  LiveGood(y) /\ (Timing(x) => Timing(y)) /\ y.live = x.live /\ y.order = x.order
<1> DEFINE y == [x EXCEPT !.next = next]
<1>1. /\ y \in [live : {y.live}, order : Seq(Ids), next : Ids, timers : {y.timers},
               contexts : {y.contexts}, held : {y.held}]
      /\ y.live = x.live /\ y.order = x.order /\ y.timers = x.timers /\ y.contexts = x.contexts
      /\ y.held = x.held
  BY DEF LiveGood
<1> HIDE DEF y
<1>2. LiveGood(y) /\ (Timing(x) => Timing(y))
  BY <1>1 DEF LiveGood, Timing
<1> QED
  BY <1>1, <1>2 DEF y

LEMMA AfterIsId ==
  ASSUME NEW id \in Ids
  PROVE  After(id) \in Ids
  BY NotificationsAssumption DEF After, Ids

--------------------------------------------------------------------------------
(* The history: records of different sequences, and what is tied to them.        *)

Entry == [seq : Nat, id : Ids]

HistoryGood(x) ==
  /\ HistoryShape(x) /\ x.records \in Seq(Entry) /\ x.next \in Nat
  /\ \A i, j \in 1..Len(x.records) : i # j => x.records[i].seq # x.records[j].seq
  /\ \A i \in 1..Len(x.records) : x.records[i].seq < x.next

\* What is tied to a record is in K and the record is its own.
TiedTo(records, sequences, K) ==
  \A id \in DOMAIN sequences :
    /\ id \in K
    /\ \E i \in 1..Len(records) : records[i].id = id /\ records[i].seq = sequences[id]
Tied(x, K) == TiedTo(x.records, x.sequences, K)

LEMMA UnmappedIsTied ==
  ASSUME NEW x, HistoryGood(x), NEW K, Tied(x, K), NEW id
  PROVE  HistoryGood(Unmapped(x, id)) /\ Tied(Unmapped(x, id), K \ {id})
<1> DEFINE y == Unmapped(x, id)
<1>1. HistoryShape(x)
  BY DEF HistoryGood
<1>2. /\ HistoryShape(y) /\ y.records = x.records /\ y.next = x.next
      /\ y.sequences = Restrict(x.sequences, DOMAIN x.sequences \ {id})
  BY <1>1 DEF Unmapped, HistoryShape
<1> HIDE DEF y
<1>3. HistoryGood(y)
  BY <1>2 DEF HistoryGood
<1>4. /\ DOMAIN y.sequences = DOMAIN x.sequences \ {id}
      /\ \A i \in DOMAIN y.sequences : y.sequences[i] = x.sequences[i]
  <2>1. PICK kept : kept = Restrict(x.sequences, DOMAIN x.sequences \ {id})
    OBVIOUS
  <2>2. /\ DOMAIN kept = DOMAIN x.sequences \ {id}
        /\ \A i \in DOMAIN x.sequences \ {id} : kept[i] = x.sequences[i]
    BY <2>1, RestrictIs
  <2> QED
    BY <1>2, <2>1, <2>2
<1>5. Tied(y, K \ {id})
  <2> SUFFICES ASSUME NEW i \in DOMAIN y.sequences
               PROVE  /\ i \in K \ {id}
                      /\ \E j \in 1..Len(y.records) :
                           y.records[j].id = i /\ y.records[j].seq = y.sequences[i]
    BY Zenon DEF Tied, TiedTo
  <2>1. i \in DOMAIN x.sequences /\ i # id /\ y.sequences[i] = x.sequences[i]
    BY <1>4
  <2>2. /\ i \in K
        /\ \E j \in 1..Len(x.records) : x.records[j].id = i /\ x.records[j].seq = x.sequences[i]
    BY <2>1, Zenon DEF Tied, TiedTo
  <2> QED
    BY <1>2, <2>1, <2>2
<1> QED
  BY <1>3, <1>5 DEF y
Distinct(records) == \A i, j \in 1..Len(records) : i # j => records[i].seq # records[j].seq

\* What is left of the records, in whatever order, without the one of this sequence.
LeftOf(r, records, seq) ==
  /\ \A i \in 1..Len(r) : r[i].seq # seq /\ \E j \in 1..Len(records) : r[i] = records[j]
  /\ \A j \in 1..Len(records) : records[j].seq # seq => \E i \in 1..Len(r) : r[i] = records[j]

LEMMA WithoutProperties ==
  ASSUME NEW records \in Seq(Entry), Distinct(records), NEW seq
  PROVE  LET r == Without(records, seq)
         IN  r \in Seq(Entry) /\ Distinct(r) /\ LeftOf(r, records, seq)
<1>1. Len(records) \in Nat
  BY LenProperties
<1>2. CASE \E i \in 1..Len(records) : records[i].seq = seq
  <2>1. PICK p \in 1..Len(records) : records[p].seq = seq
    BY <1>2
  <2>2. {i \in 1..Len(records) : records[i].seq = seq} = {p}
    BY <2>1 DEF Distinct
  <2>3. Without(records, seq) = RemoveAt(records, p)
    BY <1>1, <1>2, <2>2, MinOfOne DEF Without, RemoveFirstMatch, SelectInSeq
  <2>4. PICK r : r = RemoveAt(records, p)
    OBVIOUS
  <2>5. r \in Seq(Entry) /\ Taken(r, records, p)
    BY <2>4, RemoveAtTakes
  <2>6. Distinct(r)
    <3> SUFFICES ASSUME NEW i \in 1..Len(r), NEW j \in 1..Len(r), i # j PROVE r[i].seq # r[j].seq
      BY DEF Distinct
    <3>1. PICK k \in 1..Len(records), l \in 1..Len(records) :
            k # l /\ r[i] = records[k] /\ r[j] = records[l]
      BY <2>5 DEF Taken
    <3> QED
      BY <3>1 DEF Distinct
  <2>7. ASSUME NEW i \in 1..Len(r)
        PROVE  r[i].seq # seq /\ \E j \in 1..Len(records) : r[i] = records[j]
    <3>1. PICK j \in 1..Len(records) : j # p /\ r[i] = records[j]
      BY <2>5 DEF Taken
    <3> QED
      BY <2>1, <3>1 DEF Distinct
  <2>8. ASSUME NEW j \in 1..Len(records), records[j].seq # seq
        PROVE  \E i \in 1..Len(r) : r[i] = records[j]
    BY <2>1, <2>5, <2>8 DEF Taken
  <2>9. LeftOf(r, records, seq)
    BY <2>7, <2>8 DEF LeftOf
  <2> QED
    BY <2>3, <2>4, <2>5, <2>6, <2>9
<1>3. CASE ~\E i \in 1..Len(records) : records[i].seq = seq
  <2>1. Without(records, seq) = records
    BY <1>3 DEF Without, RemoveFirstMatch
  <2>2. LeftOf(records, records, seq)
    BY <1>3 DEF LeftOf
  <2> QED
    BY <2>1, <2>2
<1> QED
  BY <1>2, <1>3

\* A record belongs to one notification: whoever has its sequence has its id.
LEMMA TiedIsExclusive ==
  ASSUME NEW records, Distinct(records), NEW sequences, NEW K, TiedTo(records, sequences, K),
         NEW id \in DOMAIN sequences, NEW other \in DOMAIN sequences,
         sequences[other] = sequences[id]
  PROVE  other = id
<1>1. PICK i \in 1..Len(records) : records[i].id = id /\ records[i].seq = sequences[id]
  BY Zenon DEF TiedTo
<1>2. PICK j \in 1..Len(records) : records[j].id = other /\ records[j].seq = sequences[other]
  BY Zenon DEF TiedTo
<1>3. i = j
  BY <1>1, <1>2 DEF Distinct
<1> QED
  BY <1>1, <1>2, <1>3

LEMMA RemoveHistoryIsTied ==
  ASSUME NEW x, HistoryGood(x), NEW K, Tied(x, K), NEW id
  PROVE  HistoryGood(RemoveHistory(x, id)) /\ Tied(RemoveHistory(x, id), K \ {id})
<1>1. CASE id \notin DOMAIN x.sequences
  <2>1. RemoveHistory(x, id) = x
    BY <1>1 DEF RemoveHistory
  <2>2. TiedTo(x.records, x.sequences, K \ {id})
    BY <1>1 DEF Tied, TiedTo
  <2> QED
    BY <2>1, <2>2 DEF Tied
<1>2. CASE id \in DOMAIN x.sequences
  <2> DEFINE y == Unmapped(x, id)
             z == RemoveHistory(x, id)
  <2>1. PICK r : r = Without(x.records, x.sequences[id])
    OBVIOUS
  <2>2. HistoryGood(y) /\ Tied(y, K \ {id}) /\ HistoryShape(y)
    BY UnmappedIsTied DEF HistoryGood
  <2>3. /\ y.records = x.records /\ y.next = x.next
        /\ DOMAIN y.sequences = DOMAIN x.sequences \ {id}
        /\ \A i \in DOMAIN y.sequences : y.sequences[i] = x.sequences[i]
    <3>1. HistoryShape(x)
      BY DEF HistoryGood
    <3>2. PICK kept : kept = Restrict(x.sequences, DOMAIN x.sequences \ {id})
      OBVIOUS
    <3>3. /\ DOMAIN kept = DOMAIN x.sequences \ {id}
          /\ \A i \in DOMAIN x.sequences \ {id} : kept[i] = x.sequences[i]
      BY <3>2, RestrictIs
    <3>4. y.records = x.records /\ y.next = x.next /\ y.sequences = kept
      BY <3>1, <3>2 DEF Unmapped, HistoryShape
    <3> QED
      BY <3>3, <3>4
  <2>4. z = [y EXCEPT !.records = r]
    BY <1>2, <2>1, <2>3 DEF RemoveHistory
  <2> HIDE DEF y, z
  <2>5. HistoryShape(z) /\ z.records = r /\ z.next = y.next /\ z.sequences = y.sequences
    BY <2>2, <2>4 DEF HistoryShape
  <2>6. r \in Seq(Entry) /\ Distinct(r) /\ LeftOf(r, x.records, x.sequences[id])
    <3>1. x.records \in Seq(Entry) /\ Distinct(x.records)
      BY DEF HistoryGood, Distinct
    <3> QED
      BY <2>1, <3>1, WithoutProperties
  <2>7. HistoryGood(z)
    <3>1. \A i \in 1..Len(r) : r[i].seq < x.next
      BY <2>6 DEF LeftOf, HistoryGood
    <3>2. x.next \in Nat
      BY DEF HistoryGood
    <3> QED
      BY <2>3, <2>5, <2>6, <3>1, <3>2 DEF HistoryGood, Distinct
  <2>8. Tied(z, K \ {id})
    <3> SUFFICES ASSUME NEW i \in DOMAIN z.sequences
                 PROVE  /\ i \in K \ {id}
                        /\ \E j \in 1..Len(z.records) :
                             z.records[j].id = i /\ z.records[j].seq = z.sequences[i]
      BY Zenon DEF Tied, TiedTo
    <3>1. i \in DOMAIN x.sequences /\ i # id /\ z.sequences[i] = x.sequences[i]
      BY <2>3, <2>5
    <3>2. PICK j \in 1..Len(x.records) : x.records[j].id = i /\ x.records[j].seq = x.sequences[i]
      BY <3>1, Zenon DEF Tied, TiedTo
    <3>3. i \in K
      BY <3>1, Zenon DEF Tied, TiedTo
    <3>4. Distinct(x.records) /\ TiedTo(x.records, x.sequences, K)
      BY DEF HistoryGood, Distinct, Tied
    <3>5. x.sequences[i] # x.sequences[id]
      BY <1>2, <3>1, <3>4, TiedIsExclusive
    <3>6. PICK k \in 1..Len(r) : r[k] = x.records[j]
      BY <2>6, <3>2, <3>5 DEF LeftOf
    <3> QED
      BY <2>5, <3>1, <3>2, <3>3, <3>6
  <2> QED
    BY <2>7, <2>8 DEF z
<1> QED
  BY <1>1, <1>2
\* The front of a sequence, and what is cut off.
LEMMA CutInTwo ==
  ASSUME NEW S, NEW all \in Seq(S), NEW len \in 0..Len(all)
  PROVE  /\ SubSeq(all, 1, len) \in Seq(S) /\ Len(SubSeq(all, 1, len)) = len
         /\ \A i \in 1..len : SubSeq(all, 1, len)[i] = all[i]
         /\ \A i \in len + 1..Len(all) : all[i] \in ToSet(SubSeq(all, len + 1, Len(all)))
<1>1. Len(all) \in Nat /\ \A i \in 1..Len(all) : all[i] \in S
  BY LenProperties, ElementOfSeq
<1>2. 1 \in Int /\ len \in Int /\ len + 1 \in Int /\ Len(all) \in Int
  BY <1>1
<1>3. /\ SubSeq(all, 1, len) \in Seq(S) /\ Len(SubSeq(all, 1, len)) = len
      /\ \A i \in 1..len : SubSeq(all, 1, len)[i] = all[i]
  <2>1. \A i \in 1..len : all[i] \in S
    BY <1>1
  <2>2. /\ SubSeq(all, 1, len) \in Seq(S)
        /\ Len(SubSeq(all, 1, len)) = IF 1 <= len THEN len - 1 + 1 ELSE 0
        /\ \A i \in 1..len - 1 + 1 : SubSeq(all, 1, len)[i] = all[1 + i - 1]
    BY <1>2, <2>1, SubSeqProperties
  <2>3. /\ (IF 1 <= len THEN len - 1 + 1 ELSE 0) = len /\ 1..len - 1 + 1 = 1..len
        /\ \A i \in 1..len : 1 + i - 1 = i
    BY <1>1
  <2>4. PICK front : front = SubSeq(all, 1, len)
    OBVIOUS
  <2>5. front \in Seq(S) /\ Len(front) = len /\ \A i \in 1..len : front[i] = all[1 + i - 1]
    BY <2>2, <2>3, <2>4
  <2>6. \A i \in 1..len : front[i] = all[i]
    BY <2>3, <2>5
  <2> QED
    BY <2>4, <2>5, <2>6
<1>4. \A i \in len + 1..Len(all) : all[i] \in ToSet(SubSeq(all, len + 1, Len(all)))
  <2>1. \A i \in len + 1..Len(all) : all[i] \in S
    BY <1>1
  <2>2. PICK rest : rest = SubSeq(all, len + 1, Len(all))
    OBVIOUS
  <2>3. /\ rest \in Seq(S)
        /\ Len(rest) = IF len + 1 <= Len(all) THEN Len(all) - (len + 1) + 1 ELSE 0
        /\ \A i \in 1..Len(all) - (len + 1) + 1 : rest[i] = all[len + 1 + i - 1]
    BY <1>2, <2>1, <2>2, SubSeqProperties
  <2> SUFFICES ASSUME NEW i \in len + 1..Len(all) PROVE all[i] \in ToSet(rest)
    BY <2>2
  <2>4. /\ Len(rest) = Len(all) - len /\ i - len \in 1..Len(all) - (len + 1) + 1
        /\ i - len \in 1..Len(all) - len /\ len + 1 + (i - len) - 1 = i
    BY <1>1, <2>3
  <2>5. rest[i - len] = all[i]
    BY <2>3, <2>4
  <2>6. DOMAIN rest = 1..Len(rest)
    BY <2>3, LenProperties
  <2> QED
    BY <2>4, <2>5, <2>6 DEF ToSet
<1> QED
  BY <1>3, <1>4

LEMMA AddHistoryIsTied ==
  ASSUME NEW x, HistoryGood(x), NEW K, Tied(x, K), NEW id \in Ids
  PROVE  HistoryGood(AddHistory(x, id)) /\ Tied(AddHistory(x, id), K \cup {id})
<1>1. PICK seq : seq = IF Mapped(x, id) THEN x.sequences[id] ELSE x.next
  OBVIOUS
<1>2. PICK next : next = IF Mapped(x, id) THEN x.next ELSE x.next + 1
  OBVIOUS
<1>3. PICK w : w = Without(x.records, seq)
  OBVIOUS
<1> DEFINE new == [seq |-> seq, id |-> id]
<1>4. PICK all : all = <<new>> \o w
  OBVIOUS
<1>5. PICK len : len = Min({Len(all), HistoryLimit})
  OBVIOUS
<1>6. PICK evicted : evicted = ToSet(SubSeq(all, len + 1, Len(all)))
  OBVIOUS
<1>7. PICK left : left = Forgotten(x.sequences, evicted)
  OBVIOUS
<1>8. PICK front : front = SubSeq(all, 1, len)
  OBVIOUS
<1> DEFINE sequences == [i \in DOMAIN left \cup {id} |-> IF i = id THEN seq ELSE left[i]]
<1>9. AddHistory(x, id) = [x EXCEPT !.records = front, !.next = next, !.sequences = sequences]
  BY <1>1, <1>2, <1>3, <1>4, <1>5, <1>6, <1>7, <1>8 DEF AddHistory
<1>10. /\ HistoryShape(x) /\ x.records \in Seq(Entry) /\ x.next \in Nat /\ Distinct(x.records)
       /\ \A i \in 1..Len(x.records) : x.records[i].seq < x.next
       /\ TiedTo(x.records, x.sequences, K)
  BY DEF HistoryGood, Distinct, Tied
<1>11. Len(x.records) \in Nat /\ \A i \in 1..Len(x.records) : x.records[i] \in Entry
  BY <1>10, LenProperties, ElementOfSeq
<1>12. seq \in Nat /\ next \in Nat /\ seq < next /\ x.next <= next
  <2>1. CASE Mapped(x, id)
    <3>1. PICK i \in 1..Len(x.records) : x.records[i].seq = x.sequences[id]
      BY <2>1 DEF Mapped
    <3>2. x.records[i].seq \in Nat /\ x.records[i].seq < x.next
      BY <1>10, <1>11 DEF Entry
    <3> QED
      BY <1>1, <1>2, <1>10, <2>1, <3>1, <3>2
  <2>2. CASE ~Mapped(x, id)
    BY <1>1, <1>2, <1>10, <2>2
  <2> QED
    BY <2>1, <2>2
<1>13. w \in Seq(Entry) /\ Distinct(w) /\ LeftOf(w, x.records, seq)
  BY <1>3, <1>10, WithoutProperties
<1>14. /\ all \in Seq(Entry) /\ Len(all) = Len(w) + 1 /\ Len(w) \in Nat
       /\ all[1] = new /\ \A i \in 1..Len(w) : all[i + 1] = w[i]
  <2>1. new \in Entry
    BY <1>12 DEF Entry
  <2> HIDE DEF new
  <2>2. <<new>> \in Seq(Entry) /\ Len(<<new>>) = 1 /\ <<new>>[1] = new
    BY <2>1
  <2>3. /\ all \in Seq(Entry) /\ Len(all) = Len(<<new>>) + Len(w)
        /\ \A i \in 1..Len(<<new>>) + Len(w) :
              all[i] = IF i <= Len(<<new>>) THEN <<new>>[i] ELSE w[i - Len(<<new>>)]
    BY <1>4, <1>13, <2>2, ConcatProperties
  <2>4. Len(w) \in Nat
    BY <1>13, LenProperties
  <2>5. \A i \in 1..1 + Len(w) : all[i] = IF i <= 1 THEN new ELSE w[i - 1]
    BY <2>2, <2>3
  <2>6. all[1] = new
    BY <2>4, <2>5
  <2>7. ASSUME NEW i \in 1..Len(w) PROVE all[i + 1] = w[i]
    <3>1. i + 1 \in 1..1 + Len(w) /\ ~(i + 1 <= 1) /\ (i + 1) - 1 = i
      BY <2>4
    <3>2. all[i + 1] = w[(i + 1) - 1]
      BY <2>5, <3>1
    <3> QED
      BY <3>1, <3>2
  <2> QED
    BY <2>2, <2>3, <2>4, <2>6, <2>7
<1>15. len \in 1..Len(all)
  <2>1. Len(all) \in Nat \ {0} /\ HistoryLimit \in Nat \ {0}
    BY <1>14, NotificationsAssumption
  <2> QED
    BY <1>5, <2>1 DEF Min
<1>16. /\ front \in Seq(Entry) /\ Len(front) = len /\ \A i \in 1..len : front[i] = all[i]
       /\ \A i \in len + 1..Len(all) : all[i] \in evicted
  <2>1. len \in 0..Len(all)
    BY <1>14, <1>15
  <2> QED
    BY <1>6, <1>8, <1>14, <2>1, CutInTwo
<1>17. \A i \in 1..len : all[i] = new \/ \E j \in 1..Len(w) : i = j + 1 /\ all[i] = w[j]
  <2> SUFFICES ASSUME NEW i \in 1..len, i # 1 PROVE \E j \in 1..Len(w) : i = j + 1 /\ all[i] = w[j]
    BY <1>14
  <2>1. i - 1 \in 1..Len(w) /\ i = (i - 1) + 1
    BY <1>14, <1>15
  <2> QED
    BY <1>14, <2>1
<1>18. Distinct(front)
  <2> SUFFICES ASSUME NEW i \in 1..len, NEW j \in 1..len, i < j PROVE front[i].seq # front[j].seq
    BY <1>15, <1>16 DEF Distinct
  <2>1. j - 1 \in 1..Len(w) /\ (j - 1) + 1 = j
    BY <1>14, <1>15
  <2>2. front[j] = w[j - 1] /\ w[j - 1].seq # seq
    BY <1>13, <1>14, <1>16, <2>1 DEF LeftOf
  <2>3. CASE i = 1
    BY <1>14, <1>16, <2>2, <2>3
  <2>4. CASE i # 1
    <3>1. i - 1 \in 1..Len(w) /\ (i - 1) + 1 = i /\ i - 1 # j - 1
      BY <1>14, <1>15, <2>4
    <3>2. front[i] = w[i - 1]
      BY <1>14, <1>16, <3>1
    <3> QED
      BY <1>13, <2>1, <2>2, <3>1, <3>2 DEF Distinct
  <2> QED
    BY <2>3, <2>4
<1>19. \A i \in 1..len : front[i].seq < next
  <2> SUFFICES ASSUME NEW i \in 1..len PROVE all[i].seq < next
    BY <1>16
  <2>1. CASE all[i] = new
    BY <1>12, <2>1
  <2>2. CASE all[i] # new
    <3>1. PICK j \in 1..Len(w) : all[i] = w[j]
      BY <1>17, <2>2
    <3>2. PICK k \in 1..Len(x.records) : w[j] = x.records[k]
      BY <1>13 DEF LeftOf
    <3>3. x.records[k].seq \in Nat /\ x.records[k].seq < x.next
      BY <1>10, <1>11 DEF Entry
    <3> QED
      BY <1>10, <1>12, <3>1, <3>2, <3>3
  <2> QED
    BY <2>1, <2>2
<1>20. \A i \in DOMAIN left : /\ i \in DOMAIN x.sequences /\ left[i] = x.sequences[i]
                              /\ ~\E e \in evicted : e.id = i /\ e.seq = x.sequences[i]
  <2> DEFINE D == {i \in DOMAIN x.sequences : ~\E e \in evicted : e.id = i /\ e.seq = x.sequences[i]}
  <2>1. left = Restrict(x.sequences, D)
    BY <1>7 DEF Forgotten
  <2>2. DOMAIN left = D /\ \A i \in D : left[i] = x.sequences[i]
    BY <2>1, RestrictIs
  <2> QED
    BY <2>2
<1>21. \A i \in DOMAIN left \ {id} :
         i \in K /\ \E j \in 1..len : all[j].id = i /\ all[j].seq = left[i]
  <2> SUFFICES ASSUME NEW i \in DOMAIN left \ {id}
               PROVE  i \in K /\ \E j \in 1..len : all[j].id = i /\ all[j].seq = left[i]
    OBVIOUS
  <2>1. i \in DOMAIN x.sequences /\ left[i] = x.sequences[i]
    BY <1>20
  <2>2. PICK j \in 1..Len(x.records) : x.records[j].id = i /\ x.records[j].seq = x.sequences[i]
    BY <1>10, <2>1, Zenon DEF TiedTo
  <2>3. i \in K
    BY <1>10, <2>1, Zenon DEF TiedTo
  <2>4. x.records[j].seq # seq
    <3>1. CASE Mapped(x, id)
      <4>1. id \in DOMAIN x.sequences /\ seq = x.sequences[id] /\ i # id
        BY <1>1, <3>1 DEF Mapped
      <4>2. x.sequences[i] # x.sequences[id]
        BY <1>10, <2>1, <4>1, TiedIsExclusive
      <4> QED
        BY <2>2, <4>1, <4>2
    <3>2. CASE ~Mapped(x, id)
      <4>1. seq = x.next /\ x.records[j].seq < x.next
        BY <1>1, <1>10, <3>2
      <4>2. x.records[j].seq \in Nat
        BY <1>11 DEF Entry
      <4> QED
        BY <1>10, <4>1, <4>2
    <3> QED
      BY <3>1, <3>2
  <2>5. PICK k \in 1..Len(w) : w[k] = x.records[j]
    BY <1>13, <2>4 DEF LeftOf
  <2>6. all[k + 1] = w[k] /\ k + 1 \in 1..Len(all)
    BY <1>14
  <2>7. all[k + 1] \notin evicted
    BY <1>20, <2>1, <2>2, <2>5, <2>6
  <2>8. k + 1 \in 1..len
    BY <1>14, <1>15, <1>16, <2>6, <2>7
  <2> QED
    BY <2>1, <2>2, <2>3, <2>5, <2>6, <2>8
<1>22. TiedTo(front, sequences, K \cup {id})
  <2> SUFFICES ASSUME NEW i \in DOMAIN sequences
               PROVE  /\ i \in K \cup {id}
                      /\ \E j \in 1..Len(front) : front[j].id = i /\ front[j].seq = sequences[i]
    BY Zenon DEF TiedTo
  <2>1. CASE i = id
    <3>1. 1 \in 1..len /\ sequences[id] = seq
      BY <1>15
    <3> QED
      BY <1>14, <1>16, <2>1, <3>1
  <2>2. CASE i # id
    <3>1. i \in DOMAIN left \ {id} /\ sequences[i] = left[i]
      BY <2>2
    <3> QED
      BY <1>16, <1>21, <3>1
  <2> QED
    BY <2>1, <2>2
<1> HIDE DEF sequences
<1>23. PICK y : y = AddHistory(x, id)
  OBVIOUS
<1>24. HistoryShape(y) /\ y.records = front /\ y.next = next /\ y.sequences = sequences
  BY <1>9, <1>10, <1>23 DEF HistoryShape
<1>25. HistoryGood(y)
  BY <1>12, <1>16, <1>18, <1>19, <1>24 DEF HistoryGood, Distinct
<1>26. Tied(y, K \cup {id})
  BY <1>22, <1>24 DEF Tied
<1> QED
  BY <1>23, <1>25, <1>26
--------------------------------------------------------------------------------
(* The steps.                                                                    *)

\* The live notifications that may be tied to a record.
Lasting(live) == {id \in DOMAIN live : ~live[id].transient}

\* The inductive invariant of the tables.
TablesInv ==
  /\ LiveGood(n) /\ (~stopped => Timing(n))
  /\ HistoryGood(h) /\ Tied(h, Lasting(n.live))

\* What the panel does leaves the history itself alone.
Kept(y, x) == y.records = x.records /\ y.next = x.next /\ y.sequences = x.sequences

LEMMA PanelKeeps ==
  ASSUME NEW x, HistoryShape(x)
  PROVE  /\ Kept(PublishHistory(x), x) /\ Kept(Silenced(x), x)
         /\ Kept(CloseHistory(x), x) /\ Kept(Awaited(x), x)
<1>1. Kept(PublishHistory(x), x)
  BY DEF HistoryShape, PublishHistory, Kept
<1>2. Kept(Silenced(x), x)
  BY DEF HistoryShape, Silenced, Kept
<1>3. Kept(CloseHistory(x), x)
  BY DEF HistoryShape, Silenced, ResetHistory, CloseHistory, Kept
<1>4. Kept(Awaited(x), x)
  BY DEF HistoryShape, Awaited, Kept
<1> QED
  BY <1>1, <1>2, <1>3, <1>4

LEMMA KeptIsGood ==
  ASSUME NEW x, HistoryGood(x), NEW y, HistoryShape(y), Kept(y, x)
  PROVE  HistoryGood(y) /\ \A K : Tied(x, K) => Tied(y, K)
<1>1. HistoryGood(y)
  BY DEF HistoryGood, Kept
<1>2. \A K : Tied(x, K) => Tied(y, K)
  BY DEF Tied, Kept
<1> QED
  BY <1>1, <1>2

LEMMA HistoryIsKept ==
  ASSUME PanelInv, ShowMore \/ Hide \/ CloseAll \/ Visibility \/ Timeouts \/ Shutdown
  PROVE  Kept(h', h)
<1>1. HistoryShape(h)
  BY DEF PanelInv
<1>2. CASE ShowMore
  <2> DEFINE x == IF h.count = 0 THEN [h EXCEPT !.session = @ + 1, !.hidden = {}] ELSE h
             more == [x EXCEPT !.count = Min({@ + 1, VisibleLimit})]
             y == PublishHistory(more)
             z == [y EXCEPT !.expanded = @ \/ visibility = "expanded-active"]
  <2>1. h' = Awaited(z)
    BY <1>2 DEF ShowMore
  <2>2. x.count \in Nat /\ Kept(x, h) /\ x \in [records : {x.records}, next : {x.next},
           sequences : {x.sequences}, count : Nat, hidden : {x.hidden}, session : {x.session},
           expanded : BOOLEAN, opening : BOOLEAN, idle : BOOLEAN, published : BOOLEAN,
           shown : {x.shown}]
    BY <1>1 DEF HistoryShape, Kept
  <2> HIDE DEF x
  <2>3. Min({x.count + 1, VisibleLimit}) \in Nat
    BY <2>2, NotificationsAssumption DEF Min
  <2>4. HistoryShape(more) /\ Kept(more, x)
    BY <2>2, <2>3 DEF HistoryShape, Kept
  <2> HIDE DEF more
  <2>5. HistoryShape(y) /\ Kept(y, more)
    BY <2>4, PanelKeeps DEF HistoryShape, PublishHistory
  <2> HIDE DEF y
  <2>6. HistoryShape(z) /\ Kept(z, y)
    BY <2>5 DEF HistoryShape, Kept
  <2> HIDE DEF z
  <2>7. Kept(Awaited(z), z)
    BY <2>6, PanelKeeps
  <2> QED
    BY <2>1, <2>2, <2>4, <2>5, <2>6, <2>7 DEF Kept
<1>3. CASE Hide
  <2>1. PICK r \in ToSet(Visible(h)) :
          h' = AfterHide([h EXCEPT !.hidden = @ \cup {r.seq}, !.count = @ - 1])
    BY <1>3 DEF Hide
  <2> DEFINE x == [h EXCEPT !.hidden = @ \cup {r.seq}, !.count = @ - 1]
  <2>2. HistoryShape(x) /\ Kept(x, h)
    <3>1. h.count \in Nat /\ h.count > 0
      BY <1>1, <1>3 DEF HistoryShape, Hide
    <3>2. h.count - 1 \in Nat
      BY <3>1
    <3> QED
      BY <1>1, <3>2 DEF HistoryShape, Kept
  <2>3. h' = AfterHide(x)
    BY <2>1
  <2> HIDE DEF x
  <2> DEFINE y == [x EXCEPT !.idle = TRUE]
  <2>4. HistoryShape(y) /\ Kept(y, x)
    BY <2>2 DEF HistoryShape, Kept
  <2>5. h' = CloseHistory(x) \/ h' = PublishHistory(y)
    BY <2>3 DEF AfterHide
  <2> HIDE DEF y
  <2>6. Kept(h', x)
    BY <2>2, <2>4, <2>5, PanelKeeps DEF Kept
  <2> QED
    BY <2>2, <2>6 DEF Kept
<1>4. CASE CloseAll \/ IdleTimeout
  BY <1>1, <1>4, PanelKeeps DEF CloseAll, IdleTimeout
<1>5. CASE Visibility
  <2> DEFINE x == [h EXCEPT !.opening = FALSE, !.expanded = TRUE, !.idle = TRUE]
  <2>1. Kept(x, h)
    BY <1>1 DEF HistoryShape, Kept
  <2>2. h' = x \/ h' = CloseHistory(h) \/ h' = h
    BY <1>5 DEF Visibility, CloseHistory
  <2> HIDE DEF x
  <2> QED
    BY <1>1, <2>1, <2>2, PanelKeeps DEF Kept
<1>6. CASE OpenTimeout
  <2> DEFINE x == [h EXCEPT !.opening = FALSE]
  <2>1. HistoryShape(x) /\ Kept(x, h)
    BY <1>1 DEF HistoryShape, Kept
  <2>2. h' = x \/ h' = CloseHistory(x)
    BY <1>6 DEF OpenTimeout
  <2> HIDE DEF x
  <2> QED
    BY <2>1, <2>2, PanelKeeps DEF Kept
<1>7. CASE Shutdown
  BY <1>1, <1>7, PanelKeeps DEF Shutdown
<1> QED
  BY <1>2, <1>3, <1>4, <1>5, <1>6, <1>7 DEF Timeouts

LEMMA CloseKeepsTables ==
  ASSUME TablesInv, ~stopped, stopped' = stopped, NEW id \in DOMAIN n.live, Close(id)
  PROVE  TablesInv'
<1>1. PICK m : m = Closed(n, id)
  OBVIOUS
<1>2. PICK x : x = Unmapped(h, id)
  OBVIOUS
<1>3. n' = m /\ h' = x
  BY <1>1, <1>2 DEF Close
<1>4. /\ LiveGood(m) /\ Timing(m) /\ DOMAIN m.live = DOMAIN n.live \ {id}
      /\ \A i \in DOMAIN m.live : m.live[i] = n.live[i]
  BY <1>1, ClosedIsGood DEF TablesInv
<1>5. HistoryGood(x) /\ Tied(x, Lasting(n.live) \ {id})
  BY <1>2, UnmappedIsTied DEF TablesInv
<1>6. Lasting(m.live) = Lasting(n.live) \ {id}
  BY <1>4 DEF Lasting
<1> QED
  BY <1>3, <1>4, <1>5, <1>6 DEF TablesInv

\* Room is made for a new notification.
LEMMA RoomIsMade ==
  ASSUME TablesInv, ~stopped, NEW id \in Ids
  PROVE  LET b == NotifyBegins(id)
         IN  /\ LiveGood(b.n) /\ Timing(b.n) /\ HistoryGood(b.h) /\ Tied(b.h, Lasting(b.n.live))
             /\ id \notin DOMAIN b.n.live => Cardinality(DOMAIN b.n.live) < MaxLive
<1>1. PICK room : room = [n EXCEPT !.next = IF id \in DOMAIN n.live THEN @ ELSE After(id)]
  OBVIOUS
<1>2. LiveGood(room) /\ Timing(room) /\ room.live = n.live /\ room.order = n.order
  <2>1. PICK next : next = IF id \in DOMAIN n.live THEN n.next ELSE After(id)
    OBVIOUS
  <2>2. next \in Ids
    BY <2>1, AfterIsId DEF TablesInv, LiveGood
  <2>3. room = [n EXCEPT !.next = next]
    BY <1>1, <2>1
  <2> QED
    BY <2>2, <2>3, NextIsGood DEF TablesInv
<1>3. Cardinality(DOMAIN n.live) \in Nat /\ MaxLive \in Nat \ {0} /\ Cardinality(DOMAIN n.live) <= MaxLive
  BY SomeAreLive, NotificationsAssumption DEF TablesInv, LiveGood
<1>4. CASE id \notin DOMAIN n.live /\ Cardinality(DOMAIN n.live) >= MaxLive
  <2>1. PICK old : old = n.order[1]
    OBVIOUS
  <2>2. old \in DOMAIN n.live
    <3>1. DOMAIN n.live # {}
      <4>1. Cardinality({}) = 0
        BY FS_EmptySet
      <4> QED
        BY <1>3, <1>4, <4>1
    <3>2. n.order \in Seq(Ids) /\ ToSet(n.order) = DOMAIN n.live
      BY DEF TablesInv, LiveGood
    <3>3. n.order # <<>>
      BY <3>1, <3>2 DEF ToSet
    <3>4. DOMAIN n.order = 1..Len(n.order) /\ Len(n.order) \in Nat \ {0}
      BY <3>2, <3>3, EmptySeq, LenProperties
    <3> QED
      BY <2>1, <3>2, <3>4 DEF ToSet
  <2>3. PICK m : m = Closed(room, old)
    OBVIOUS
  <2>4. PICK x : x = Unmapped(h, old)
    OBVIOUS
  <2>5. NotifyBegins(id) = [n |-> m, h |-> x]
    BY <1>1, <1>4, <2>1, <2>3, <2>4 DEF NotifyBegins
  <2>6. NotifyBegins(id).n = m /\ NotifyBegins(id).h = x
    BY <2>5
  <2>7. /\ LiveGood(m) /\ Timing(m) /\ DOMAIN m.live = DOMAIN n.live \ {old}
        /\ \A i \in DOMAIN m.live : m.live[i] = n.live[i]
        /\ Cardinality(DOMAIN m.live) = Cardinality(DOMAIN n.live) - 1
    BY <1>2, <2>2, <2>3, ClosedIsGood
  <2>8. HistoryGood(x) /\ Tied(x, Lasting(n.live) \ {old})
    BY <2>4, UnmappedIsTied DEF TablesInv
  <2>9. Lasting(m.live) = Lasting(n.live) \ {old}
    BY <2>7 DEF Lasting
  <2>10. Cardinality(DOMAIN m.live) < MaxLive
    BY <1>3, <2>7
  <2> QED
    BY <2>6, <2>7, <2>8, <2>9, <2>10
<1>5. CASE ~(id \notin DOMAIN n.live /\ Cardinality(DOMAIN n.live) >= MaxLive)
  <2>1. NotifyBegins(id) = [n |-> room, h |-> h]
    BY <1>1, <1>5 DEF NotifyBegins
  <2>2. NotifyBegins(id).n = room /\ NotifyBegins(id).h = h
    BY <2>1
  <2>3. id \notin DOMAIN room.live => Cardinality(DOMAIN room.live) < MaxLive
    BY <1>2, <1>3, <1>5
  <2>4. HistoryGood(h) /\ Tied(h, Lasting(room.live))
    BY <1>2 DEF TablesInv
  <2> QED
    BY <1>2, <2>2, <2>3, <2>4
<1> QED
  BY <1>4, <1>5

LEMMA NotifyKeepsTables == TablesInv /\ Notify => TablesInv'
<1> SUFFICES ASSUME TablesInv, Notify PROVE TablesInv'
  OBVIOUS
<1>1. PICK kind \in Kinds, replaces \in Ids \cup {0}, refused \in BOOLEAN :
        LET id    == IF replaces \in DOMAIN n.live THEN replaces ELSE Allocated(n)
            begun == NotifyBegins(id)
            kept  == Recorded(begun.h, id, kind)
        IN  IF refused THEN n' = begun.n /\ h' = begun.h
            ELSE /\ n' = Shown(begun.n, id, kind)
                 /\ h' = IF kept.count > 0 THEN PublishHistory(kept) ELSE kept
  BY Zenon DEF Notify
<1>2. ~stopped /\ stopped' = stopped
  BY DEF Notify
<1>3. PICK id : id = IF replaces \in DOMAIN n.live THEN replaces ELSE Allocated(n)
  OBVIOUS
<1>4. id \in Ids
  BY <1>3, AllocatedIsFree DEF TablesInv, LiveGood
<1>5. PICK b : b = NotifyBegins(id)
  OBVIOUS
<1>6. /\ LiveGood(b.n) /\ Timing(b.n) /\ HistoryGood(b.h) /\ Tied(b.h, Lasting(b.n.live))
      /\ id \notin DOMAIN b.n.live => Cardinality(DOMAIN b.n.live) < MaxLive
  BY <1>2, <1>4, <1>5, RoomIsMade
<1>7. PICK kept : kept = Recorded(b.h, id, kind)
  OBVIOUS
<1>8. PICK m : m = Shown(b.n, id, kind)
  OBVIOUS
<1>9. IF refused THEN n' = b.n /\ h' = b.h
      ELSE n' = m /\ h' = IF kept.count > 0 THEN PublishHistory(kept) ELSE kept
  BY <1>1, <1>3, <1>5, <1>7, <1>8
<1>10. CASE refused
  <2>1. n' = b.n /\ h' = b.h
    BY <1>9, <1>10
  <2> QED
    BY <1>2, <1>6, <2>1 DEF TablesInv
<1>11. CASE ~refused
  <2>1. /\ LiveGood(m) /\ Timing(m) /\ DOMAIN m.live = DOMAIN b.n.live \cup {id}
        /\ m.live[id] = kind /\ \A i \in DOMAIN b.n.live \ {id} : m.live[i] = b.n.live[i]
    BY <1>4, <1>6, <1>8, ShownIsGood
  <2>2. HistoryGood(kept) /\ Tied(kept, Lasting(m.live))
    <3>1. CASE kind.transient
      <4>1. kept = RemoveHistory(b.h, id)
        BY <1>7, <3>1 DEF Recorded
      <4>2. Lasting(m.live) = Lasting(b.n.live) \ {id}
        BY <2>1, <3>1 DEF Lasting
      <4> QED
        BY <1>6, <4>1, <4>2, RemoveHistoryIsTied
    <3>2. CASE ~kind.transient
      <4>1. kept = AddHistory(b.h, id)
        BY <1>7, <3>2 DEF Recorded
      <4>2. Lasting(m.live) = Lasting(b.n.live) \cup {id}
        BY <2>1, <3>2 DEF Lasting
      <4> QED
        BY <1>4, <1>6, <4>1, <4>2, AddHistoryIsTied
    <3> QED
      BY <3>1, <3>2
  <2>3. PICK y : y = PublishHistory(kept)
    OBVIOUS
  <2>4. HistoryShape(kept)
    BY <2>2 DEF HistoryGood
  <2>5. HistoryShape(y) /\ Kept(y, kept)
    BY <2>3, <2>4, PanelKeeps DEF HistoryShape, PublishHistory
  <2>6. HistoryGood(y) /\ Tied(y, Lasting(m.live))
    BY <2>2, <2>5, KeptIsGood
  <2>7. n' = m /\ (h' = y \/ h' = kept)
    BY <1>9, <1>11, <2>3
  <2> QED
    BY <1>2, <2>1, <2>2, <2>6, <2>7 DEF TablesInv
<1> QED
  BY <1>10, <1>11

LEMMA PanelKeepsTables ==
  ASSUME PanelInv, PanelInv', TablesInv,
         ShowMore \/ Hide \/ CloseAll \/ Visibility \/ Timeouts \/ Shutdown
  PROVE  TablesInv'
<1>1. Kept(h', h) /\ HistoryShape(h')
  BY HistoryIsKept DEF PanelInv
<1>2. HistoryGood(h') /\ Tied(h', Lasting(n.live))
  BY <1>1, KeptIsGood DEF TablesInv
<1>3. CASE n' = n /\ stopped' = stopped
  BY <1>2, <1>3 DEF TablesInv
<1>4. CASE Shutdown
  <2>1. n' = [n EXCEPT !.timers = {}] /\ stopped' = TRUE
    BY <1>4 DEF Shutdown
  <2>2. /\ n'.live = n.live /\ n'.order = n.order /\ n'.contexts = n.contexts /\ n'.held = n.held
        /\ n' \in [live : {n'.live}, order : Seq(Ids), next : Ids, timers : {n'.timers},
                   contexts : {n'.contexts}, held : {n'.held}]
    BY <2>1 DEF TablesInv, LiveGood
  <2>3. LiveGood(n')
    BY <2>2 DEF TablesInv, LiveGood
  <2> QED
    BY <1>2, <2>1, <2>2, <2>3 DEF TablesInv
<1> QED
  BY <1>3, <1>4 DEF ShowMore, Hide, CloseAll, Visibility, Timeouts, OpenTimeout, IdleTimeout

LEMMA TablesInvInductive == PanelInv /\ TablesInv /\ [Next]_vars => TablesInv'
<1> SUFFICES ASSUME PanelInv, TablesInv, [Next]_vars PROVE TablesInv'
  OBVIOUS
<1>1. CASE Notify
  BY <1>1, NotifyKeepsTables
<1>2. CASE CloseNotification \/ Expire \/ Invoke
  <2>1. PICK id \in DOMAIN n.live : Close(id)
    BY <1>2 DEF CloseNotification, Expire, Invoke, TablesInv, Timing
  <2>2. ~stopped /\ stopped' = stopped
    BY <1>2 DEF CloseNotification, Expire, Invoke
  <2> QED
    BY <2>1, <2>2, CloseKeepsTables
<1>3. CASE ShowMore \/ Hide \/ CloseAll \/ Visibility \/ Timeouts \/ Shutdown
  BY <1>3, PanelInvInductive, PanelKeepsTables
<1>4. CASE Writes \/ UNCHANGED vars
  <2>1. UNCHANGED <<n, h, stopped>>
    BY <1>4 DEF Writes, WriteEnds, WriteReported, vars
  <2> QED
    BY <2>1 DEF TablesInv
<1> QED
  BY <1>1, <1>2, <1>3, <1>4 DEF Next

LEMMA TablesInvInitially == Init => TablesInv
<1> SUFFICES ASSUME Init PROVE TablesInv
  OBVIOUS
<1>1. /\ n = [live |-> <<>>, order |-> <<>>, next |-> 1, timers |-> {}, contexts |-> {}, held |-> {}]
      /\ n.live = <<>> /\ DOMAIN n.live = {} /\ n.order = <<>> /\ n.next = 1
      /\ n.timers = {} /\ n.contexts = {} /\ n.held = {}
  BY DEF Init
<1>2. 1 \in Ids
  BY NotificationsAssumption DEF Ids
<1>3. LiveGood(n)
  <2>1. ToSet(<<>>) = {} /\ IsInjective(<<>>) /\ <<>> \in Seq(Ids)
    BY DEF ToSet, IsInjective
  <2>2. Cardinality(DOMAIN n.live) <= MaxLive
    BY <1>1, FS_EmptySet, NotificationsAssumption
  <2>3. n \in [live : {n.live}, order : Seq(Ids), next : Ids, timers : {n.timers},
               contexts : {n.contexts}, held : {n.held}]
    BY <1>1, <1>2, <2>1
  <2> QED
    BY <1>1, <2>1, <2>2, <2>3 DEF LiveGood
<1>4. Timing(n)
  BY <1>1 DEF Timing
<1>5. PICK records \in Loaded :
        h = [records |-> records, next |-> Len(records) + 1, sequences |-> <<>>, count |-> 0,
             hidden |-> {}, session |-> 0, expanded |-> FALSE, opening |-> FALSE, idle |-> FALSE,
             published |-> FALSE, shown |-> <<>>]
  BY DEF Init
<1>6. /\ HistoryShape(h) /\ h.records = records /\ h.next = Len(records) + 1
      /\ h.sequences = <<>> /\ DOMAIN h.sequences = {}
  BY <1>5 DEF HistoryShape
<1>7. HistoryGood(h)
  <2>1. CASE records = <<>>
    BY <1>6, <2>1 DEF HistoryGood
  <2>2. CASE records = <<[seq |-> 1, id |-> 1]>>
    <3>1. [seq |-> 1, id |-> 1] \in Entry
      BY <1>2 DEF Entry
    <3>2. /\ records \in Seq(Entry) /\ Len(records) = 1 /\ records[1].seq = 1
      BY <2>2, <3>1
    <3> QED
      BY <1>6, <3>2 DEF HistoryGood
  <2> QED
    BY <2>1, <2>2 DEF Loaded
<1>8. Tied(h, Lasting(n.live))
  BY <1>6 DEF Tied, TiedTo
<1> QED
  BY <1>3, <1>4, <1>7, <1>8 DEF TablesInv

(* The table of what is live, the order of eviction, the timers, the contexts of the *)
(* core and the ids the clients hold always tell the same story, and a record of the  *)
(* history is tied to at most the notification it was made for: whatever is sent,     *)
(* replaced, refused, evicted, closed and reused in which order, and for every limit  *)
(* (notify, close_notification, allocate_id, add_history, remove_history).            *)
THEOREM NotificationsStayConsistent == Spec => []NotificationsAreConsistent
<1>1. TablesInv => NotificationsAreConsistent
  <2> SUFFICES ASSUME TablesInv PROVE NotificationsAreConsistent
    OBVIOUS
  <2>1. LiveIsConsistent
    BY DEF TablesInv, LiveGood, Timing, LiveIsConsistent
  <2>2. DOMAIN h.records = 1..Len(h.records)
    BY LenProperties DEF TablesInv, HistoryGood
  <2>3. \A r \in ToSet(h.records) : r.seq < h.next
    BY <2>2 DEF TablesInv, HistoryGood, ToSet
  <2>4. ASSUME NEW id \in DOMAIN h.sequences
        PROVE  /\ id \in DOMAIN n.live /\ ~n.live[id].transient
               /\ \E r \in ToSet(h.records) : r.id = id /\ r.seq = h.sequences[id]
    <3>1. /\ id \in Lasting(n.live)
          /\ \E i \in 1..Len(h.records) : h.records[i].id = id /\ h.records[i].seq = h.sequences[id]
      BY Zenon DEF TablesInv, Tied, TiedTo
    <3>2. PICK i \in 1..Len(h.records) : h.records[i].id = id /\ h.records[i].seq = h.sequences[id]
      BY <3>1
    <3>3. h.records[i] \in ToSet(h.records)
      BY <2>2 DEF ToSet
    <3> QED
      BY <3>1, <3>2, <3>3 DEF Lasting
  <2>5. \A i, j \in 1..Len(h.records) : i # j => h.records[i].seq # h.records[j].seq
    BY DEF TablesInv, HistoryGood
  <2> QED
    BY <2>1, <2>3, <2>4, <2>5 DEF NotificationsAreConsistent, HistoryIsConsistent
<1> QED
  BY <1>1, PanelInvInitially, PanelInvInductive, TablesInvInitially, TablesInvInductive, PTL DEF Spec
================================================================================
