---------------------------- MODULE Notifications ----------------------------
(***************************************************************************)
(* The notifications module (notifications.lua): the freedesktop           *)
(* notification server, its history panel and the file of its history.     *)
(* One thread; D-Bus calls, timers, actions and visibility come one at a   *)
(* time, GIO writes the file in the background.                            *)
(*                                                                         *)
(*   n : what is live    live, order, next, timers, and what others hold   *)
(*       of it: the contexts of the core, the ids the clients hold         *)
(*   h : the history     records (newest first), next, sequences, and the  *)
(*       panel: count, hidden, session, expanded, opening, idle, shown     *)
(*   s : its file        generation, pending, latest, the active write,    *)
(*       the generation on the disk, the latest one whose write failed     *)
(***************************************************************************)
EXTENDS Integers, FiniteSets, Sequences, SequencesExt, Functions

CONSTANTS
  MaxId,           \* ids run from 1 to this and start again (UINT32_MAX)
  MaxLive,         \* MAX_LIVE_NOTIFICATIONS
  HistoryLimit,    \* options.history_limit
  VisibleLimit,    \* options.history_visible_limit
  Kinds,           \* [transient, timed, resident] of what clients send
  MaxNotify, MaxSessions,    \* bounds of the model
  LateRename       \* may a cancelled write still replace the file

ASSUME NotificationsAssumption ==
  /\ {MaxId, MaxLive, HistoryLimit, VisibleLimit} \subseteq Nat \ {0}
  /\ MaxLive < MaxId /\ VisibleLimit <= HistoryLimit
  /\ Kinds \subseteq [transient : BOOLEAN, timed : BOOLEAN, resident : BOOLEAN]
  /\ {MaxNotify, MaxSessions} \subseteq Nat /\ LateRename \in BOOLEAN

VARIABLES n, h, s, visibility, stopped, calls
vars == <<n, h, s, visibility, stopped, calls>>

Ids  == 1..MaxId
None == 0

-----------------------------------------------------------------------------
(* The file.  A write that ends starts the next one, if one is pending.    *)

StartSave(x) ==
  IF x.active # None \/ x.pending = None THEN x
  ELSE [x EXCEPT !.active = x.pending, !.stage = "writing", !.pending = None]

RequestSave(x) ==
  LET g == x.generation + 1
  IN StartSave([x EXCEPT !.generation = g, !.pending = g, !.latest = g])

(* The callback of the write, landed or failed.                            *)
\* mutant: the next write has to wait for the next change
Finished_NoNext(x) == [x EXCEPT !.active = None, !.stage = "idle"]
Finished(x) == StartSave([x EXCEPT !.active = None, !.stage = "idle"])

FinalSnapshot(x) == x.latest

-----------------------------------------------------------------------------
(* The history and its panel.                                              *)

Mapped(x, id) ==
  id \in DOMAIN x.sequences /\ \E i \in 1..Len(x.records) : x.records[i].seq = x.sequences[id]

Unmapped(x, id) == [x EXCEPT !.sequences = Restrict(@, DOMAIN @ \ {id})]

\* mutant: an evicted record keeps its notification's sequence
Forgotten_Never(sequences, evicted) == sequences
Forgotten(sequences, evicted) ==
  Restrict(sequences, {i \in DOMAIN sequences :
                         ~\E e \in evicted : e.id = i /\ e.seq = sequences[i]})

Without(records, seq) == RemoveFirstMatch(records, LAMBDA r : r.seq = seq)

(* add_history: a record of the same notification moves to the front, and  *)
(* the oldest ones go.                                                     *)
AddHistory(x, id) ==
  LET seq == IF Mapped(x, id) THEN x.sequences[id] ELSE x.next
      all == <<[seq |-> seq, id |-> id]>> \o Without(x.records, seq)
      len == Min({Len(all), HistoryLimit})
      left == Forgotten(x.sequences, ToSet(SubSeq(all, len + 1, Len(all))))
  IN [x EXCEPT !.records = SubSeq(all, 1, len),
               !.next = IF Mapped(x, id) THEN @ ELSE @ + 1,
               !.sequences = [i \in DOMAIN left \cup {id} |-> IF i = id THEN seq ELSE left[i]]]

RemoveHistory(x, id) ==
  LET y == Unmapped(x, id)
  IN IF id \in DOMAIN x.sequences
     THEN [y EXCEPT !.records = Without(@, x.sequences[id])]
     ELSE x

(* The entries of history_publication.                                     *)
Visible(x) ==
  LET open == SelectSeq(x.records, LAMBDA r : r.seq \notin x.hidden)
  IN SubSeq(open, 1, Min({x.count, Len(open)}))

PublishHistory(x) == [x EXCEPT !.shown = Visible(x), !.published = TRUE]

ResetHistory(x) ==
  [x EXCEPT !.count = 0, !.expanded = FALSE, !.hidden = {}, !.published = FALSE, !.shown = <<>>]

Silenced(x) == [x EXCEPT !.opening = FALSE, !.idle = FALSE]

(* close_history; it also asks the core to close the island.               *)
CloseHistory(x) == ResetHistory(Silenced(x))

Awaited(x) == IF x.expanded THEN [x EXCEPT !.idle = TRUE]
              ELSE [x EXCEPT !.idle = FALSE, !.opening = TRUE]

-----------------------------------------------------------------------------
(* What is live.                                                           *)

(* close_notification: the context goes and the client is told.            *)
Closed(x, id) ==
  [x EXCEPT !.live = Restrict(@, DOMAIN @ \ {id}), !.order = RemoveFirst(@, id),
            !.timers = @ \ {id}, !.contexts = @ \ {id}, !.held = @ \ {id}]

(* allocate_id: the first free id from the next one on.                    *)
After(id) == IF id = MaxId THEN 1 ELSE id + 1
Candidate(x, d) == IF x.next + d > MaxId THEN x.next + d - MaxId ELSE x.next + d
Allocated(x) ==
  Candidate(x, CHOOSE d \in 0..MaxId - 1 :
                 /\ Candidate(x, d) \notin DOMAIN x.live
                 /\ \A e \in 0..d - 1 : Candidate(x, e) \in DOMAIN x.live)

Timers(x, id, kind) == IF kind.timed THEN x.timers \cup {id} ELSE x.timers \ {id}

Shown(x, id, kind) ==
  [x EXCEPT !.live = [i \in DOMAIN @ \cup {id} |-> IF i = id THEN kind ELSE @[i]],
            !.order = IF id \in DOMAIN x.live THEN @ ELSE Append(@, id),
            !.timers = Timers(x, id, kind),
            !.contexts = @ \cup {id}, !.held = @ \cup {id}]

-----------------------------------------------------------------------------
(* D-Bus.                                                                  *)

(* Notify: a new id takes the place of the oldest notification when there  *)
(* is no room.  The core's rules may refuse the publication: the call then *)
(* fails, but an id is used and the oldest is gone.                        *)
NotifyBegins(id) ==
  LET room == [n EXCEPT !.next = IF id \in DOMAIN n.live THEN @ ELSE After(id)]
  IN IF id \notin DOMAIN n.live /\ Cardinality(DOMAIN n.live) >= MaxLive
     THEN [n |-> Closed(room, n.order[1]), h |-> Unmapped(h, n.order[1])]
     ELSE [n |-> room, h |-> h]

Recorded(x, id, kind) == IF kind.transient THEN RemoveHistory(x, id) ELSE AddHistory(x, id)

Notify ==
  /\ ~stopped /\ calls < MaxNotify
  /\ \E kind \in Kinds, replaces \in Ids \cup {0}, refused \in BOOLEAN :
       LET id    == IF replaces \in DOMAIN n.live THEN replaces ELSE Allocated(n)
           begun == NotifyBegins(id)
           kept  == Recorded(begun.h, id, kind)
       IN IF refused
          THEN n' = begun.n /\ h' = begun.h /\ UNCHANGED s
          ELSE /\ n' = Shown(begun.n, id, kind)
               /\ h' = IF kept.count > 0 THEN PublishHistory(kept) ELSE kept
               /\ s' = IF kept.records # begun.h.records \/ ~kind.transient
                       THEN RequestSave(s) ELSE s
  /\ calls' = calls + 1
  /\ UNCHANGED <<visibility, stopped>>

(* CloseNotification, the close button, and a timeout.                     *)
Close(id) == n' = Closed(n, id) /\ h' = Unmapped(h, id)

CloseNotification ==
  /\ ~stopped
  /\ \E id \in DOMAIN n.live : Close(id)
  /\ UNCHANGED <<s, visibility, stopped, calls>>

Expire ==
  /\ ~stopped
  /\ \E id \in n.timers : Close(id)
  /\ UNCHANGED <<s, visibility, stopped, calls>>

(* invoke_route of an action of the notification: unless it is resident,   *)
(* it is closed.                                                           *)
Invoke ==
  /\ ~stopped
  /\ \E id \in DOMAIN n.live : ~n.live[id].resident /\ Close(id)
  /\ UNCHANGED <<s, visibility, stopped, calls>>

-----------------------------------------------------------------------------
(* The panel.                                                              *)

ShowMore ==
  /\ ~stopped /\ (h.count = 0 => h.session < MaxSessions)
  /\ LET x == IF h.count = 0 THEN [h EXCEPT !.session = @ + 1, !.hidden = {}] ELSE h
         y == PublishHistory([x EXCEPT !.count = Min({@ + 1, VisibleLimit})])
     IN h' = Awaited([y EXCEPT !.expanded = @ \/ visibility = "expanded-active"])
  /\ UNCHANGED <<n, s, visibility, stopped, calls>>

(* invoke_route of an entry, or of the button that hides them all.  Only   *)
(* what the panel shows now can be hidden.                                 *)
\* mutant: the panel is not published again
AfterHide_Stale(x) == IF x.count = 0 THEN CloseHistory(x) ELSE [x EXCEPT !.idle = TRUE]
AfterHide(x) ==
  IF x.count = 0 THEN CloseHistory(x) ELSE PublishHistory([x EXCEPT !.idle = TRUE])

Hide ==
  /\ ~stopped /\ h.count > 0
  /\ \E r \in ToSet(Visible(h)) :
       h' = AfterHide([h EXCEPT !.hidden = @ \cup {r.seq}, !.count = @ - 1])
  /\ UNCHANGED <<n, s, visibility, stopped, calls>>

CloseAll ==
  /\ ~stopped /\ h.count > 0
  /\ h' = CloseHistory(h)
  /\ UNCHANGED <<n, s, visibility, stopped, calls>>

OpenTimeout ==
  /\ ~stopped /\ h.opening
  /\ LET x == [h EXCEPT !.opening = FALSE]
     IN h' = IF x.count > 0 /\ ~x.expanded THEN CloseHistory(x) ELSE x
  /\ UNCHANGED <<n, s, visibility, stopped, calls>>

IdleTimeout ==
  /\ ~stopped /\ h.idle
  /\ h' = CloseHistory(h)
  /\ UNCHANGED <<n, s, visibility, stopped, calls>>

Visibility ==
  /\ ~stopped
  /\ visibility' \in {"hidden", "compact-active", "expanded-active"} \ {visibility}
  /\ h' = CASE visibility' = "expanded-active" /\ h.count > 0 ->
                 [h EXCEPT !.opening = FALSE, !.expanded = TRUE, !.idle = TRUE]
            [] visibility' = "hidden" /\ h.expanded -> ResetHistory(Silenced(h))
            [] OTHER -> h
  /\ UNCHANGED <<n, s, stopped, calls>>

-----------------------------------------------------------------------------
(* GIO's thread, its callback, and the end.                                *)

WriteEnds ==
  /\ s.stage = "writing"
  /\ \/ s' = [s EXCEPT !.stage = "ended", !.disk = s.active]
     \/ s' = [s EXCEPT !.stage = "ended", !.failed = s.active]
  /\ UNCHANGED <<n, h, visibility, stopped, calls>>

WriteReported ==
  /\ ~stopped /\ s.stage = "ended"
  /\ s' = Finished(s)
  /\ UNCHANGED <<n, h, visibility, stopped, calls>>

(* shutdown: the timers go, the write under way is cancelled and the       *)
(* latest history is written in the same step.                             *)
Shutdown ==
  /\ ~stopped /\ stopped' = TRUE
  /\ n' = [n EXCEPT !.timers = {}]
  /\ h' = Silenced(h)
  /\ \E saved \in BOOLEAN :
       LET final == FinalSnapshot(s)
           x == [s EXCEPT !.pending = None,
                          !.stage = IF LateRename /\ @ = "writing" THEN @ ELSE "idle"]
       IN s' = IF final = None THEN x
               ELSE IF saved THEN [x EXCEPT !.disk = final]
               ELSE [x EXCEPT !.failed = final]
  /\ UNCHANGED <<visibility, calls>>

-----------------------------------------------------------------------------
(* What load_history finds: nothing, or the record of an earlier process.  *)
Loaded == {<<>>, <<[seq |-> 1, id |-> 1]>>}

Init ==
  /\ n = [live |-> <<>>, order |-> <<>>, next |-> 1, timers |-> {}, contexts |-> {}, held |-> {}]
  /\ \E records \in Loaded :
       h = [records |-> records, next |-> Len(records) + 1, sequences |-> <<>>, count |-> 0,
            hidden |-> {}, session |-> 0, expanded |-> FALSE, opening |-> FALSE, idle |-> FALSE,
            published |-> FALSE, shown |-> <<>>]
  /\ s = [generation |-> 0, pending |-> None, latest |-> None, active |-> None,
          stage |-> "idle", disk |-> None, failed |-> None]
  /\ visibility = "hidden" /\ stopped = FALSE /\ calls = 0

Timeouts == OpenTimeout \/ IdleTimeout
Writes   == WriteEnds \/ WriteReported

Next ==
  \/ Notify \/ CloseNotification \/ Expire \/ Invoke
  \/ ShowMore \/ Hide \/ CloseAll \/ Visibility \/ Timeouts
  \/ Writes \/ Shutdown
  \/ stopped /\ UNCHANGED vars

(* GIO's operations end, and the main loop calls back.                      *)
Spec == Init /\ [][Next]_vars /\ WF_vars(WriteEnds) /\ WF_vars(WriteReported)

-----------------------------------------------------------------------------
(* The live table, the order of eviction, the timers, the contexts in the  *)
(* core and the ids the clients still hold tell the same story: a client   *)
(* is told when its notification goes, whoever closed it, and a timer runs *)
(* exactly for what asked for one (close_notification, notify).            *)
LiveIsConsistent ==
  /\ ToSet(n.order) = DOMAIN n.live /\ IsInjective(n.order)
  /\ n.contexts = DOMAIN n.live /\ n.held = DOMAIN n.live
  /\ Cardinality(DOMAIN n.live) <= MaxLive
  /\ ~stopped => n.timers = {id \in DOMAIN n.live : n.live[id].timed}

(* A sequence stands for one record, and a live notification is tied to a  *)
(* record of its own, never to one of an earlier notification with its id; *)
(* what is transient is tied to none (add_history, remove_history).        *)
HistoryIsConsistent ==
  /\ \A i, j \in 1..Len(h.records) : i # j => h.records[i].seq # h.records[j].seq
  /\ \A r \in ToSet(h.records) : r.seq < h.next
  /\ \A id \in DOMAIN h.sequences :
       /\ id \in DOMAIN n.live /\ ~n.live[id].transient
       /\ \E r \in ToSet(h.records) : r.id = id /\ r.seq = h.sequences[id]

(* What is alive, and what is remembered of it.                             *)
NotificationsAreConsistent == LiveIsConsistent /\ HistoryIsConsistent

(* The panel that is on the screen lists what the module takes clicks for, *)
(* and while it is up one of its two timers will close it; without it none *)
(* is left to close something else.                                        *)
PanelIsCurrent ==
  /\ h.published = (h.count > 0)
  /\ h.published => h.shown = Visible(h)
  /\ ~stopped => (h.count > 0) = (h.opening \/ h.idle)

(* Every history is in the file in the end, itself or a later one, and     *)
(* stays there: neither the writes that were waiting for each other nor    *)
(* the one of the shutdown put an older history back.  A write that fails  *)
(* is the only excuse (start_history_save, shutdown_history_save).         *)
HistoryIsSaved ==
  \A g \in 1..MaxNotify :
    (s.latest >= g) ~> [](s.disk >= g \/ s.failed >= g)
=============================================================================
