------------------------------- MODULE LuaHost -------------------------------
(***************************************************************************)
(* gisland-lua-host: the process that runs one Lua module.  One thread     *)
(* turns a loop (lua_host_main.cpp): poll, the transport's advance (write, *)
(* handle buffered records, read, handle), GLib's callbacks, due timers.   *)
(* The module's Lua code is what the callbacks do: a callback emits some   *)
(* data records, may start a timer, and may fail.                          *)
(***************************************************************************)
EXTENDS Naturals, FiniteSets, Sequences, SequencesExt

CONSTANTS
  MaxOut,        \* records the transport's write queue holds (256 in the code)
  MaxBuffered,   \* records init may leave to be sent after ready (256)
  MaxTimers,     \* timers waiting at once (256)
  Budget,        \* records handled per turn of the loop (64)
  Every,         \* the period of update in ticks, 0 for a module without one
  WorksAtLoad,   \* does the module start a timer or a GLib source when loaded
  MaxRecords, MaxData, MaxSequence, MaxEvents, Horizon    \* bounds of the model

ASSUME LuaHostAssumption ==
  /\ {MaxOut, MaxBuffered, MaxTimers, Budget} \subseteq Nat \ {0}
  /\ {Every, MaxRecords, MaxData, MaxSequence, MaxEvents, Horizon} \subseteq Nat
  /\ WorksAtLoad \in BOOLEAN

VARIABLES
  inbox,         \* records in the pipe to the host's standard input
  core,          \* "open", "closed" (the pipe to stdin ended), "gone" (stdout too)
  sent,          \* what the core has sent so far, to bound it and to order it
  lines,         \* LuaTransport::buffered_lines_
  outq,          \* LuaTransport::output_
  first,         \* the kind of the first record the host wrote
  answered,      \* the results the host wrote, in order
  taken,         \* the actions the host took from its input, in order
  initialized, stopped,
  timers,        \* LuaHost::timers_
  sequence,      \* next_timer_sequence_
  periodic,      \* periodic_deadline_
  now,
  events,        \* how many GLib sources became ready, and were found so by a turn
  phase,         \* where the loop is
  turn           \* what this turn of the loop has decided so far

vars == <<inbox, core, sent, lines, outq, first, answered, taken, initialized,
          stopped, timers, sequence, periodic, now, events, phase, turn>>

coreVars == <<inbox, core, sent, now, events>>
hostVars == <<initialized, stopped, timers, sequence, periodic>>
outVars  == <<outq, first, answered>>

None == Horizon + Every + 1
Fresh == [budget |-> Budget, readable |-> FALSE, read |-> FALSE,
          sources |-> 0, refused |-> FALSE, time |-> 0, until |-> 0]

Data(n)         == [i \in 1..n |-> [kind |-> "data", id |-> 0]]
Ready           == [kind |-> "ready", id |-> 0]
Log             == [kind |-> "log", id |-> 0]
ActionResult(i) == [kind |-> "action_result", id |-> i]

(* What a Lua callback may do: emit data, start one timer, raise an error. *)
Callbacks ==
  [data : 0..MaxData, after : {<<"none", 0>>, <<"after", 0>>, <<"after", 1>>}, fails : BOOLEAN]

(* LuaTransport::send for a sequence of records: what does not fit is      *)
(* refused.                                                                *)
Fits(recs)   == Len(outq) + Len(recs) <= MaxOut
Queued(recs) == SubSeq(outq \o recs, 1, Min({MaxOut, Len(outq) + Len(recs)}))

(* schedule_timer: the deadline counts from the time of the dispatch, and  *)
(* a full queue refuses the timer.                                         *)
Scheduled(rest, cb, time) ==
  IF cb.after[1] = "after" /\ Cardinality(rest) < MaxTimers
  THEN rest \cup {[at |-> time + cb.after[2], seq |-> sequence]}
  ELSE rest
NextSequence(rest, cb) ==
  IF cb.after[1] = "after" /\ Cardinality(rest) < MaxTimers THEN sequence + 1 ELSE sequence
MayRun(cb) == cb.after[1] = "after" => sequence < MaxSequence

Fail == phase' = "failed"
Exited == phase \in {"failed", "done"}

-----------------------------------------------------------------------------
(* The core's end of the pipes, the clock and GLib's sources.              *)

CoreSend ==
  /\ core = "open" /\ Len(sent) < MaxRecords
  /\ \E kind \in {"init", "visibility", "action", "unknown", "shutdown"} :
       /\ (kind = "init") <=> (sent = <<>>)
       /\ kind \in {"visibility", "action", "unknown"} => first # "none"
       /\ ~Contains(sent, "shutdown")
       /\ sent' = Append(sent, kind)
       /\ inbox' = Append(inbox, [kind |-> kind, id |-> Len(sent)])
  /\ UNCHANGED <<core, lines, outVars, taken, hostVars, now, events, phase, turn>>

(* The core closes the host's stdin, or ends altogether.                   *)
CoreCloses ==
  /\ \/ core = "open" /\ core' \in {"closed", "gone"}
     \/ core = "closed" /\ core' = "gone"
  /\ UNCHANGED <<inbox, sent, lines, outVars, taken, hostVars, now, events, phase, turn>>

Tick ==
  /\ now < Horizon /\ now' = now + 1
  /\ UNCHANGED <<inbox, core, sent, lines, outVars, taken, hostVars, events, phase, turn>>

SourceReady ==
  /\ (initialized \/ WorksAtLoad) /\ events.raised < MaxEvents
  /\ events' = [events EXCEPT !.raised = @ + 1]
  /\ UNCHANGED <<inbox, core, sent, lines, outVars, taken, hostVars, now, phase, turn>>

-----------------------------------------------------------------------------
(* LuaHost::handle for one record, with what its callback does.            *)

InitOutput(buffered) == <<Ready>> \o buffered

Initialize(cb) ==
  LET recs == InitOutput(Data(Min({cb.data, MaxBuffered})))
  IN /\ MayRun(cb)
     /\ timers' = Scheduled(timers, cb, now)
     /\ sequence' = NextSequence(timers, cb)
     /\ IF cb.fails
        THEN Fail /\ UNCHANGED <<outq, initialized, periodic>>
        ELSE /\ outq' = Queued(recs)
             /\ IF Fits(recs)
                THEN /\ initialized' = TRUE
                     /\ periodic' = IF Every > 0 THEN now + Every ELSE None
                     /\ UNCHANGED phase
                ELSE Fail /\ UNCHANGED <<initialized, periodic>>
     /\ UNCHANGED <<stopped, taken>>

(* visibility: the callback, whose failure ends the host.                  *)
Visibility(cb) ==
  /\ MayRun(cb)
  /\ outq' = Queued(Data(cb.data))
  /\ timers' = Scheduled(timers, cb, now)
  /\ sequence' = NextSequence(timers, cb)
  /\ IF cb.fails THEN Fail ELSE UNCHANGED phase
  /\ UNCHANGED <<initialized, stopped, periodic, taken>>

(* action: what the callback emitted, then exactly one result; an unknown  *)
(* action, an error or an invalid return is logged and refused.  A result  *)
(* that finds the queue full ends the host.                                *)
\* mutant: a refusal is only logged
Answer_LogOnly(id, refused) == IF refused THEN <<Log>> ELSE <<ActionResult(id)>>
Answer(id, refused) == (IF refused THEN <<Log>> ELSE <<>>) \o <<ActionResult(id)>>

Action(id, cb, unknown) ==
  LET recs == Data(cb.data) \o Answer(id, cb.fails \/ unknown)
  IN /\ MayRun(cb)
     /\ outq' = Queued(recs)
     /\ timers' = Scheduled(timers, cb, now)
     /\ sequence' = NextSequence(timers, cb)
     /\ taken' = Append(taken, id)
     /\ IF Fits(recs) THEN UNCHANGED phase ELSE Fail
     /\ UNCHANGED <<initialized, stopped, periodic>>

Shutdown(cb) ==
  /\ MayRun(cb)
  /\ stopped' = TRUE
  /\ outq' = Queued(Data(cb.data))
  /\ timers' = {}
  /\ sequence' = NextSequence(timers, cb)
  /\ periodic' = None
  /\ IF cb.fails THEN Fail ELSE UNCHANGED phase
  /\ UNCHANGED <<initialized, taken>>

Silent == [data |-> 0, after |-> <<"none", 0>>, fails |-> FALSE]

Handle(rec) ==
  CASE stopped /\ rec.kind = "shutdown" -> UNCHANGED <<hostVars, outq, taken, phase>>
    [] stopped /\ rec.kind # "shutdown" -> Fail /\ UNCHANGED <<hostVars, outq, taken>>
    [] ~stopped /\ initialized # (rec.kind # "init") ->
         Fail /\ UNCHANGED <<hostVars, outq, taken>>
    [] OTHER ->
         \/ rec.kind = "unknown" /\ Action(rec.id, Silent, TRUE)
         \/ \E cb \in Callbacks :
              \/ rec.kind = "init" /\ Initialize(cb)
              \/ rec.kind = "visibility" /\ Visibility(cb)
              \/ rec.kind = "action" /\ Action(rec.id, cb, FALSE)
              \/ rec.kind = "shutdown" /\ Shutdown(cb)

-----------------------------------------------------------------------------
(* One turn of the loop.                                                   *)

SourcesReady == events.raised > events.served
Due(t, time) == t.at <= time
\* mutant: only update wakes the loop
Deadline_Periodic == periodic <= now
Deadline == \/ \E t \in timers : Due(t, now)
            \/ periodic <= now
\* mutant: what is buffered does not wake the loop
CanPoll_Descriptors == inbox # <<>> \/ core # "open" \/ Deadline \/ SourcesReady
CanPoll  == inbox # <<>> \/ core # "open" \/ lines # <<>> \/ Deadline \/ SourcesReady

(* The actions that the results in q answer, in order.                     *)
ResultsAt(q) == {i \in 1..Len(q) : q[i].kind = "action_result"}
Results(q) ==
  LET at(n) == CHOOSE p \in ResultsAt(q) : Cardinality({i \in ResultsAt(q) : i <= p}) = n
  IN [n \in 1..Cardinality(ResultsAt(q)) |-> q[at(n)].id]

(* Records leave the queue for the pipe in order; the core is assumed to   *)
(* read, so the pipe takes at least the front one.                         *)
Write(k) ==
  LET out == SubSeq(outq, 1, k) IN
  /\ outq' = SubSeq(outq, k + 1, Len(outq))
  /\ first' = IF first = "none" THEN out[1].kind ELSE first
  /\ answered' = answered \o Results(out)

(* With output pending the loop polls standard output only.                *)
PollWrite ==
  /\ phase = "poll" /\ ~stopped /\ outq # <<>>
  /\ IF core = "gone"
     THEN Fail /\ UNCHANGED outVars
     ELSE (\E k \in 1..Len(outq) : Write(k)) /\ UNCHANGED phase
  /\ UNCHANGED <<coreVars, lines, taken, hostVars, turn>>

PollRead ==
  /\ phase = "poll" /\ ~stopped /\ outq = <<>> /\ CanPoll
  /\ phase' = IF core = "gone" THEN "failed" ELSE "records"
  /\ turn' = [Fresh EXCEPT !.readable = inbox # <<>> \/ core # "open"]
  /\ UNCHANGED <<coreVars, lines, outVars, taken, hostVars>>

CanHandle == turn.budget > 0 /\ lines # <<>> /\ outq = <<>>
CanRead   == turn.readable /\ ~turn.read /\ turn.budget > 0 /\ outq = <<>>

(* process_buffered_lines: one record.                                     *)
HandleLine ==
  /\ phase = "records" /\ CanHandle
  /\ lines' = Tail(lines)
  /\ turn' = [turn EXCEPT !.budget = @ - 1]
  /\ Handle(Head(lines))
  /\ UNCHANGED <<coreVars, first, answered>>

EndOfInput == IF stopped THEN "flush" ELSE "failed"

(* read_input: one read takes some of what the pipe holds; its end, once   *)
(* all has been read, is an error unless the host was shut down.           *)
ReadInput ==
  /\ phase = "records" /\ ~CanHandle /\ CanRead
  /\ turn' = [turn EXCEPT !.read = TRUE]
  /\ \/ \E k \in 1..Len(inbox) :
          /\ lines' = lines \o SubSeq(inbox, 1, k)
          /\ inbox' = SubSeq(inbox, k + 1, Len(inbox))
          /\ UNCHANGED phase
     \/ /\ inbox = <<>>
        /\ phase' = EndOfInput
        /\ UNCHANGED <<inbox, lines>>
  /\ UNCHANGED <<core, sent, outVars, taken, hostVars, now, events>>

(* With output pending the turn ends here and GLib's poll is cancelled.    *)
\* mutant: callbacks run although output is pending
AfterAdvance_Glib == "glib"
AfterAdvance == IF outq # <<>> THEN "poll" ELSE "glib"

AdvanceEnds ==
  /\ phase = "records" /\ ~CanHandle /\ ~CanRead
  /\ phase' = AfterAdvance
  /\ turn' = Fresh
  /\ UNCHANGED <<coreVars, lines, outVars, taken, hostVars>>

(* run_external_callbacks: GLib runs, one after the other, the callbacks   *)
(* of the sources it found ready, those of the highest priority; nobody    *)
(* looks at the pending output between them.  An error of the queue is     *)
(* kept although Lua swallowed it, and ends the host after the last one.   *)
NoDispatch == stopped \/ ~SourcesReady
DueFrom(t) == [t EXCEPT !.time = now, !.until = sequence]

Dispatch ==
  /\ phase = "glib"
  /\ \/ NoDispatch /\ phase' = "due" /\ turn' = DueFrom(Fresh) /\ UNCHANGED events
     \/ /\ ~NoDispatch /\ phase' = "sources"
        /\ \E k \in 1..(events.raised - events.served) :
             /\ events' = [events EXCEPT !.served = @ + k]
             /\ turn' = [turn EXCEPT !.sources = k, !.time = now]
  /\ UNCHANGED <<inbox, core, sent, now, lines, outVars, taken, hostVars>>

RunSource ==
  /\ phase = "sources" /\ turn.sources > 0
  /\ \E cb \in {c \in Callbacks : ~c.fails} :
       /\ MayRun(cb)
       /\ outq' = Queued(Data(cb.data))
       /\ timers' = Scheduled(timers, cb, turn.time)
       /\ sequence' = NextSequence(timers, cb)
       /\ turn' = [turn EXCEPT !.sources = @ - 1, !.refused = @ \/ ~Fits(Data(cb.data))]
  /\ UNCHANGED <<coreVars, lines, first, answered, taken, initialized, stopped, periodic, phase>>

(* The timers run in this turn if no source left output.                   *)
DispatchEnds ==
  /\ phase = "sources" /\ turn.sources = 0
  /\ phase' = IF turn.refused THEN "failed" ELSE IF outq # <<>> THEN "poll" ELSE "due"
  /\ turn' = IF phase' = "due" THEN DueFrom(Fresh) ELSE Fresh
  /\ UNCHANGED <<coreVars, lines, outVars, taken, hostVars>>

Runnable == {t \in timers : Due(t, turn.time) /\ t.seq < turn.until}
Earlier(t, u) == t.at < u.at \/ (t.at = u.at /\ t.seq < u.seq)
Earliest(t) == t \in Runnable /\ \A u \in Runnable \ {t} : Earlier(t, u)

(* run_due: the timers that were there when it began, earliest first,      *)
(* until one emits.                                                        *)
RunTimer ==
  /\ phase = "due" /\ ~stopped
  /\ \E t \in timers, cb \in Callbacks :
       /\ Earliest(t) /\ MayRun(cb)
       /\ outq' = Queued(Data(cb.data))
       /\ timers' = Scheduled(timers \ {t}, cb, turn.time)
       /\ sequence' = NextSequence(timers \ {t}, cb)
       /\ phase' = IF cb.fails THEN "failed" ELSE IF outq' # <<>> THEN "poll" ELSE "due"
  /\ turn' = IF phase' = "due" THEN turn ELSE Fresh
  /\ UNCHANGED <<coreVars, lines, first, answered, taken, initialized, stopped, periodic>>

(* The end of run_due: update, if it is due and nothing was emitted.       *)
RunUpdate ==
  /\ phase = "due" /\ (stopped \/ Runnable = {})
  /\ IF ~stopped /\ periodic <= turn.time
     THEN \E cb \in Callbacks :
            /\ MayRun(cb)
            /\ outq' = Queued(Data(cb.data))
            /\ timers' = Scheduled(timers, cb, turn.time)
            /\ sequence' = NextSequence(timers, cb)
            /\ IF cb.fails THEN Fail /\ UNCHANGED periodic
                           ELSE phase' = "poll" /\ periodic' = turn.time + Every
     ELSE phase' = "poll" /\ UNCHANGED <<outq, timers, sequence, periodic>>
  /\ turn' = Fresh
  /\ UNCHANGED <<coreVars, lines, first, answered, taken, initialized, stopped>>

LoopEnds ==
  /\ phase = "poll" /\ stopped
  /\ phase' = "flush"
  /\ UNCHANGED <<coreVars, lines, outVars, taken, hostVars, turn>>

(* What is left is written before the process ends.                        *)
Flush ==
  /\ phase = "flush"
  /\ IF outq = <<>> THEN phase' = "done" /\ UNCHANGED outVars
     ELSE IF core = "gone" THEN Fail /\ UNCHANGED outVars
     ELSE (\E k \in 1..Len(outq) : Write(k)) /\ UNCHANGED phase
  /\ UNCHANGED <<coreVars, lines, taken, hostVars, turn>>

-----------------------------------------------------------------------------
Init ==
  /\ inbox = <<>> /\ core = "open" /\ sent = <<>> /\ lines = <<>> /\ outq = <<>>
  /\ first = "none" /\ answered = <<>> /\ taken = <<>>
  /\ initialized = FALSE /\ stopped = FALSE
  /\ timers = IF WorksAtLoad THEN {[at |-> 0, seq |-> 0]} ELSE {}
  /\ sequence = IF WorksAtLoad THEN 1 ELSE 0
  /\ periodic = None /\ now = 0 /\ events = [raised |-> 0, served |-> 0] /\ phase = "poll" /\ turn = Fresh

HostStep ==
  \/ PollWrite \/ PollRead \/ HandleLine \/ ReadInput \/ AdvanceEnds
  \/ Dispatch \/ RunSource \/ DispatchEnds \/ RunTimer \/ RunUpdate \/ LoopEnds \/ Flush

Next ==
  \/ HostStep
  \/ ~Exited /\ (CoreSend \/ CoreCloses \/ Tick \/ SourceReady)
  \/ Exited /\ UNCHANGED vars

(* The process is scheduled; the core owes the host nothing.               *)
Spec == Init /\ [][Next]_vars /\ WF_vars(HostStep)
-----------------------------------------------------------------------------
(* The first record the core ever reads from a host is ready: everything   *)
(* init emits is kept until then (initialize, emit_record), which the      *)
(* supervisor requires of every module.                                    *)
ReadyFirst ==
  /\ first \in {"none", "ready"}
  /\ (first = "none" /\ outq # <<>>) => Head(outq).kind = "ready"

(* Every action taken from the input gets one result, in the order the     *)
(* actions were taken, whatever its callback did; a host that ends in a    *)
(* failure leaves at most the last one unanswered, and one that ends well  *)
(* leaves none.                                                            *)
AnswersInOrder ==
  IF phase = "failed"
  THEN IsPrefix(answered, taken) /\ Len(taken) <= Len(answered) + 1
  ELSE /\ answered \o Results(outq) = taken
       /\ phase = "done" => outq = <<>>

(* What the core reads of a host: ready, then what belongs to it, in order. *)
RecordsInOrder == ReadyFirst /\ AnswersInOrder

(* The queue never mixes the output of two dispatches: a record, a timer   *)
(* or an update that emits found it empty, and so did the first of the     *)
(* sources that GLib runs in one turn, which may add to what the sources   *)
(* before it emitted.  So a module overflows it only by itself, with one   *)
(* callback or with the sources of one turn (the conditions on pending     *)
(* output in main, advance and run_due).                                   *)
OneDispatchAtATime ==
  [][/\ Len(outq') > Len(outq) => outq = <<>> \/ phase = "sources"
     /\ phase # "sources" /\ phase' = "sources" => outq = <<>>]_vars

(* After shutdown no callback runs again: no output, no timer, no action   *)
(* (the stopped_ checks of handle, run_due and run_external_callbacks).    *)
QuietAfterShutdown ==
  [][stopped => stopped' /\ timers' = {} /\ Len(outq') <= Len(outq) /\ taken' = taken]_vars

(* A dispatch runs on its own, and none after shutdown.                     *)
DispatchesAreApart == OneDispatchAtATime /\ QuietAfterShutdown

(* What the core sends is handled, although the loop may be asleep when    *)
(* records wait in the transport's own buffer (has_buffered_input).        *)
RecordsAreHandled == []<>(Exited \/ (inbox = <<>> /\ lines = <<>>))

(* A timer that is due runs, or the host ends, once the input and GLib's   *)
(* sources pause (both are bounded here): the loop skips run_due in every  *)
(* turn that left output, but it never sleeps through a deadline.          *)
Waiting(s) == \E t \in timers : t.seq = s
DueTimersRun ==
  \A s \in 0..MaxSequence :
    (\E t \in timers : t.seq = s /\ Due(t, now)) ~> (Exited \/ ~Waiting(s))
=============================================================================
