--------------------------------- MODULE Runtime --------------------------------
(* class RuntimeCoordinator (src/runtime.cpp) and the part of the frame of        *)
(* Application::run (src/application.cpp) that feeds it: supervisor events are    *)
(* consumed, commands change the arbitration, the selected contexts are rendered  *)
(* and accepted or rejected, and modules are told what became of them.            *)
(*                                                                                *)
(* A frame goes through the phases                                                *)
(*   start    an automatic reload may happen                                      *)
(*   events   supervisor.drain_events(), one event per step                       *)
(*   control  the activation is held or not; the commands of gislandctl           *)
(*   render   selections, render_context, accept or reject                        *)
(*   tell     visibility_updates, sent to the modules                             *)
(* and time passes between frames.  Beside it run the modules and the supervisor, *)
(* with the freedom that ProcessEvents gives them; what they emit waits in        *)
(* `queue` for the next frame.  The policy `hidden mode` is off.                  *)

EXTENDS Arbiter, Sequences

CONSTANTS
  Configurations,   \* configurations a reload may bring: functions from Instances
  Publications,     \* the publish messages of modules: records with the context's key
  Defaults,         \* compact and expanded defaults: a function from Slots to Instances
  MaxGeneration,    \* bound: processes per module
  MaxRevision,      \* bound: the revision after which modules and clients fall silent
  MaxQueue          \* bound: events waiting for a frame

ASSUME RuntimeAssumption ==
  /\ IsFiniteSet(Keys)
  /\ Configurations \subseteq [Instances -> [enabled : BOOLEAN, process : Nat, view : STRING]]
  /\ Publications \subseteq [key : Keys, priority : Int, left : Lifetimes, compact : STRING,
                             expanded : STRING, fallback_only : BOOLEAN]
  /\ {MaxGeneration, MaxRevision, MaxQueue} \subseteq Nat

VARIABLES
  arbiter,          \* arbiter_
  config,           \* configured_instances_, and the view templates of views_
  snapshots,        \* the instances whose ModuleViewState keeps a snapshot
  ready,            \* ready_instances_
  generations,      \* process_generations_, a map
  visibility,       \* visibility_, a map
  pending,          \* pending_replacements_, a map
  revision,         \* revision_
  rendered,         \* what the frame has put on the screen
  content,          \* whether there was something on it before this frame's render
  phase,
  presence,         \* each module's process, as in ProcessEvents
  generation,       \* the generation of each module's last process
  queue,            \* the supervisor's events
  supervised,       \* the modules enabled in the configuration the supervisor has got to
  orders,           \* the modules that a reload has it stop or replace, still to be done
  seen,             \* the visibility that each process was last told
  accepted          \* history: the version of each context that was rendered last

coordinator == <<arbiter, config, snapshots, ready, generations, visibility, pending, revision>>
modules == <<presence, generation, queue, supervised, orders, seen>>
screen == <<rendered, content>>
vars == <<coordinator, screen, phase, modules, accepted>>

--------------------------------------------------------------------------------
(* A configuration gives each instance whether it is enabled, a process definition *)
(* and a view template (or none).  A template is what it makes of a snapshot.      *)

Within(map, keys) == [key \in DOMAIN map \cap keys |-> map[key]]
Remove(map, keys) == [key \in DOMAIN map \ keys |-> map[key]]
Put(map, key, value) == [k \in DOMAIN map \cup {key} |-> IF k = key THEN value ELSE map[k]]
Over(new, old) ==
  [k \in DOMAIN new \cup DOMAIN old |-> IF k \in DOMAIN new THEN new[k] ELSE old[k]]

Configured(instance) == <<instance, "configured">>

KindOfChange(instance, old, new) ==
  IF \/ old[instance].enabled # new[instance].enabled
     \/ old[instance].process # new[instance].process
  THEN "process"
  ELSE IF old[instance].view # new[instance].view THEN "view" ELSE "unchanged"

HasView(instance) == config[instance].enabled /\ config[instance].view # NoView

Bad == "bad"        \* a scene that render_context refuses

\* A publish message as the arbiter gets it.
Received(publication, rev) ==
  [key |-> publication.key, priority |-> publication.priority, left |-> publication.left,
   compact |-> publication.compact, expanded |-> publication.expanded,
   fallback_only |-> publication.fallback_only, revision |-> rev, sequence |-> 0]

\* The publication of a configured view.
Instantiated(instance, view, rev) ==
  [key |-> Configured(instance), priority |-> 0, left |-> Forever, compact |-> view,
   expanded |-> view, fallback_only |-> TRUE, revision |-> rev, sequence |-> 0]

\* selections(): both slots, once the arbiter has expired.
Selections(arb) == [slot \in Slots |-> Active(arb, slot)]

\* What render_context keeps of a selection: its key, its revision and the scene.
Shown(context, slot, rev) ==
  IF context = NoContext
  THEN [key |-> <<"none">>, revision |-> rev, scene |-> NoView]
  ELSE [key |-> context.key, revision |-> context.revision, scene |-> context[slot]]

\* What decides that a slot has to be rendered again; an empty expanded slot never does.
Version(shown, slot) ==
  IF slot = "expanded" /\ shown.key = <<"none">> THEN <<shown.key, 0>>
  ELSE <<shown.key, shown.revision>>

Scene_EmptyIsZero(selection, rev) ==   \* mutant
  [slot \in Slots |-> Shown(selection[slot], slot, 0)]

Scene(selection, rev) == [slot \in Slots |-> Shown(selection[slot], slot, rev)]
Nothing == [slot \in Slots |-> Shown(NoContext, slot, 0)]

\* render_context refuses the compact scene before the expanded one.
Refused(selection) ==
  LET refuses(slot) == selection[slot] # NoContext /\ selection[slot][slot] = Bad
  IN  IF refuses("compact") THEN selection["compact"]
      ELSE IF refuses("expanded") THEN selection["expanded"] ELSE NoContext

KeysIn(selection) == {selection[slot].key : slot \in {s \in Slots : selection[s] # NoContext}}

\* The pending replacements whose context has gone are forgotten by every question.
Prune(map, arb) == Within(map, Published(arb))

\* The history follows the arbiter: a context that it is found without was withdrawn, and
\* what it held is no longer there to fall back on.
StillAccepted(arb) == Within(accepted, Published(arb))

--------------------------------------------------------------------------------
(* consume(event).                                                                *)

Matches(event) ==
  event.instance \in DOMAIN generations => generations[event.instance] = event.generation

ConsumeStarted(event) ==
  /\ event.kind = "started"
  /\ generations' = Put(generations, event.instance, event.generation)
  /\ UNCHANGED <<arbiter, snapshots, ready, visibility, pending, revision, accepted>>

ConsumeReady(event) ==
  /\ event.kind = "ready" /\ Matches(event)
  /\ ready' = ready \cup {event.instance}
  /\ generations' = Put(generations, event.instance, event.generation)
  /\ UNCHANGED <<arbiter, snapshots, visibility, pending, revision, accepted>>

\* remember_replacement, publish and, for a PublishMessage, the selections of the frame.
\* Only a context with nothing remembered is looked up, and so asks the arbiter.
LookedUp(key) == IF key \in DOMAIN pending THEN arbiter ELSE Expire(arbiter)

RememberReplacement_Always(key) ==   \* mutant
  LET arb == Expire(arbiter)
  IN  Put(pending, key, IF key \in Published(arb) THEN arb.contexts[key] ELSE NoContext)

RememberReplacement(key) ==
  LET arb == Expire(arbiter)
  IN  IF key \in DOMAIN pending THEN pending
      ELSE Put(pending, key, IF key \in Published(arb) THEN arb.contexts[key] ELSE NoContext)

ConsumePublish(event) ==
  /\ event.kind = "publish" /\ Matches(event)
  /\ LET arb == Expire(Publish(LookedUp(event.about.key), Received(event.about, revision + 1)))
     IN  /\ arbiter' = arb
         /\ pending' = Prune(RememberReplacement(event.about.key), arb)
         /\ accepted' = StillAccepted(arb)
  /\ revision' = revision + 1
  /\ UNCHANGED <<snapshots, ready, generations, visibility>>

ConsumeData(event) ==
  /\ event.kind = "data" /\ Matches(event) /\ HasView(event.instance)
  /\ arbiter' = Publish(LookedUp(Configured(event.instance)),
                        Instantiated(event.instance, config[event.instance].view, revision + 1))
  /\ pending' = RememberReplacement(Configured(event.instance))
  /\ snapshots' = snapshots \cup {event.instance}
  /\ revision' = revision + 1
  /\ UNCHANGED <<ready, generations, visibility, accepted>>

ConsumeDismiss(event) ==
  /\ event.kind = "dismiss" /\ Matches(event)
  /\ arbiter' = Dismiss(arbiter, event.about)
  /\ pending' = Remove(pending, {event.about})
  /\ accepted' = Remove(accepted, {event.about})
  /\ revision' = revision + 1
  /\ UNCHANGED <<snapshots, ready, generations, visibility>>

Forget_KeepsVisibility(instance) ==   \* mutant
  /\ ready' = ready \ {instance}
  /\ generations' = Remove(generations, {instance})
  /\ visibility' = visibility

\* What was known of the process, when its contexts are removed.
Forget(instance) ==
  /\ ready' = ready \ {instance}
  /\ generations' = Remove(generations, {instance})
  /\ visibility' = Remove(visibility, {instance})

ConsumeRemoved(event) ==
  /\ event.kind = "removed" /\ Matches(event)
  /\ arbiter' = DismissInstance(arbiter, event.instance)
  /\ LET gone == {key \in Keys : key[1] = event.instance}
     IN  pending' = Remove(pending, gone) /\ accepted' = Remove(accepted, gone)
  /\ Forget(event.instance)
  /\ revision' = revision + 1
  /\ UNCHANGED snapshots

\* An event of another generation, or a snapshot for a module without a view.
ConsumeNothing(event) ==
  /\ \/ event.kind # "started" /\ ~Matches(event)
     \/ event.kind = "data" /\ ~HasView(event.instance)
  /\ UNCHANGED <<arbiter, snapshots, ready, generations, visibility, pending, revision, accepted>>

Consume ==
  /\ phase = "events" /\ queue # << >>
  /\ LET event == Head(queue)
     IN  \/ ConsumeStarted(event) \/ ConsumeReady(event) \/ ConsumePublish(event)
         \/ ConsumeData(event) \/ ConsumeDismiss(event) \/ ConsumeRemoved(event)
         \/ ConsumeNothing(event)
  /\ queue' = Tail(queue)
  /\ UNCHANGED <<config, screen, phase, presence, generation, supervised, orders, seen>>

--------------------------------------------------------------------------------
(* reload_application: plan_reload, prepare_reload, the render of the candidate     *)
(* and commit_reload, or nothing at all.                                            *)

\* The arbiter of the candidate: replaced modules lose their contexts, and a changed
\* view is instantiated from the snapshot that was kept, if any.
PreparedArbiter(new) ==
  LET changed(kind) == {i \in Instances : KindOfChange(i, config, new) = kind}
      updated == {i \in changed("view") : new[i].enabled}
      again == {i \in updated \cap snapshots : new[i].view # NoView}
      kept == Erase(arbiter, {key \in Keys : key[1] \in changed("process")}
                               \cup {Configured(i) : i \in updated \ again})
      views == [key \in {Configured(i) : i \in again} |->
                  [Instantiated(key[1], new[key[1]].view, revision + 1)
                     EXCEPT !.sequence = Newest(kept) + 1]]
  IN  Expire([kept EXCEPT !.contexts = Over(views, @)])

\* What is published is taken as it is, rendered or not: nothing is remembered of it.
CommitReload(new) ==
  LET replaced == {i \in Instances : KindOfChange(i, config, new) = "process"}
      arb == PreparedArbiter(new)
      selection == Selections(arb)
  IN  /\ arbiter' = arb
      /\ config' = new
      /\ snapshots' = {i \in snapshots \ replaced : new[i].enabled /\ new[i].view # NoView}
      /\ ready' = ready \ replaced
      /\ visibility' = Remove(visibility, replaced)
      /\ pending' = << >>
      /\ revision' = revision + 1
      /\ rendered' = IF \A slot \in Slots : selection[slot] = NoContext
                     THEN Nothing ELSE Scene(selection, revision + 1)
      /\ orders' = orders \cup replaced
      /\ accepted' = arb.contexts
      /\ UNCHANGED <<generations, content>>

\* Revisions are bounded where they come from: modules, clients and reloads.
MayRevise == revision + Len(queue) < MaxRevision

\* The reload of the watcher comes before the events, that of gislandctl after them.
Reload(new) ==
  /\ phase \in {"start", "control"} /\ new \in Configurations \ {config} /\ MayRevise
  /\ Refused(Selections(PreparedArbiter(new))) = NoContext
  /\ CommitReload(new)
  /\ UNCHANGED <<phase, presence, generation, queue, supervised, seen>>

--------------------------------------------------------------------------------
(* The rest of the frame.                                                           *)

\* Whatever asks the arbiter something leaves it expired, and the pending map pruned.
Asked(arb) ==
  LET expired == Expire(arb)
  IN  arbiter' = expired /\ pending' = Prune(pending, expired) /\ accepted' = StillAccepted(expired)

BeginFrame ==
  /\ phase = "start"
  /\ phase' = "events"
  /\ UNCHANGED <<coordinator, screen, modules, accepted>>

\* The queue was drained; hover or the keyboard holds the activation while the island
\* is expanded.
HoldActivation ==
  /\ phase = "events" /\ queue = << >>
  /\ phase' = "control"
  /\ \E held \in BOOLEAN :
       /\ held => rendered["expanded"].scene # NoView
       /\ Asked([arbiter EXCEPT !.held = held])
  /\ UNCHANGED <<config, snapshots, ready, generations, visibility, revision, screen, modules>>

\* activate, and an activate-open that finds an expanded view, for an enabled instance
\* that has a context.
ActivateCommand(instance) ==
  /\ phase = "control" /\ MayRevise
  /\ config[instance].enabled /\ Available(Expire(arbiter), instance)
  /\ \E left \in {Forever} \cup 1..MaxLifetime : Asked(Activate(Expire(arbiter), instance, left))
  /\ revision' = revision + 1
  /\ UNCHANGED <<config, snapshots, ready, generations, visibility, screen, phase, modules>>

\* activate-open when the island would expand another instance: the activation is taken
\* back, and what was activated before is lost.
ActivateOpenRefused(instance) ==
  /\ phase = "control" /\ MayRevise
  /\ config[instance].enabled /\ Available(Expire(arbiter), instance)
  /\ LET arb == Expire(Activate(Expire(arbiter), instance, Forever))
         selected == Active(arb, "expanded")
     IN  /\ selected # NoContext => InstanceOf(selected) # instance
         /\ Asked(ClearActivation(arb, {arb.activation.key}))
  /\ revision' = revision + 2
  /\ UNCHANGED <<config, snapshots, ready, generations, visibility, screen, phase, modules>>

\* close, collapse, toggle of an expanded island, or a button that closes it, with all
\* keys; the end of a keyboard session, with that of the context it was for.
Clears(keys) ==
  /\ MayRevise
  /\ arbiter' = ClearActivation(arbiter, keys)
  /\ revision' = IF arbiter'.activation # arbiter.activation THEN revision + 1 ELSE revision
  /\ UNCHANGED <<config, snapshots, ready, generations, visibility, pending, screen, phase,
                 modules, accepted>>

Close == phase \in {"control", "tell"} /\ Clears(Keys)
EndKeyboardSession == phase = "tell" /\ \E key \in Keys : Clears({key})

\* dismiss: the context id is that of the context in the slot on show.
DismissCommand(slot) ==
  /\ phase = "control" /\ MayRevise
  /\ LET arb == Expire(arbiter)
         selected == Active(arb, slot)
     IN  /\ selected # NoContext
         /\ arbiter' = Dismiss(arb, selected.key)
         /\ accepted' = Remove(StillAccepted(arb), {selected.key})
  /\ revision' = revision + 1
  /\ UNCHANGED <<config, snapshots, ready, generations, visibility, pending, screen, phase,
                 modules>>

BeginRender ==
  /\ phase = "control"
  /\ phase' = "render"
  /\ Asked(arbiter)
  /\ content' = (rendered # Nothing)
  /\ UNCHANGED <<config, snapshots, ready, generations, visibility, revision, rendered, modules>>

Selected == Selections(arbiter)
NothingSelected == \A slot \in Slots : Selected[slot] = NoContext

Changed ==
  /\ ~NothingSelected
  /\ \E slot \in Slots :
       Version(rendered[slot], slot) # Version(Shown(Selected[slot], slot, revision), slot)

\* accept() for the contexts of both slots.
Accept ==
  /\ pending' = Remove(pending, KeysIn(Selected))
  /\ accepted' = Over(Within(arbiter.contexts, KeysIn(Selected)), accepted)

RenderAccepted ==
  /\ phase = "render" /\ Changed /\ Refused(Selected) = NoContext
  /\ rendered' = Scene(Selected, revision)
  /\ Accept
  /\ phase' = "tell"
  /\ UNCHANGED <<content, arbiter, config, snapshots, ready, generations, visibility, revision, modules>>

\* reject(key): what the pending map remembers is published again.
Rejected(key) ==
  LET arb == IF key \in DOMAIN pending /\ pending[key] # NoContext
             THEN Publish(arbiter, pending[key])
             ELSE Dismiss(arbiter, key)
  IN  arbiter' = arb /\ accepted' = StillAccepted(arb)

RenderRejected ==
  /\ phase = "render" /\ Changed /\ Refused(Selected) # NoContext
  /\ Rejected(Refused(Selected).key)
  /\ pending' = Remove(pending, {Refused(Selected).key})
  /\ revision' = revision + 1
  /\ phase' = "tell"
  /\ UNCHANGED <<config, snapshots, ready, generations, visibility, screen, modules>>

RenderNothing ==
  /\ phase = "render" /\ ~Changed
  /\ rendered' = IF NothingSelected THEN Nothing ELSE rendered
  /\ phase' = "tell"
  /\ UNCHANGED <<content, coordinator, modules, accepted>>

\* visibility_updates for the slot on show, if the window is visible, and the messages that tell the modules.
VisibilityOf(instance, selected, slot) ==
  IF selected # NoContext /\ InstanceOf(selected) = instance THEN slot ELSE "hidden"

Tell ==
  /\ phase = "tell"
  /\ \E slot \in Slots :
       LET arb == Expire(arbiter)
           presented == content /\ rendered # Nothing
           selected == IF presented THEN Active(arb, slot) ELSE NoContext
           listening == {i \in ready : config[i].enabled}
           next == [i \in listening |-> VisibilityOf(i, selected, slot)]
           updated == {i \in listening : i \notin DOMAIN visibility \/ visibility[i] # next[i]}
       IN  /\ slot = "expanded" => rendered["expanded"].scene # NoView
           /\ arbiter' = arb /\ accepted' = StillAccepted(arb)
           /\ visibility' = Over(next, visibility)
           /\ seen' = [i \in Instances |->
                         IF i \in updated /\ presence[i] = "running" THEN next[i] ELSE seen[i]]
  /\ phase' = "start" /\ content' = FALSE
  /\ UNCHANGED <<config, snapshots, ready, generations, pending, revision, rendered,
                 presence, generation, queue, supervised, orders>>

Tick ==
  /\ phase = "start"
  /\ arbiter' = Aged(arbiter)
  /\ pending' = [key \in DOMAIN pending |->
                   IF pending[key] = NoContext THEN NoContext ELSE Older(pending[key])]
  /\ accepted' = [key \in DOMAIN accepted |-> Older(accepted[key])]
  /\ UNCHANGED <<config, snapshots, ready, generations, visibility, revision, screen, phase,
                 modules>>

Application ==
  \/ BeginFrame \/ Consume \/ HoldActivation \/ BeginRender
  \/ RenderAccepted \/ RenderRejected \/ RenderNothing \/ Tell \/ Tick
  \/ Close \/ EndKeyboardSession
  \/ \E instance \in Instances : ActivateCommand(instance) \/ ActivateOpenRefused(instance)
  \/ \E slot \in Slots : DismissCommand(slot)
  \/ \E new \in Configurations : Reload(new)

--------------------------------------------------------------------------------
(* The modules and the supervisor.                                                  *)

NothingMore == "nothing more"

\* `about` is what an event says: the publication, the context to dismiss, or nothing.
EmitEvent(kind, instance, number, about) ==
  /\ Len(queue) < MaxQueue
  /\ queue' = Append(queue, [kind |-> kind, instance |-> instance, generation |-> number,
                             about |-> about])

ProcessStarts(i) ==
  /\ presence[i] = "absent" /\ i \in supervised /\ generation[i] < MaxGeneration
  /\ presence' = [presence EXCEPT ![i] = "starting"]
  /\ generation' = [generation EXCEPT ![i] = @ + 1]
  /\ EmitEvent("started", i, generation[i] + 1, NothingMore)
  /\ seen' = [seen EXCEPT ![i] = "untold"]
  /\ UNCHANGED <<coordinator, screen, phase, supervised, orders, accepted>>

\* A spawn that fails takes a generation and removes contexts nobody has published.
SpawnFails(i) ==
  /\ presence[i] = "absent" /\ i \in supervised /\ generation[i] < MaxGeneration
  /\ generation' = [generation EXCEPT ![i] = @ + 1]
  /\ EmitEvent("removed", i, generation[i] + 1, NothingMore)
  /\ UNCHANGED <<coordinator, screen, phase, presence, supervised, orders, seen, accepted>>

BecomesReady(i) ==
  /\ presence[i] = "starting"
  /\ presence' = [presence EXCEPT ![i] = "running"]
  /\ EmitEvent("ready", i, generation[i], NothingMore)
  /\ UNCHANGED <<coordinator, screen, phase, generation, supervised, orders, seen, accepted>>

Says(i) ==
  /\ presence[i] = "running" /\ MayRevise
  /\ \/ \E publication \in Publications :
          publication.key[1] = i /\ EmitEvent("publish", i, generation[i], publication)
     \/ Configured(i) \in Keys /\ EmitEvent("data", i, generation[i], NothingMore)
     \/ \E key \in Keys : key[1] = i /\ EmitEvent("dismiss", i, generation[i], key)
  /\ UNCHANGED <<coordinator, screen, phase, presence, generation, supervised, orders, seen, accepted>>

\* Whatever ends a process, its contexts are removed first.
ContextsRemoved(i) ==
  /\ presence[i] # "absent"
  /\ presence' = [presence EXCEPT ![i] = "absent"]
  /\ EmitEvent("removed", i, generation[i], NothingMore)
  /\ UNCHANGED <<coordinator, screen, phase, generation, supervised, orders, seen, accepted>>

\* The supervisor gets to the reload: a replaced process is stopped.
Reconfigured(i) ==
  /\ i \in orders
  /\ orders' = orders \ {i}
  /\ supervised' = IF config[i].enabled THEN supervised \cup {i} ELSE supervised \ {i}
  /\ IF presence[i] # "absent"
     THEN /\ presence' = [presence EXCEPT ![i] = "absent"]
          /\ EmitEvent("removed", i, generation[i], NothingMore)
     ELSE UNCHANGED <<presence, queue>>
  /\ UNCHANGED <<coordinator, screen, phase, generation, seen, accepted>>

Environment ==
  \E i \in Instances :
    ProcessStarts(i) \/ SpawnFails(i) \/ BecomesReady(i) \/ Says(i) \/ ContextsRemoved(i) \/ Reconfigured(i)

Init ==
  /\ config \in Configurations
  /\ arbiter = EmptyArbiter(Defaults["compact"], Defaults["expanded"])
  /\ snapshots = {} /\ ready = {} /\ generations = << >> /\ visibility = << >>
  /\ pending = << >> /\ revision = 0
  /\ rendered = Nothing /\ content = FALSE /\ phase = "start"
  /\ presence = [i \in Instances |-> "absent"]
  /\ generation = [i \in Instances |-> 0]
  /\ queue = << >> /\ orders = {}
  /\ supervised = {i \in Instances : config[i].enabled}
  /\ seen = [i \in Instances |-> "untold"]
  /\ accepted = << >>

Next == Application \/ Environment

Spec == Init /\ [][Next]_vars

\* Frames follow one another; modules, clients and time owe nothing.
FairSpec ==
  /\ Spec
  /\ WF_vars(BeginFrame \/ Consume \/ HoldActivation \/ BeginRender
               \/ RenderAccepted \/ RenderRejected \/ RenderNothing \/ Tell)

--------------------------------------------------------------------------------
(* Properties.                                                                      *)

PublishedContext == [key : Keys, priority : Int, left : Lifetimes, compact : STRING, expanded : STRING,
             fallback_only : BOOLEAN, revision : Nat, sequence : Nat]
MapsOf(keys, values) == UNION {[some -> values] : some \in SUBSET keys}

TypeOK ==
  /\ Published(arbiter) \subseteq Keys
  /\ \A key \in Published(arbiter) :
       arbiter.contexts[key] \in PublishedContext /\ arbiter.contexts[key].key = key
  /\ config \in Configurations /\ snapshots \subseteq Instances /\ ready \subseteq Instances
  /\ DOMAIN generations \subseteq Instances /\ DOMAIN pending \subseteq Keys
  /\ visibility \in MapsOf(Instances, Slots \cup {"hidden"})
  /\ revision \in Nat /\ DOMAIN accepted \subseteq Keys
  /\ presence \in [Instances -> {"absent", "starting", "running"}]
  /\ seen \in [Instances -> Slots \cup {"hidden", "untold"}]

\* The activation pins a context that exists, which active() takes for granted when it
\* looks the context up, and no two contexts are of the same rank.
ActivationBacked ==
  /\ Activated(arbiter) => arbiter.activation.key \in Published(arbiter)
  /\ \A k, l \in Published(arbiter) :
       k # l /\ arbiter.contexts[k].priority = arbiter.contexts[l].priority
         /\ ~arbiter.contexts[k].fallback_only
         => arbiter.contexts[k].sequence # arbiter.contexts[l].sequence

\* A context that the island may show belongs to a running process, or the event that
\* removes it is on its way to the application.
Departing(i) == \E n \in DOMAIN queue : queue[n].kind = "removed" /\ queue[n].instance = i

ContextsHaveProcess ==
  \A key \in Published(arbiter) : presence[key[1]] = "running" \/ Departing(key[1])

\* What the island shows, or may show next, exists and has a process behind it
\* (ContextArbiter::remove_instance, RuntimeCoordinator::apply_supervisor_event).
ContextsAreBacked == TypeOK /\ ActivationBacked /\ ContextsHaveProcess

\* Between frames, once the supervisor and the application have caught up with each
\* other, every running process has been told its visibility (after a restart or a
\* replacement too), and at most one believes that it is shown.
RunningAreTold ==
  phase = "start" /\ queue = << >> /\ orders = {} =>
    LET running == {i \in Instances : presence[i] = "running"}
    IN  /\ \A i \in running : i \in DOMAIN visibility /\ seen[i] = visibility[i]
        /\ \A i, j \in running : seen[i] # "hidden" /\ seen[j] # "hidden" => i = j

\* A version of a context that is refused at its first render gives way to the version
\* that was rendered last, unless that one has expired; a context of which nothing was
\* rendered, or was withdrawn since (dismissed, removed or expired), does not come back;
\* and one that was rendered in a slot and is then refused in the other is dismissed.  A
\* reload renders, for this purpose, all that is published when it is committed
\* (RuntimeCoordinator::remember_replacement, accept, reject and commit_reload).
RejectionsAreFair ==
  [][RenderRejected =>
       LET refused == Refused(Selected)
           key == refused.key
       IN  IF key \in DOMAIN accepted /\ accepted[key].revision # refused.revision
                /\ accepted[key].left # 0
           THEN /\ key \in Published(arbiter')
                /\ arbiter'.contexts[key].revision = accepted[key].revision
           ELSE key \notin Published(arbiter')]_vars

\* Rejections come to an end: when the modules fall silent, the screen comes to show what
\* is selected, and stays there.
ScreenSettles == <>[](phase = "tell" => ~Changed)
================================================================================
