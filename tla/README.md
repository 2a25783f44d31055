# A TLA+ model of gisland

gisland is an overlay for X11: a small "island" at the top of the screen that shows
*contexts* (a notification, a clock, the battery ...) published by external module
processes. This directory models the parts of it in which the order of events matters, and
the algorithms whose rules are many or written twice, checks them with TLC and proves the
central ones with TLAPS. Paths such as
`src/module_supervisor.cpp` are relative to the repository.

## The system

Two threads share the work. The *supervisor thread* owns the module processes; the
*application thread* draws a frame, and in each frame drains the supervisor's events,
answers `gislandctl` connections, and decides what is shown. They exchange commands and
events through two queues. Modules are processes that speak JSON lines on stdin/stdout;
many are Lua scripts run by `gisland-lua-host`.

| Component | State | Operations | Hard because |
| --- | --- | --- | --- |
| Module lifecycle (`module_lifecycle.cpp`) | state, backoff, deadlines, failure times | start, ready, tick, exited, stop, fail, signal_sent | deadlines and failures accumulate over several processes |
| Module supervisor (`module_supervisor.cpp`) | an `Instance` per module, deferred starts, shutdown flag | start, stop, restart, send, reconfigure, shutdown; the service loop | commands meet exits, failures, timers and each other in any order |
| Context arbiter (`context.cpp`) | published contexts, activation, defaults | publish, dismiss, activate, expire, active | expiry, pinning and recency interact |
| Runtime coordinator (`runtime.cpp`) | arbiter, module states, generations, rejected updates, visibility | consume, active, accept/reject, prepare/commit_reload | events of a replaced process arrive after the reload |
| Control dispatcher and IPC (`control_dispatcher.cpp`, `ipc_server.cpp`, `control.cpp`) | pending actions and restarts, connections | dispatch, consume, expire, cancel; accept, read, answer | answers, timeouts, disconnects and replacements race |
| Reload (`reload.cpp`, `file_watcher.cpp`, `bootstrap.cpp`) | current configuration, debounce deadline | plan_reload, observe, consume_due | must be transactional |
| Presentation (`island.cpp`, `interaction.cpp`, `application.cpp`) | mode, hidden mode, hold, reveal, keyboard session | open, close, toggle, hover, reveal, consult | several owners of one visible surface |
| Lua host (`lua_host.cpp`, `lua_transport.cpp`) | message queues, timers, async work | handshake, dispatch, publish, quit | input, GLib's sources and timers share one loop and one output queue |
| Process backend, buffers (`posix_process_backend.cpp`, `write_queue.cpp`, `line_buffer.cpp`) | descriptors, bounded buffers | spawn, read, write, signal, reap | partial I/O |
| Configuration, manifests, themes (`config.cpp`, `module_manifest.cpp`, `theme.cpp`) | none | parse and validate | many rules, no concurrency |
| Scenes and publications (`protocol.cpp`, `lua_scene.cpp`, `lua_value.cpp`, `scene_template.cpp`) | none | validate, convert, publish, instantiate | the host and the core hold the same records to rules written twice |
| Layout and rendering (`layout.cpp`, `rich_text.cpp`, `raylib_renderer.cpp`, `x11_*.cpp`) | textures, windows | measure, place, draw | arithmetic on sizes |
| Lua modules (`assets/modules/*`) | per script | battery alerts, notification queue, volume, calendar, power menu | D-Bus signals, timers, files |

What makes each component correct, and the lines where that is hard to test, is the list
`hazards` of `PROJECT.json`; `components` names the parts that are not modelled and why.

## The modules

| Module | Models | Used by |
| --- | --- | --- |
| `Lifecycle` | the class `ModuleLifecycle` as operators on a record, one per member function | `ModuleLifecycle`, `ModuleSupervisor` |
| `ModuleLifecycle` | one lifecycle under every order of calls | `ModuleLifecycleProofs` |
| `ModuleLifecycleProofs` | theorems about it | |
| `ModuleSupervisor` (`MCSupervisor`) | the supervisor thread, step by step | implements `ProcessEvents`; `SupervisorProofs` |
| `SupervisorProofs` | theorems about it | |
| `ProcessEvents` | what the supervisor promises about the events of a module | the contract between `ModuleSupervisor` and `Runtime`, `Control` |
| `Arbiter` | the class `ContextArbiter` as operators on a record | `Runtime` |
| `Runtime` (`MCRuntime`) | `RuntimeCoordinator` and the frame that feeds it, over any supervisor that keeps `ProcessEvents` | `RuntimeProofs` |
| `RuntimeProofs` | theorems about it and lemmas about `Arbiter` | |
| `Control` | `IpcServer`, `ControlDispatcher` and the frame, over the same | `ControlProofs` |
| `ControlProofs` | theorems about it | |
| `Overlay` | `PresentationController`, `OverlayModeController`, `HoverController` and the frame that shows, hides and focuses | `OverlayProofs` |
| `OverlayProofs` | theorems about it | |
| `LuaHost` | the process `gisland-lua-host`: its loop, its transport, its callbacks and timers | `LuaHostProofs` |
| `LuaHostProofs` | theorems about it | |
| `Notifications` (`MCNotifications`) | the notifications module: D-Bus clients, history, panel, writes to disk | `NotificationsProofs` |
| `NotificationsProofs` | theorems about it | |
| `Values` | JSON values, and what a field or a node is asked for | the modules below |
| `Trees` | what descends into values: the nodes of a scene, options | `Protocol`, `LuaScenes`, `Usage`, `Templates` |
| `Protocol` | the parsers of a module's records, the validation of a scene | `Documents` |
| `Base64` | the data of an image | `Documents`, `Agreements` |
| `LuaScenes` | Lua tables to JSON and back, the constructors and checks of the module API | `Documents` |
| `Negotiation` | versions and capabilities, on both sides | `Usage`, `Configuration` |
| `Usage` | which capabilities a record of a module uses | `Documents` |
| `Templates` | views: their validation and `instantiate_template` | `Loading` |
| `Configuration` | manifests, `parse_config`, module options, `plan_reload` | `Agreements`, `Loading` |
| `Agreements` | what must hold of versions, images, configurations and reloads | `MCChecks`, `AlgorithmProofs` |
| `AlgorithmProofs` | theorems about them | |
| `Layout` | measuring, constraining and placing a scene | `Drawing` |
| `Documents`, `Loading`, `Drawing` | families of inputs, and what must come of records, views and scenes | `MCChecks` |
| `MCChecks` | a specification whose initial states are the inputs | |

Common conventions. Time is discrete. A deadline is kept as the time that is left until it
(`-1` for an empty optional), an age as the time that has passed, counted no further than
the code can tell apart; one operator ages them all. Where the code holds a lock or runs
without giving way, one step does it all. Names are those of the code wherever TLA+ allows
it. Definitions marked `mutant` are wrong variants of the operator that follows them: with
one of them in its place some property fails, so that each property is known to depend on
the code.

### Lifecycle

`Lifecycle` has the record of `ModuleLifecycle` and one operator per member function;
`Exited` is split as `exited` is, into the effective cause, the failure it records, the
lockout, and the choice between stopped, backoff and failed. `ModuleLifecycle` adds
history that the code does not keep: the failures since the last reset with their ages,
and the time since the last stop, SIGTERM and exit. The properties compare the code's
deadlines with that history.

### ModuleSupervisor

`phase` says where in `run()` the thread is; a step is what the thread does to one instance
or with one command. Its client is the application, which sends a command only where
`ControlDispatcher` or `plan_reload` let it through. The operating system may refuse a spawn,
the queueing of `init`, a signal, a `waitpid` and a read or write (`Faults`); the module may
say anything in any order, close its output or exit at any time.

Abstractions: a definition of a module is a number with a restart policy; lines are ready
messages, other valid messages or violations, and whether the rolling limit of violations is
reached is left open; an event is received in the step that emits it, since `Runtime` and
`Control` have the queue; time passes while the thread polls, by a unit; a failing `poll`
(which ends the thread), the bounds of the two queues and the negotiation of protocol
features are left out.

### ProcessEvents

The order of a module's events (started, ready, messages, contexts removed) with nothing of
how it comes about. `ImplementsProcessEvents` checks that `ModuleSupervisor` is a refinement
of it: the presence of a module is read off its instance, and a module is heard when the
application holds contexts of it. The environments of `Runtime` and `Control` are written
to that contract.

### Runtime

A frame goes through `start`, `events`, `control`, `render` and `tell`. `Consume` takes one
event of the supervisor's queue as `consume(event)` does, generation check included; commands
change the activation; the render accepts or refuses the selected contexts and the
coordinator is told; `Tell` sends the visibility updates. A reload is one step: the plan, the
candidate's arbiter, the render of the candidate (which must succeed) and the commit, while
the supervisor gets to its orders later.

Abstractions: a scene is good or bad for the layout; a snapshot of data is the same every
time, so a view template is what it makes of one; an event is consumed at its own time;
`module_states_` and `negotiated_protocols_`, which only reports read, are left out; hidden
mode is off, so no departure is retained; visibility messages are never refused. `accepted`
is history: the version of each context that was rendered last, until it is dismissed or removed or
found expired by a question that prunes; a reload takes all that is published for rendered.

### Control

A connection is accepted, served once per frame in any order, answered and closed; the
dispatcher's pending actions follow the supervisor's events. `invocations` is history: the
process an action was for, when it was handed over, and what that process said of it since.

Abstractions: a request is read whole or not yet, and of the requests only those that wait,
or end a wait, are told apart (an action, a restart, a reload); every other is `ReadSync`,
which also stands for every refusal before anything has happened (unknown module, protocol
before 1.8). Every connection gets its turn in every frame, which is what the rotation of the
64 KiB budget is for. The restart bookkeeping of the dispatcher is in `ModuleSupervisor`.
The supervisor steps between frames only: a frame takes the whole event queue at its start
and only appends commands. Invocation ids do not wrap.

### Overlay

A frame goes through `start`, `watch`, `events`, `control`, `focus`, `input` and `draw`, in the
order of the loop of `Application::run`. `presentation` and `modes` are records with the members
of the two controllers, and an operator per member function (`Consult`, `Hold`, `Closed`,
`Updated`, `Opened`, `ClosedModes` ...) that the steps apply. A frame takes no time or one
unit, and `Begin` counts the deadlines down.

- *Contexts.* Each key is a module of its own with one context of a kind: `plain` has both
  scenes and asks for nothing, a `notice` is a compact context that expires, `timed` and
  `standing` have an expanded scene and a reveal, with a duration or without. Of several
  contexts the pinned one is selected, else the latest; priorities and fallbacks are
  `Arbiter`'s. Expiry is `Withdraw`. A version identifies a publication, as key and revision do.
- *Rendering.* `RenderRefused` is `reject`, with what it leads to (the context goes, or the
  version that was shown returns), `RenderAccepted` the whole of `replace_rendered` with the
  reveal that follows. While a hidden island departs nothing is rendered (`Retaining`).
- *The window.* `reveal_spring` is away, on its way or arrived; a step of it needs time.
  The spring of the expansion and the crossfades only decide when clicks begin to count
  (`actions_ready`), so `Draw` leaves that open within what the code demands of it.
- *Input.* A key or a click is nothing, Escape, or an action that closes the island. Where the
  pointer is, and whether the window gets the focus, is open. What a text field holds and
  which button is highlighted is not modelled.

### LuaHost

`phase` says where the loop of `lua_host_main.cpp` is: `poll`, `records` (the transport's
`advance`, one record or one read per step), `glib`, `sources` (the callbacks of the sources that
GLib found ready, one per step and nothing between them, as `g_main_context_dispatch` runs them),
`due` (the timers, one per step), and the ends `flush`, `done` and `failed`. A callback is what it emits, the timer it starts and whether it
raises an error; the core sends records, closes the input or both ends of it at any time; time
passes and GLib's sources become ready at any step.

Abstractions: a record is its kind and its number; the limits in bytes are left to the number of
records; a write takes any positive number of records, since the core is assumed to read while it
is there; functions a script forgot to define are left
out, and a source of GLib is one that is ready: `Dispatch` finds any of those, since only the ones
of the highest priority run. `ReadyFirst` is about modules that do no work while they are loaded (`WorksAtLoad`); the
others are an observation below.

### Notifications

`n` holds what is live (with history: the contexts in the core and what clients hold), `h` the
history with the panel that shows it, `s` the writes of the history file. Each D-Bus call, each
route of an action, each timer and each completion of a write is one step, as in a script of one
thread; the write itself ends between them. A notification is transient or not, timed or not,
resident or not. `refused` is a publication that the rules of the host refuse, after an id was used
and the oldest notification was closed. A history in the file is the number of the change that made
it (`generation`), so that "an older history" means something.

Abstractions: texts, images, urgency and the D-Bus marshalling; the file is replaced whole, as GIO
does; `LateRename` is a cancelled write that replaces the file all the same, and is off in the run
(see the observations).

### The algorithms

`Protocol`, `Base64`, `LuaScenes`, `Negotiation`, `Usage`, `Templates`, `Configuration` and `Layout` have no state. An
operator `...Faults` gives the set of what is wrong with an input, empty when the code accepts it;
the first error, which is what the code reports, is left out, and so are paths and wording. A string
is what it is and how many bytes it has. `Documents`, `Loading` and `Drawing` make inputs: a good
document with one part changed, dropped or added, or all combinations of a few parts. `MCChecks`
takes every input as an initial state in which nothing moves (`input`, and in `area` what it is of), and the invariants,
those of `Agreements` and its own, compare what the
algorithm makes of it with something else: the other side's algorithm (`HostAndCoreAgree`,
`ReadyIsAccepted`), an inverse (`Survives`, `Base64IsCanonical`), a definition of what it should mean
(`Meaning`, `LoadedIsSound`, `ReloadIsExact`) or geometry (`LaidOut`).

What descends into documents is in `Trees`, `Templates` and `Layout`. `Configuration` does not descend: the
faults of an option and of a view, the equality of options and the defaults of a template are operator constants
of it (`FaultsOfOption`, `FaultsOfView`, `EqualOptions`, `WithDefaults`), which `MCChecks.cfg` takes from `Trees` and
`Templates`.

Abstractions: sizes of texts are given, so fonts and truncation are; `Layout` divides as the
code does, with whole numbers; a configuration is a few modules, the options a few types.

## What is checked

Every run is small enough to finish in minutes. Deadlock is checked everywhere: a stopped
system is modelled by a step that changes nothing (`Done`, `Finished`).

| Run | Instance | Distinct states | Shows |
| --- | --- | --- | --- |
| `lifecycle` | backoff 1, 2, 4, 5; lockout at 3 failures in 4 units | 7 182 | grace periods are waited for; the lockout is exact; a requested stop is final; restarts wait and escalate; no state is a trap |
| `supervisor_restarts` | 1 module, 2 policies; restarts, messages and shutdown; spawns, messages and pipes that fail | 60 649 | accepted restarts are tracked, and reported in the end; nothing is spawned after shutdown, which ends; `ProcessEvents` is implemented |
| `supervisor_reload` | 2 modules, room for 1, 4 configurations; stops, restarts on their own and shutdown; messages, signals and waits that fail | 3 678 834 | the limit holds, replacements have the latest definition, deferred starts are those still wanted (`ReconfigurationIsSound`); processes and contexts are accounted for; a reload takes an outdated instance out for good, unless it finds it stopping after a failure (`OutdatedLeaves`) |
| `runtime_updates` | 2 contexts, one of them a view; publications of either slot, some refused, lifetimes 0, 1 and none; 3 configurations, 2 processes each | 486 976 | contexts and the activation are backed; running modules know their visibility; the screen settles |
| `runtime_refusals` | 3 contexts of 1 module in two slots, one of them a view; valid, half-valid and refused publications, lifetimes 0, 1 and none; 2 configurations that differ in the view; 5 revisions | 3 254 990 | a refusal gives back the version that was rendered last, and nothing that was dismissed, removed or expired (`RejectionsAreFair`) |
| `control` | 1 module replaced once, 2 connections, 1 may wait, 2 actions | 701 028 | each waiting action has one connection and a live process; answers are true; silence only when the delivery was late; every connection ends |
| `overlay` | 2 keys, plain and timed contexts, 2 publications, 1 command or reload | 828 159 | consultations are timed unless held; input reaches what is seen; a keyboard session holds the island; a hidden island that nobody uses disappears and stays away |
| `lua_host` | 3 records, an `update` every unit, 2 timers, 2 sources of GLib, 2 records per callback, a queue of 2 | 633 408 | ready comes first and every action is answered once, in order; a dispatch finds the queue empty, and only the sources of one turn add to it; nothing runs after shutdown; what arrives is handled; a due timer runs |
| `notifications` | 3 calls of clients, 2 live, a history of 2, one panel session | 333 828 | live notifications, their history, timers and contexts agree; the panel is current; the last history is the one on disk |
| `checks` | 46 592 inputs | 46 592 | host and core agree on records, versions and base64; templates mean what they say; configurations that load are sound; reloads are exact; scenes are laid out without overlap |

The bounds. One module suffices where the code treats modules apart; where they meet (the
supervision limit, deferred starts, the arbitration) there are two. Two processes of a module
are the least that lets an event or an answer of the first meet the second; three failures
and a window longer than two backoffs let failures fall inside and outside of it; a backoff
of 1, 2, 4 with a maximum of 5 doubles, overshoots and stops. One place less than there are
connections, modules or commands makes each limit bite. In `supervisor_reload` a second failure
locks a module out, so that a module backs off and is restarted on its own before, during or after a reload;
a spawn that fails is in `supervisor_restarts`, since it is one more way to fail at the start, and restarts on
request meet reloads in `supervisor_lost_restart` and in the theorems only. In `Overlay` a
consultation and a reveal last one unit and the spring two, which is enough for one to end
before, with or after another, since a frame may take no time; two publications let a context be
replaced or called twice in a session. In `runtime_refusals` five revisions are a version that is shown,
two updates of it or a dismissal and an update, and a refused one, with another to be selected before or
after it; with less a refusal never follows a refusal, nor a dismissal of what waits for its first render; a context
that is urgent and expanded puts the half-valid one in either slot. One process is enough, since a removal
forgets versions as a dismissal does; `runtime_updates` has two. In `LuaHost` a queue of two holds an answer and one record
before it, or a log line and the refusal; a budget of one record per turn leaves lines buffered; two
timers can be due in either order, or one of them be started by the other; two sources that emit
two records each, ready in one turn, fill the queue with the first of them, and what the second emits is
refused. In `Notifications` two
live ones of three ids let an id be used again while its record is kept, and two entries of history
let one be evicted. `Documents` changes one field at a time of every node type at five places in a
scene, and of every part of a publication with any other part left out: rules that relate two fields
(a style and the view it is for, an image and its resource) meet there; `MaxNodes`, `MaxItems` and
the other limits are small enough to be passed by them. `MaxRevision`,
`MaxGeneration`, `MaxPublications`, `MaxRequests`, `MaxInvocations`, `MaxConnections`,
`MaxQueue`, `MaxRecords`, `MaxEvents`, `MaxSequence` and `MaxNotify` stop modules and clients,
never the application in what it does with what has arrived.

Fairness, where liveness is checked:

- `ModuleLifecycle`: the supervisor's loop polls at most 20 ms, so ticks and due signals are
  weakly fair; time passes; a process that was sent SIGKILL exits. Modules need not answer
  nor exit on SIGTERM.
- `ModuleSupervisor` (in `supervisor_restarts`, without a `kill` or a `waitpid` that fails, after which an
  instance may wait for ever): the steps of the loop are weakly fair, since each is taken by one
  thread that never waits but in `poll`; a unit of time passes strongly fairly, because `poll`
  is entered again and again; a killed process exits.
- `Runtime`: the phases of a frame are weakly fair; time, modules, clients and reloads owe
  nothing.
- `Overlay`: the frame is weakly fair, whatever is typed or rendered in it, and a frame that
  takes time comes again and again; modules, commands and reloads owe nothing.
- `LuaHost`: a step of the host is weakly fair, one process that is scheduled; the core owes it
  nothing, and time need not pass.
- `Notifications`: a write ends, well or not, and GIO calls back (`WriteEnds`, `WriteReported`);
  clients, the user and the timers owe nothing.
- `Control`: the frame is weakly fair, and time passes strongly fairly, since it may pass only
  between two frames.

## Where the code and its documents disagree

Two runs are meant to fail, each on one property, and `findings` of `PROJECT.json` quotes
the documents:

- `supervisor_reload_failure`: a reload that finds the old process stopping after a failure
  lets the old definition be spawned again after the backoff.
- `supervisor_lost_restart`: a restart accepted while its instance stops to be replaced is
  erased with it; the dispatcher refuses restarts of that module from then on.

Observations without a run of their own. They are what the models leave open or what a larger
instance shows; none is claimed to be a defect.

The supervisor and the runtime:

- `accept` is per context, not per slot (`runtime.cpp:465`): a context rendered for its compact
  scene alone loses the version that was valid in both slots; when its expanded scene is then
  selected and refused, the context is dismissed. `RejectionsAreFair` says so: a version that was rendered
  in one slot and is refused in the other does not give way to the one before.
- An action that is refused because eight connections wait already has been handed to the
  supervisor before (`ipc_server.cpp:260`); the client reads "too many pending control
  requests" and the module performs it.
- `stop()` and `fail()` leave the handshake deadline set, so that while a module stops the
  loop polls without waiting; `MembersMatchState` says that no other state does that.
- A restart that finds its instance stopping after a failure leaves `restart_after_stop` set
  (`module_supervisor.cpp:497`): a later clean exit is restarted whatever its policy.
- `stop()` in the starting phase of a restart ends in stopped without a word of the restart
  (`module_supervisor.cpp:522`); the application never calls it there.
- An instance whose last failure locks it out while a replacement is pending ends in failed, and
  the replacement is started by the next command for it only (`module_supervisor.cpp:973`).
- A start for an instance that is there and not active drops what is there before it asks for room
  (`module_supervisor.cpp:466`): a failed module whose replacement finds none is not known any more,
  and nothing starts it before the next reload that changes it.
- A failing `poll` throws out of the supervisor's `run` (`module_supervisor.cpp:392`): the handles
  kill the processes, and no event tells the application.
- The command queue refuses the 2049th command while the thread is blocked, and the event queue
  drops nothing but stderr lines (`module_supervisor.cpp:319`, 1437).
- A reload that changes only the view of a module whose process has failed publishes its last
  snapshot again (`runtime.cpp:428`); `ContextsHaveProcess` fails when the instance has such changes.
- A version to give back outlives the context it is for: when the data of a configured view makes the
  arbiter expire an update that was never rendered (`runtime.cpp:213` asks `find`, which does not prune
  `pending_replacements_`) and the module publishes that context again in the same batch of events,
  `remember_replacement` keeps the entry of before (`runtime.cpp:234`), and a refusal of the new publication
  brings back the version rendered before the expiry, if it has not expired itself. In `RejectionsAreFair` such an
  expiry withdraws nothing: `ConsumeData` leaves `accepted` as it is.
- A reload forgets the versions to give back while updates that were not rendered wait in the
  arbiter (`runtime.cpp:461`): such an update is dismissed when it is refused later, and is what a refusal of a
  later one gives back. In `RejectionsAreFair` a reload therefore renders all that is published.
- A view that a reload adds to a running module counts as a change of the view
  (`reload.cpp:214`): the module keeps its process and is never offered `data-snapshots`; when a
  view is removed the module goes on sending data, which is refused.
- An option that is NaN differs from itself: a module with an inline command and such an option is
  restarted by every reload (`reload.cpp:19`).
- `parse_config` does not check the supervisor's limit of 32 modules, and accepts unknown keys in
  an entry of `[[modules]]`.

The overlay:

- An island opened in the frame in which its first context arrives takes the keyboard, but its
  consultation is forgotten before the context is rendered (`application.cpp:1345`): the window is
  hidden with the keyboard in it, where `docs/gislandctl.md:131` says that keyboard focus holds the
  island open.
- In hidden mode `presentation.visible` stays true when all contexts vanish during a departure
  (`application.cpp:1418` hides the window only); the status command reports it.
- Closing a hidden island that is hovered forgets that it is held (`island.cpp:216`); the
  next frame holds it again, but without a consultation, so a later reveal that arrives during
  the departure ends under the pointer.
- In the first frame of a keyboard session `mode` may still be compact, and `send_action` then
  addresses the owner of the compact scene (`application.cpp:1429`).

The Lua host:

- A module that works while it is loaded (starts a timer, subscribes to a signal) may emit data
  before its ready: `run_due` does not ask whether the host is initialized (`lua_host.cpp:419`).
  With `WorksAtLoad` set, `ReadyFirst` fails; the supervisor then refuses the module.
- `init` may leave 256 records to be sent behind ready, one more than the transport's queue holds:
  a module that does so ends with an error.
- The sources that are ready in one turn run with no look at the queue between them
  (`glib_main_context.cpp:76`): each of them may keep to the limit and the host still ends, because
  together they passed it (`run_external_callbacks` keeps the error of the queue).
- Records buffered behind a shutdown are refused, and the host exits with a failure.
- The input goes before GLib's sources and these before the timers, and a turn with output skips what
  follows: endless actions or events starve the timers, and a timer that starts itself again and
  emits starves `update`. `DueTimersRun` holds because both are bounded.

The notifications:

- The write under way at shutdown is cancelled; should it replace its file all the same, an older
  history is put back (`LateRename` TRUE: `HistoryIsSaved` fails).
- A history that could not be written is written again with the next change only.
- An action id carries no version of its notification: a click on what was replaced a moment ago is
  taken for the new one. A notification replaced while the panel is open stays hidden there.

Records, views and layout:

- The host checks less than the core: no depth, number of nodes, uniqueness of ids, references to
  resources, total of bytes or presentation; a `text_input` without `accessible_label`, with empty
  submit and navigation ids, or with an initial value between 1024 and 4096 bytes. Such a
  publication counts as a violation of the module; `HostAndCoreAgree` names them all
  (`OfTheWhole`, `OfThePresentation`, `InputFaults`). `docs/modules.md:212` calls the label optional.
- The other way round, the host refuses unknown fields of a scene, which the core ignores, and
  bounds a dismissed `context_id` to 128 bytes, which the core does not.
- A priority outside of 32 bits wraps in the core's parser.
- Of the capabilities, the use of `ring-progress` is never checked (`handle_protocol_line`), and
  `data-snapshots` is offered at 1.0.
- The shape of a `progress` in a template is not looked at when it is loaded, but when it is
  instantiated.
- A fixed spacer counts across its row once widths are constrained (`layout.cpp:985`) and not when
  they are measured (`layout.cpp:233`); a scene with one, with text that wraps, or with equal
  buttons may be refused although its least size fits, which is why `Fits` leaves them out.

## What is proved

Every invariant and every action property of the state machines that a run checks is a theorem, for all
values of the constants that satisfy the named assumptions, but for `ContextsAreBacked`, of which `PublicationsAreBacked`
is the part that holds of every reload; one theorem, `ActivationsAreReleased`, is about a property that no run checks; and so are four of the seven invariants of the algorithms, for all inputs. What is
assumed of `RestartsStayTracked` and `RecordsStayInOrder` is what the code needs for them to hold. TLC checked each inductive invariant on an instance before it was proved.

### The lifecycle

`ModuleLifecycleProofs` proves, for all timings, limits and policies that satisfy the
assumptions of `Lifecycle` (`TimingAssumption`: what `config.cpp` accepts), nine
theorems: `InductiveInvariant`, `TypeCorrect`, `MembersAlwaysMatchState`, `SignalsWait`,
`StopIsFinal`, `RestartsWait`, `BackoffsEscalate`, `WindowIsAccounted` and `LockoutIsAlwaysExact`.

The argument is one inductive invariant, `IInv`. None of the properties is inductive alone.
That SIGKILL waits for its grace period depends on a deadline set when SIGTERM was sent, so
`GraceAccounted` says that the time behind and the time ahead add up to the period;
`RestartAccounted` does the same for the backoff; `BackoffAccounted` ties the next delay to
the last one; `MembersMatchState` says which deadlines exist at all; and `LockoutBound`
bounds the recorded failures, so that one more failure is at most the limit. The lockout needs one
more, `WindowAccounted`: the ages that `record_failure` keeps are those of the history that are still inside
the window. Both are filtered differently, the code's when a failure is recorded and the history's as it ages,
so the lemmas are about what is left of a sequence of ages when the old ones are dropped. A lemma per
member function says what it returns, a lemma per action that it preserves `IInv`, and the
theorems follow from the invariant and, for the action properties, from the action that can
take the step.

### The supervisor

`SupervisorProofs` proves six theorems, for any number of modules, any limit, policies, commands and
faults (`SupervisorAssumption` and `TimingAssumption`).

- `ProcessesStayAccounted`, `ShutdownSpawnsNothing`, and
  `SupervisorImplementsProcessEvents`: the detailed specification implements the contract that `Runtime` and `Control`
  are built on. All rest on `SupervisedInv`: of each instance, its types, and that its process, its contexts and its
  handshake agree with the state of its lifecycle (`Consistent`), and that nothing waits for a backoff after shutdown,
  without which a backoff that ends later would spawn. Each operation on an instance is shown `Sound` once: it
  keeps the instance consistent, emits its events in an order that `ProcessEvents` allows (`Onward`),
  and spawns nothing after shutdown; operations that end in another one are composed by `Continues`. Steps
  change one instance, or one that is dropped and started anew (`Underway`), or all of them at
  once.
- `ReconfigurationStaysSound`, from `ReconfiguredInv`: an instance has the definition that the configuration wants,
  or one to be replaced with it, or the reload under way has yet to reach it; a deferred
  start is wanted and queued once. It says nothing of whether the replacement comes. That the limit holds is a count of active instances before and after each
  operation; that a start is queued once is what `erase_if` on the queue relies on.
- `OutdatedAlwaysLeave` does: no step makes an instance of an outdated definition stray (`OutdatedLeaves`), but the
  reload that finds it stopping after a failure. Two facts carry it: what is stopping by request, or stopped, is left
  alone by everything but its reaping and its replacement (`LeavingStays`), and a reload leaves nothing that it finds
  otherwise (`ReachedLeaves`). What such a reload leaves may be restarted from the old definition
  (`supervisor_reload_failure`), or end in failed with its replacement pending.
- `RestartsStayTracked`, from `RestartInv`, while nothing is reloaded (`"reconfigure" \notin Commands`): a reload
  may erase a restart, which is what the run `supervisor_lost_restart` shows.

### The runtime

`RuntimeProofs` proves four theorems, for any contexts, publications, configurations and bounds (`RuntimeAssumption`,
`ArbiterAssumption`), after lemmas about each operator of `Arbiter`.

- `RuntimeIsInductive` is about `RuntimeInv`. What there is to show relates the arbiter to processes that the
  application only hears of through its queue, so most of the invariant is about the queue: of each module its
  events are in the order of generations (`QueueOrdered`), none is older than what the coordinator knows
  (`QueueCurrent`), what a process says comes after its start (`QueueAnnounced`), and a process that has ended has its removal
  in the queue (`QueueEnds`). `BackedInv` says that the process of a context, or of a
  version that a refusal would bring back, has not been forgotten; `GoodArbiter`, that ranks have no ties and the activation
  is of a published context.
- `PublicationsAreBacked` follows: what is published has a process, or one whose removal is in the queue, but for
  the contexts of configured views, which a reload may publish again for a process that has ended (see the
  observations). That those have one too, where no reload changes a view alone, is model-checked
  (`ContextsAreBacked`, on configurations that change no view).
- `RunningStayTold`, from `TellingInv`: the visibility on record is the one that the process was told (`SyncedInv`), a process
  that runs and that no reload replaces is ready for the coordinator or has its ready event in the queue (`ReadyInv`), what is known of a module
  is of a process that became ready (`HeardInv`), and the supervisor follows the configuration but for its orders.
- `RejectionsStayFair`, from `RefusalInv`, for every publication, configuration and reload: of each published context the
  version that a refusal would give back (its entry in `pending_replacements_`, or none where the context itself was
  rendered) is the version that the history has (`Fair`), and the entries that outlive their contexts are those of versions
  that the history still has (`Kept`). It has no hypothesis: what the code does when a reload clears the
  entries, when a version is good in one slot only and when data expires what it does not prune is part of
  the property's history, not excluded.

### The other state machines

`OverlayProofs` proves, for all durations, keys, kinds and bounds, `ConsultationsAreTimed`, `SessionsHold`,
`ActivationsAreReleased` and `InputAlwaysReachesView`. The first three
need `PresentationInv`: a deadline exists only with a
consultation and while nobody holds the island, which each operator on the presentation
preserves (a lemma per operator), so that each step does. That a keyboard session holds a consultation is then a matter of
which steps can end one: only `Closed` and a deadline, and there is none while the session holds; that an
activation is released, of the two ways in which a window leaves. The last
needs `ViewInv`, which says the same of every phase: whatever replaces the scenes
switches the clicks off and moves the session to the new expanded scene or finds none, and
the step that switches them on sees the expanded mode.

`ControlProofs` proves `ActionsAreAlwaysTracked`, `AnswersAreAlwaysTrue` and `SilenceIsAlwaysDeserved`, for all modules and limits
of the server (`ControlAssumption`). What is to be shown relates three processes: a pending action, the
connection that holds its token, and the process it was given to. `ControlInv` says what each
step relies on for the first: a token is never used again and a completed action is no longer pending
(`IdsAreFresh`), so that an answer finds its own connection; the server has as many places taken as
it counts (`Places`), from which the room for one more action follows; the coordinator knows a
process that the supervisor has started (`CoordinatorTyped`, `SupervisorTyped`); and after the last
advance nothing is pending (`EndIsQuiet`). The other two need `HonestInv`, about what is on its way: a command in the
queue is of an action that has not been handed over, a delivery report and a result in the event queue are of what the process was given
and said, an answer that a completion carries is true before the client reads it, and the age of a pending action and the time
left of its connection add up (`WaitsAreTimed`), which is why silence means that the delivery was late. One lemma per step of the
frame and of the supervisor shows that it preserves each invariant, on lemmas about what `Merged`, closing a
connection and cancelling an instance leave alone.

`LuaHostProofs` proves `DispatchesStayApart`, for all sizes of the queues, budgets of a turn and
modules: `HostInv` says that nothing is left to write whenever the loop is at a place where a record, a timer,
`update` or the first source of a turn may run, and that a stopped host has no timer; the other sources of the
turn are the ones that add to the queue. `AnswersStayInOrder` is one part of `RecordsInOrder`, for every module:
by `AnsweredInv` the results written and the results still queued are, one after the other, the actions taken, and a host that fails
leaves at most the last one out. `ReadyComesFirst` is the other part, for modules that start no work while they
are loaded (`WorksAtLoad` = FALSE): until
`initialize` no timer and no source of GLib exists that could emit, and what `init` emits is kept behind
ready. (With `WorksAtLoad` TRUE the first record can be another one; see the observations.) `RecordsStayInOrder` is both.

`NotificationsProofs` proves `PanelIsAlwaysCurrent` and `NotificationsStayConsistent`, for all clients, ids, times and room. The panel
that is shown is the one that the history and what is hidden amount to: `PanelInv` says this of the record `h`, each
operator on the history and the panel either keeps it or publishes anew, and whatever takes the panel away
stops both of its timers. The tables agree by `TablesInv`: the order of eviction lists what is live, each once, records have distinct numbers
below the next one, and a number tied to an id is of a record that is not of another live notification. That a new notification finds a free id, and not
one in use, is `allocate_id` going round: with fewer live ones than ids one candidate is free (a pigeonhole).

For these proofs some definitions took another form with the same meaning: sequences are filtered by position
instead of with `SelectSeq` (`WithoutStart`, `Results`, `Without`), of which the library proves nothing; `allocate_id` goes round
with a comparison, as the code does, instead of a remainder; an event of `Runtime` has the same fields whatever its kind.

### The algorithms

`AlgorithmProofs` proves four theorems about what `MCChecks` checks of some inputs.

- `VersionsAlwaysAgree`, for every range of minors, a view or none, and any set of capabilities used. Of two sides that
  compute separately, the one fact that matters is that the host selects the lesser of two maxima, and each side
  holds a capability to the minor since which it exists.
- `Base64IsAlwaysCanonical`, for any bytes and any symbols, of any number. Both directions are arithmetic on one group
  of four symbols and three bytes (`DecodesBack`, `TakesEncodings`), and a division that says which group a position is in; the
  last group has a case for each number of pads. That a text has one spelling needs `Canonical`: the bits under a pad are clear.
- `LoadedConfigsAreAlwaysSound`, for every document, with any packages in any roots. Having no faults is taken
  apart, from the document to a module to its package, its options and its timings; what is built of them is then
  compared with what was written.
- `ReloadsAreAlwaysExact`, for any two configurations that load. What a reload compares (`same_process`: the fields
  of the loaded module, `reload.cpp:170`) is not what a process is told (`make_module_start_request`, `runtime.cpp:51`: the
  command, the directory, the range of versions, the options, the capabilities). What keeps its process
  would be told the same again, but for `data-snapshots`, which is offered with a view, and runs the same files;
  what is replaced would be told something else, or its manifest, its package configuration or its entry is another
  (which `README.md:605` of the repository says "replace affected processes"), or an option of it is a NaN (which starts it again although
  nothing changed). Fingerprints are modelled as the contents, the identity of a file as a stamp; locale and timezone, which
  the request also has, are those of the application for as long as it runs.

Their hypotheses: the values of documents, manifests and files are of a set that has the parts of its
values (`IsJson`, `ArePackages`: what the TOML parser returns); a view without faults has no slots but compact and expanded
(`ViewsAreChecked`: `Unknown` in `ViewFaults`, `parse_view_table`); and options that are found equal are equal, not the
converse (`SameIsEqual`: `equal_config_table` compares kinds, sizes and all the parts). The last two are about the operator constants; the
definitions that `MCChecks.cfg` gives them are recursive, so that they hold of those is an induction that this
prover does not have; it is read off `ViewFaults`, and TLC was asked about options on every reload of `MCChecks`.

For these proofs `Configuration` was parted from what descends, and `Decode` is a function of a position among the bytes instead of
a concatenation of groups.

### What is only model-checked

Every liveness property (`NoStateIsATrap`, `ShutdownCompletes`, `RestartsAreReported`, `ScreenSettles`,
`ConnectionsEnd`, `HiddenAtRest`, `RecordsAreHandled`, `DueTimersRun`, `HistoryIsSaved`), since this prover has no rules for fairness and
`ENABLED`; and `RecordsAgree`, `TemplatesMean` and `ScenesAreLaidOut`, whose operators descend recursively into scenes and views,
which needs induction over data.
The two properties that runs find violated are of course not proved: `SpawnsConfigured`, and
`PendingRestartsTracked` with reloads.

## Not modelled

- Drawing: `theme.cpp`, the renderer, the fonts, the animations and the placement of the window.
  Values in, pixels out; nothing there remembers anything that another part relies on.
- System calls: the process backend, the X11 host, `poll`, the socket file. The models let
  them fail where the code looks at their result.
- Bytes: the splitting of streams into lines, the write queue, the control codec. They are sequential,
  with tests of their own; the models above them count records.
- The other Lua modules (battery, audio, clock, power menu): each shows one value or runs one
  command.
- The file watcher: in `Runtime`, `Control` and `Overlay` a reload may simply come.
- Of what is modelled, what each section above lists as abstracted.

## Plan

What is left, in this order:

1. The debouncer and the watched directories of `file_watcher.cpp`, with `reload_application` around
   them as a transaction.
2. The two queues between application and supervisor, with their bounds.
3. `LineBuffer` and `WriteQueue` as byte buffers with partial reads and writes.
4. The cascade of a theme.
5. Proofs: the lemmas about the arbiter stated
   against what `active()` promises (the best context of a slot) on their own; `RecordsAgree` for nodes without
   children, which do not descend.
