# TLA+ models of the Sentry SDK for Godot

These modules model the parts of the SDK whose correctness depends on the
order of things (threads that capture while the main thread initializes and
closes, two SDK layers that start and stop each other, limits that are kept
across threads and frames), on what the boundaries between C++, C#, Java and
JavaScript do to identities, and on conversions that four backends make each in
its own way. TLC checks them on small instances and TLAPS proves most safety
properties of the core, of scope observation and of two boundaries for every instance. Paths below are relative to
`src/` of the repository unless they begin with a module name.

Check a module with `tlc -config MCScopes.cfg MCScopes.tla`, a proof with
`tlapm ScopesProofs.tla`. `PROJECT.json` lists the components, the runs, the
code each definition stands for, the mutants that each property detects, the
hazards and the theorems.

## 1. The system

| Component | Code | State it keeps | Operations | What makes it correct |
|---|---|---|---|---|
| Facade: scopes | `src/sentry/sentry_sdk.{h,cpp}`, `sentry_scope.*`, `util/thread_guard.h` | global `scopes_epoch`; per thread `local_scopes_epoch`, `current_scopes`; per scope its data and owning thread | `get_current_scope`, `with_scope`, setters, captures, `_invalidate_scopes` | data reaches only captures of its thread, its session and its callable |
| Facade: lifecycle | `sentry_sdk.cpp`, `register_types.cpp`, `engine_lifecycle/` | `internal_sdk` enabled, `options`, logger, `is_configuring`, `is_auto_initializing` | `init`, `close`, `_auto_initialize`, `_on_engine_shutdown` | main thread only; backend, logger and managed layer go up and down together |
| Managed layer and bridge | `dotnet/csharp_interop.cpp`, `dotnet/managed/Sentry.Godot/SentrySdk.cs`, `Interop/NativeBridge.cs`, `Internal/SentryGodotInitializer.cs` | bindings, hooks, pending options; `CurrentOptions`, `_initializing`, `_closing`, `_exceptionHandler`, the .NET hub | `Init`, `InitFromNative`, `Close`, `CloseFromNative`, `AutoInit`, before-send | whichever layer starts first, both run once; nothing survives a close; the hook is where the user put it |
| Godot logger | `logging/sentry_godot_logger.*` | limits, `frame_events`, `event_times`, `error_timepoints` under one mutex; per thread a nesting depth | `_log_error`, `_log_message`, `_process_frame`, constructor | configured limits are kept for every interleaving; no feedback loop |
| Event processing | `processing/process_event.cpp`, `process_log.cpp` | per thread a nesting depth | processors in order, managed hook, before-send | an event is processed once or discarded; a nested event is sent unprocessed |
| Screenshot, view hierarchy | `processing/*_processor.cpp` | `last_screenshot_frame`, the file | `process_event` | an event never carries the picture of another frame |
| Scope observation | `dotnet/dotnet_scope_observer.*`, `Interop/GodotScopeObserver.cs` | per thread a guard on each side | tags, user, contexts, breadcrumbs in both directions | both layers agree, no echo, local scopes stay local |
| Exception correlation | `ExceptionHandling/*.cs` | per thread a queue of exceptions, counts of throws, dead threads | first-chance handler, catch events, drain, cleanup | an exception is captured once, for the thread that threw it |
| Native backend | `native/*.cpp` | `last_uuid`, `user_attachments`, initialized; sentry-native's values | init, close, captures, attachments, setters | a record is what its setters were called with; attachments are there once |
| Android backend | `android/*.cpp`, `android_lib/.../SentryAndroidGodotPlugin.kt` | handle maps per thread | create, use and discard of handles | a handle means one object, on the thread that made it |
| Web backend | `javascript/*` and its TypeScript bridge | object stores with ids, byte buffers, JSON texts | call, release, before-send from the event loop | an id in use is never given out again; bytes reach their object; texts parse |
| Apple backend | `cocoa/*.mm` | properties of Objective-C objects | setters, conversions, attachments | a record is what its setters were called with |
| Options and settings | `sentry_options.cpp`, `settings_migrations.cpp`, `runtime_config.cpp` | options, project settings, schema version | migrations, getters and setters | a migration loses no setting and runs once |
| Editor tooling | `editor/*` | project files | export plugins, C# project patcher | patching twice changes nothing |
| Value types | `sentry_event.h`, `sentry_breadcrumb.*`, `sentry_log.*`, `sentry_metric.*`, `sentry_timestamp.cpp` and the classes of each backend | the values of a record | setters, getters, emission of metrics, timestamps as texts | all backends mean the same by a setter; a time is the time it was |
| Conversions | `*_util.*`, `json_writer.h`, `view_hierarchy_builder.cpp`, `utf8_buffer.h` | a text or value under construction | writing, parsing, variants to platform values | what arrives is what was given, also where data hold themselves |
| Contexts, feedback form, analyzer, build | `contexts.cpp`, addon, `SConstruct` | plain data | - | - |

**Interactions.** User code calls the facade from any thread. The facade finds
the scope of the thread and hands it to the backend with the event; the backend
calls back into event processing on a thread of its choice, which calls the
managed hook. Engine errors enter through the logger, from any thread, and end
in the facade. `init()` and `close()` call the managed layer and are called by
it, on the main thread, and run user callbacks in between.

**Hard behaviours.** The facade has no lock: sessions are told apart by an
epoch that each thread compares when it next needs a scope. The initialization
of the two layers is mutually recursive and cut by flags; a configuration
callback can re-enter it or throw. Other threads capture through all of it. The
logger's decision is atomic but its time stamp is older than its turn. The
exception handlers put together two streams that arrive at different times, on
different threads. Handles and ids outlive what they stand for, and go round. A
change of a scope is forwarded to a layer that forwards it back. Migrations are
repeated after crashes. The `hazards` of `PROJECT.json` name the lines and the properties that guard them.

## 2. Plan

Modelled, in this order:

1. The core: `Scopes` with `ScopesProofs`; `Lifecycle`; `GodotLogger` with
   `GodotLoggerProofs`; `EventProcessing` with `EventProcessingProofs`.
2. What surrounds a session: `Attachments`, `Settings`. `SessionProofs` is about
   these, `Lifecycle`, and their composition `MCSession`.
3. .NET: `ExceptionCapture` (abstract), `CoreClrExceptions` and
   `LoggerExceptions`, which implement it, with `ExceptionProofs`; `ScopeLayer`
   (abstract) and `ScopeSync`, which implements it for each layer, with
   `ScopeSyncProofs`.
4. Boundaries: `AndroidHandles` with `AndroidHandlesProofs` and `JsBridge`, both
   implementing `EventDelivery` (abstract). `BoundaryProofs` is about `JsBridge`
   and the composition `MCBoundary`.
5. Records: `AbstractRecord`, and `NativeRecord`, `JsRecord`, `CocoaRecord`,
   `AndroidRecord`, which implement it; `Records` and `RecordProgram` are shared.
6. Conversions: `Metrics`, `Timestamps`, `Variants`, `JsValues`, `Json` with
   `JsonWriter` and `ViewHierarchy`.

What is left to state and prove: that each record implements `AbstractRecord`
(`ImplementsRecord`, which the run `backends` checks); and, as an abstract
specification, *one scope list per thread and session*, which `init()` empties at
once while `Scopes` does so lazily.

## 3. The modules

### Scopes

State: `epoch`, `localEpoch`, `stack` are `scopes_epoch`, `local_scopes_epoch`
and `current_scopes`; `owner` and `data` belong to scope objects; `frames` are
the `with_scope()` and nested `init()` calls of a thread, `call` the call that
is looking for its scope. A call is split where another thread can act: the read
of the epoch, the work on thread-local state, the hand-over to the backend.
`init()` and `close()` of the main thread are split around the backend, because
other threads run while it starts and stops. Scopes leak: a reference may be
kept by any thread and used at any time (`WriteScope`), and only the guard of
`SentryScope` stops a foreign one. Data is a set of *writes* that remember
author, target and epoch, which is what the properties tell apart. `born` and
`sessionEpoch` are history.

| Action | Code |
|---|---|
| `ReadEpoch`, `ResolveExisting`, `ResolveRoot`, `Submit` | `get_current_scope()` and the captures around it |
| `PushScope`, `ReturnFromCallable` (`PopScope`) | `with_scope()` |
| `WriteScope`, `ClearScope`, `DestroyScope` | the setters, `clear()`, the end of the last reference |
| `InitBegin`, `InitInvalidate`, `InitBackend` | `init()`, up to the callback, up to the invalidation, the backend |
| `CloseBackend`, `CloseInvalidate` | `close()` |

Properties: `SessionIsolation`, `CapturesOwnThread`, `ForkDataConfined`,
`StackFollowsCalls` (inside a callable the fork is current) and the action
property `ParentRestored` (no step replaces a root of the present epoch, and the
end of a `with_scope()` makes the scope current that was current when it began).
They quote the documentation of `SentrySDK` where it makes
the promise. `SessionIsolation` exempts captures that read the epoch before the
invalidation: the facade holds no lock over a capture, so a capture in flight
across `init()` can still carry old data.

### Lifecycle

The calls between the layers nest, so the state of the main thread is a control
stack, `agenda`: the steps still to do, the next one first. A step that calls
something puts its steps in front. While a configuration callback is on top user
code runs and may call anything. Every step that leaves state visible to other
threads is a step of its own. `InitNativeSdk`, `InitBackend`, `AddLogger`,
`NotifyInit` are `SentrySDK::init()`; `CloseNativeSdk` to `CloseBackend` are
`close()`; `InitManagedSdk` to `EndInit` are `SentrySdk.Init()` and
`InitFromNative()`; `CloseManagedSdk` to `EndClose` are `Close()` and
`CloseFromNative()`; `LoadAssembly` is `AutoInit()`; `Shutdown` and
`ReleaseBindings` are `_on_engine_shutdown()`. The outcomes of the backend and
the hub are choices. `ProcessNativeEvent` is an event on any thread.
`sessionHook`, `nativeSession` and `bypassed` are history.

Properties: `HubConsistent`, in three parts (a hub has its options, at every step,
because other threads see it; between calls the exception handler is there iff the
hub is, and no re-entry flag is left set), and `BeforeSendConnected`. Without
re-entrant or throwing callbacks also `LayersFollow` and the action property
`CloseClosesBoth`, see `MCSession`.

### GodotLogger

One state variable per field of the logger, `calls` for the nested
`_log_error()` calls of each thread. `LogError` takes the stamp, `Decide` is the
critical section, `FinishCapture` the return from the capture, during which the
same thread may report errors again. `Tick` lets time pass, but no thread waits
longer than `MaxStall` between its stamp and its turn: without such an assumption
no window is kept at all. `ProcessFrame` is `_process_frame()` together with the
engine's frame counter. `Construct` happens in any frame. `captured` and `emptied`
are history: the captures, and the frames at whose end the table of repeated
errors held more than `TableLimit` and was emptied.

Properties: `EventsPerFrameKept`, `ThrottlingKept`, `RepeatedErrorsApart`,
`StartupLimitsEnd`, in the words of the documentation of `SentryLoggerLimits`.
`RepeatedErrorsApart` excepts what the code excepts, two captures between which the
table was emptied, and says when that happens: after more different errors than
`TableLimit` since the last time.

### EventProcessing

`calls` is the stack of captures of each thread; the innermost is at a `stage`:
`enrich`, `check`, `ask`, `mark`, `take` (the screenshot), `remove_tree`,
`build_tree`, `hook`, `before_send` and `attach`, at which it is sent. `shot` and
`tree` are the two files, each with what it shows; `lastFrame` is a field of each
session's `ScreenshotProcessor`, and a call keeps the processors of the session
it began in. `begun` is history. A stage ends where another thread can act, or
where code runs that may capture again.

| Action | Code |
|---|---|
| `InitSdk`, `CloseSdk` | the part of `init()`, `close()` that replaces processors and removes files |
| `Capture`, `Crash` | a hook is called; `ShouldProceed` is the `RecursionGuard`, let go when the hook returns: a crash while the backend reads the files is processed |
| `Enrich`, `CheckFrame`, `AskScreenshot`, `MarkFrame`, `TakeScreenshot` | enrichment, `ScreenshotProcessor::process_event()` |
| `RemoveTree`, `BuildTree` | `ViewHierarchyProcessor::process_event()` |
| `ManagedHook`, `BeforeSend` | `process_event_in_managed_layer()`, the callback |
| `Attach` | external: the backend reads the files when it sends |

Events of .NET (`managed`) go through `process_default_attachments()` only, which
has no guard. A crash can happen anywhere; once its report is sent nothing runs.
The main thread draws frames, initializes and closes between captures: `init()`
or `close()` called from inside a hook is left out. Both files are enabled; the
level of an event is one Boolean, `fatal`; writing a file is one step.

Properties: `ScreenshotCurrent`, `TreeCurrent`, `NothingLeftOver`,
`NotReentered`; where the main thread alone captures, `ScreenshotKept` and
`TreeKept`, joined as `FilesKept`.

### Attachments

The facade's list in `options` while a callback configures, the copies in the
`scope` of the platform's SDK afterwards, and the handles that the native backend
remembers (`user_attachments`). `inits` is the stack of `init()` calls. Adding and
clearing are one step on most platforms; where the code makes several calls, or
reads and writes the vector of handles, `pending` holds the rest of the call of
each thread. `Custom_add`, `Custom_clear`, `Drain` are
`SentrySDK::add_attachment()`, `clear_attachments()` and the end of `init()`; `Add`,
`Clear`, `Push_back`, `Add_default_attachments` the backends. Each backend clears in
its own way: handle by handle (native), or all and then the defaults again, at
once (Cocoa) or in further calls (Android, Web). `wanted` is history. Properties: `AttachmentsKept`,
`DefaultsOnce`, `ClearReachesAll`, joined in `MCSession` as `AttachmentsKept`.

### Settings

`file` is `project.godot`, `process` the mode, the settings in memory, the deferred
save and the environment. `Start` runs every migration of
`settings_migrations.cpp` and defines the defaults; `Save` is the editor's deferred
save; `Verify_project_settings` and `InitSDK` load options; `Stop` ends a process at
any time, a crash included. Renamed settings, the change from seconds to
milliseconds, the mask that took over a Boolean, and the schema version are
modelled. Properties: `FileKeepsMeaning` (whatever happened, the file means what
the user chose), `OptionsAsChosen`, the action property `SchemaGrows` and the
liveness property `MigrationSaved`.

### ExceptionCapture, CoreClrExceptions, LoggerExceptions

`ExceptionCapture` is the promise of both handlers: threads throw and catch, and an
exception caught by the engine's bridge is captured in the end, once, and no other
is. In `CoreClrExceptions` a throw is queued by `OnFirstChanceException` (`pending`)
on its own thread and seen again, as a thread id only, in the `events` that `Listen`
takes later; a catch drains as many exceptions as were counted
(`throwCounts`). Threads exit, are finalized, and their ids come back; `now`,
`lastCleanup`, `deadIncoming` and `deadPending` are the clean-up in two
generations. In `LoggerExceptions` everything runs on the throwing thread: the
last exception is remembered and compared by its type's name with the text that
the bridge logs. Both implement `ExceptionCapture` unless a finally block catches
an exception of its own, something is thrown before the events are enabled, or a
thread id is reused. `faults`, chosen at the start, says which of these a
behaviour has ("inner catch", "early throw", "reused id"); what holds even then
is `FaultsContained`: no exception is captured twice, a thread whose finally
blocks caught some is back in step when it is quiet, and the logger's handler
confuses only types that it cannot tell apart.

### ScopeSync, ScopeLayer

`scopes` are the global scopes of both layers, `stack` the entries of each thread
into a layer, `depth` the `SyncGuard` of each side and `inLocalScope` the
`LocalScopeGuard`. An operation is applied in the layer it was called in
(`Apply`), and its observer forwards it to the other (`Forward`) or ignores it
because of a guard (`Ignore`). Captures with a local scope and user callbacks
inside calls of .NET are `Capture`, `BeforeSend`, `BeforeBreadcrumb`. `ScopeLayer`
says what one layer sees: each operation of the program, once, between its call
and its return. `ScopeSync` implements it for either layer (`LayersImplement`);
`GuardsReleased` and, where the changes are `Separate`, `LayersAgree` are joined as
`LayersInStep`. `Separate` says that no two threads change the same part of the scope and no
callback does: with the same tag, the layers may differ (section 6).

### AndroidHandles, JsBridge, EventDelivery

`AndroidHandles`: five tables of handles per thread (`tables`), layered scopes
(`combined`), C++ `wrappers` and the before-send callbacks under way (`frames`).
Wrappers own their handle or borrow it; `Destroy` releases it on the thread that
happens to drop the last reference. `CaptureEvent` and `CaptureNew` register the
object for the callback, `HandlerReturns` and `BeforeSendReturns` end it; the
absence of the handle afterwards is the handler's verdict. Handles are drawn at
random, again while they are taken. Properties: `HandlesFindTheirOwn`,
`NoHandleLeaks` and `VerdictsStand`, the safety part of `EventDelivery`.

`JsBridge`: the object store with ids that go round `IdLimit` (in the code 2^32 - 1)
and that C++ keeps as signed numbers, the byte store, and events that wait in the
browser's `queue` for `EventLoop`; the verdict is a property of the event. `isolation`,
`globals` and `current` hold the sessions whose data scopes still have. Properties:
`IdsFindTheirOwn` (an id that fits a signed integer finds the object it was given
out for, and bytes the object they were stored for, as long as no more than half
of the ids can be in the byte store at a time), `SessionsIsolated` and `VerdictsStand`.

`EventDelivery` is what both promise of an event: captured, processed, judged, sent
or dropped, and always one of these two in the end.

### The records

`Records` has what programs pass to setters. `RecordProgram` is a program that calls
the setters of one event, breadcrumb, log or metric, in any order, with the
backend's setters as operator parameters; each backend's module defines them as
functions on the platform's object (values of sentry-native, JavaScript objects
that the bridge reads, Objective-C objects, Java objects behind the plugin) and
`Seen`, what its getters and its transport make of the object. `AbstractRecord` is
what the public classes describe: a setter changes its own property and no other.
Objects may also be made by the platform's SDK, with properties left out.

### The conversions

- `Metrics`: emission, the object of each backend, and a handler that changes type
  and value in any order; numbers are counted in halves.
- `Timestamps`: `SentryTimestamp` from numbers and texts, as texts, and in the form
  in which each backend's event keeps it (text, seconds, milliseconds). The calendar
  is the real one; fractions are binary with two digits instead of decimal with six.
- `Variants`: containers are references and may hold themselves; the three
  conversions stop at a depth; Cocoa's values are read back.
- `JsValues`: numbers, texts, bytes, objects and arrays through `JSObject`, with
  the widths of integers and doubles as parameters.
- `Json` is a parser for the checks; `JsonWriter` the writer, call by call, with the
  bridge's reading of it; `ViewHierarchy` the loop that writes the scene tree without
  recursion, the buffer it grows, and the file that is removed, written and sent.

### Composed modules

A module named `MC...` composes several components whose state is disjoint: it
instantiates them, except that `MCSession` extends `Lifecycle` and `MCBoundary`
extends `JsBridge`, one component of each being extended so that the run checks
the very properties that are proved. A selector (`setup` or `part`) chooses the one a behaviour is about; the variables
of the others stay at their initial values, so the state space is the sum of
theirs and not the product. This is exact, because these components share no
state in the code either, or one program has only one of them (one backend, one
exception handler). `MCExceptions` and `MCBackends` in addition let several components
implement one abstract specification. `MCBoundary` and `MCExceptions` give the same
component to TLC with several sets of assumptions: faultless and faulty, one
thread and two.

## 4. The runs

| Run | Shows | Instance |
|---|---|---|
| `scopes` | all properties of `Scopes` | 2 threads, 3 interchangeable scopes, 3 invalidations, 2 nested calls, 1 remembered write |
| `lifecycle` | flags, handler, options and hook stay consistent | every callback allowed, 3 at a time |
| `godot_logger` | every limit is kept | 2 interchangeable threads, 2 errors (one event only, one also a breadcrumb), limits of 1 to 3, a table of one error that is emptied once, 4 frames, 3 units of time, 3 captures |
| `event_processing` | what is attached is never outdated; nothing is processed within itself | main thread and one worker, nested 2 deep, 3 captures, 2 frames, 2 sessions, files that may not open |
| `session` | settings keep their meaning and are saved in the end; the layers come and go together; attachments are there once; on one thread, files stay until they are sent | settings of every schema version, crashes at any time; callbacks that may call the other layer but not throw or re-enter the same `init()`, 2 at a time; 4 backends, of which all but Android's may fail to start, 3 attachments; main thread nested 3 deep, 3 captures, 3 frames, 2 sessions |
| `exceptions` | both handlers implement `ExceptionCapture`; removal of dead threads loses nothing; faults are contained | 2 threads, 3 exceptions, events 1 tick late, clean-up every 2 ticks, 4 ticks; with inner catches 4 exceptions of one thread and 3 ticks; with every fault 3 exceptions of one thread and 2 ticks |
| `boundary` | handles and ids find their own objects, nothing leaks, sessions are apart, both layers have one scope | 2 threads, 2 objects, 2 handles besides 0, ids up to 7 that go round, 3 buffers, 3 sessions, 2 calls of each thread |
| `backends` | four records implement `AbstractRecord`; two deliveries implement `EventDelivery` | 2 values of everything, 2 or 3 keys (one empty), 2 exceptions, 2 events |
| `values` | times, values, metrics and texts arrive as they were | times around the epoch, leap days and centuries; 5-bit integers; depth 2; scenes of 4 nodes, two of which have a script; 2 frames of 2 variables |
| `before_send_window`, `tree_race`, `json_writer_floats` | violated, see findings | the smallest instance that shows it |

*Why the bounds are enough.* `scopes`: a worker and the main thread are the two
roles; two invalidations make a session end and the next begin, the third lets a
nested `init()` invalidate in between; two nested frames distinguish the parent
from the root, three scopes are a root and two forks, or the root and fork of
one session and the root of the next. `MaxWrites` bounds what is remembered, not
how often scopes are written: each property speaks of one write at a time.
`lifecycle`: the state is finite but for nested callbacks; three allow an
`init()` inside an `init()` inside a managed `Init()`. `godot_logger`: one event
fills a frame, two fill the throttling window, the startup limits are higher than
the normal ones and end inside the run; the two errors differ in which limits
apply, and both are more than the table holds; nesting is two deep. Three captures
empty the table once; that it holds more than its limit again before the next
time is proved. `event_processing`: only the main
thread writes, all workers do the same, so one is enough; a capture in progress,
one nested in it and one of the other thread are the three; a frame ends and a
session is replaced below any of them. The part of `session` with one thread lets
files always open: a nested capture that removes the screenshot and then cannot
open the file leaves the outer one without, which is no promise of the code. The
theorems remove these bounds for the properties they name.
`session`: two renamed settings stand for ten that the code treats alike; three
attachments distinguish first, middle and last of a list that is changed while
walked. `exceptions`: three exceptions are one that replaces another in flight and
one more of the other thread; the clock reaches two clean-ups after a death.
A fourth exception lets a finally block catch one while another is in flight and
a later one take its place; faults concern one thread's queue, so one thread throws.
`boundary`: two handles are enough to draw a taken one and to exhaust them; ids go
round twice and half of them do not fit a signed integer; two threads each
hold one and hand over another. `backends`: each setter changes one property, so
programs use groups of setters that touch the same part of an object; two keys
show that one does not disturb the other. `values`: the digits, bits and depths
are parameters of the modules, and every branch of the conversions is below the
bounds; dates include the leap rule of centuries.

*Deadlock* is not checked: the engine really stops (`Shutdown`), a
crash ends the process, and the pools,
clocks and histories of the instances run out.

*Fairness.* Specifications assume what the platform guarantees and no more, always
weak: the runtime's dispatch thread delivers events (`Listen`); a thread whose bridge
has caught an exception goes on to log it (`OnLogError`); callbacks return
(`HandlerReturns`, `BeforeSendReturns`); a browser runs its event loop
(`EventLoop`); Godot runs deferred calls (`Save`). Throws, captures, calls of the
program, ticks and crashes are never fair. Liveness follows from the refinements
of `ExceptionCapture` and `EventDelivery`, whose specifications state it, and
from `MigrationSaved`.

*What is left out on purpose.* The part `layers` of `session` leaves out callbacks that
throw or initialize again, because
`ManagedFollowsNative` does not survive them: when a C# callback initializes the
native layer itself and then throws, the flag `_initializing` has swallowed the
only signal, and the managed layer stays down next to a running native one. The
properties of `lifecycle` are those that hold regardless. The instances of the
other runs are restricted in the same spirit where section 6 says so.

## 5. What is proved

Each proof module extends its component and assumes of the constants what the
component states about them (`ConstantsAssumption`, `JsAssumption`, ...); TLC
evaluates these assumptions for the constants of the runs. Threads, scopes,
handles, ids, nested calls and sessions are as many as the constants say, whatever
these are. With two exceptions, none of the invariants below is inductive as the properties
state it; what has to be added is the argument.

`ScopesProofs`:
- `TypeCorrect`; `SessionsAreIsolated` and `CapturesAreOwn`. A capture is safe
  because of where its scope came from. `IsolationInv` says it: lists only hold
  scopes of their thread born under the epoch the thread last compared; a resolved
  capture holds one born under the epoch it read; a scope carries only writes of its
  owner not older than its birth.
- `StacksFollowCalls`, `ForksAreConfined` and `ParentsAreRestored`. `StackInv`
  compares the list of each thread with its calls: forks lie in the order of their
  calls, above the parent they were cloned from, and leave the list only with their
  callable or with the whole list; what a scope of the list carries went to it or to
  one below. It needs `IsolationInv`, for a fork of an old epoch is not in the list.

`GodotLoggerProofs`, from `LimitsAssumption`:
- `TypeCorrect`, with `Created` (nothing is logged before there is a logger);
- `EventsPerFrame_Kept`. The inductive `FrameInv` adds that `frameEvents` is the
  number of events of the frame and no capture lies in a later frame;
- `RepeatedErrors_Apart`, whatever the number of errors. The inductive `RepeatInv`
  adds that the table holds, for each capture since it was last emptied, a time at or
  after it: stamps may be out of order, but an error is captured only if it is later
  than the stored one. Conversely each error of the table was captured since then, so
  a table that is emptied stands for more than `TableLimit` captured errors;
- `Throttling_Kept`. `eventTimes` is out of order as well, and trimmed at its front.
  `ThrottleInv` has a map from its positions to the events they stand for, from
  which no event inside the window is missing: no stamp is later than the present, so
  only older ones are trimmed, and a list that is full refuses the next event;
- `StartupEnds`, which is inductive by itself.

`EventProcessingProofs`:
- `TypeCorrect`, `Screenshot_Current`, `Tree_Current`. A file is
  compared with a call only when it is sent. The inductive `IInv` has a part on
  the files (`FileInv`: a processor remembers no frame later than the present one,
  and a screenshot that is there is no older than the frame any processor
  remembers) and one on each call in progress (`CallInv`: its frame and its number
  lie in the past; once it has passed `CheckFrame` or `RemoveTree`, a file that is
  there is not older than it). Files only ever become newer or vanish, which is why
  no lock is needed for this and why other threads do no harm;
- `Nothing_LeftOver`, inductive by itself, and `Not_Reentered`: the guard counts all
  calls of the thread, processed or not;
- `Files_Kept`, of programs whose main thread alone captures. `KeptInv`: the
  screenshot written for a call is the last one of its session while captures nest in
  it, and one that has removed the tree is going to build it before the outer call
  goes on.

`SessionProofs`, of `Lifecycle`: callbacks may initialize, close and throw as they
like, and nest.
- `LifecycleTypes`, `HubStaysConsistent`, `BeforeSendStaysConnected`. The state that a
  step finds depends on the steps before it, so `LayersInv` is about the agenda:
  which steps only come right after which (`StepsInOrder`), what the next step
  may rely on (`HeadReady`), that until a close ends only its own steps come before
  its end (`ClosesOnTop`), that the bindings are there for the steps that need them
  (`BoundSteps`), and that options with a `BeforeSend` are set only after the native
  layer knows of it (`HooksAhead`). Two lemmas about a stack whose top is replaced
  by other steps carry these through every action.
- `ClosesCloseBoth` and `LayersFollowEachOther`. `SessionInv` says that what was begun is
  still on the agenda: a close that found the backend running still has a step that stops it
  (`ClosesFinish`); unless callbacks throw, an enabled backend without managed options still
  has a step that brings them up, or one that stops it (`InitsFinish`); unless
  callbacks initialize again, only closes come between an `init()` and its backend
  (`InitsAlone`). Between calls the agenda is empty, and nothing is left half
  done. `LayersFollow` has the same two conditions, `~MayThrow` and `~Reentrant`;
  `ClosesCloseBoth` needs neither.

`SessionProofs`, of the whole of `MCSession`:
- `SessionsAreLifecycles`: every behaviour of `MCSession` is one of `Lifecycle`, so all of
  the above holds of it.
- `SettingsAreKept` and `SchemasGrow`, for any set of values. `FileInv`: the file was saved by
  some version, the present or a later one included, and means what the user chose.
  `ProcessInv`: what is in memory means the same and is of no earlier schema than the
  file, and the options are loaded from it unless a callback has changed them. Each
  migration is a lemma (`ToV1Migrates` to `ToV4Migrates`): of a file of any version it keeps the
  meaning. `MigratedIsCurrent` chains them; `SavedMeansTheSame` says that saving, which
  leaves out defaults, changes nothing either.
- `UsersAttachmentsAreKept`, on every backend, whichever may fail to start. `Initialized`
  says what each stage of `init()` has done, and that a backend that is not enabled is clean;
  `Attaching` that a session's scope holds what was wanted, and that the native
  backend knows the handles of these or is about to. `SessionKeepsAttachments` adds the
  default attachments (`DefaultsInv`); it assumes that the Android SDK does not fail to
  start, see section 6.
- `SessionKeepsFiles`: `Files_Kept` of `EventProcessingProofs`, applied to the instance; the
  selector never changes, so each behaviour is one of the component or leaves it alone.

`ScopeSyncProofs`, from `ScopeSyncAssumption`:
- `GuardsAreReleased`, with callbacks and captures. `GuardInv` lists the forms that the
  entries of a thread can have, at most three deep, with the value of each guard in each form.
- `LayersAreImplemented`: each layer implements `ScopeLayer`, without callbacks. The refinement
  mapping is `current` and `reached`; `ProgressInv` ties them to the entries
  (`Follows`), and every step begins, applies or ends an operation, or changes nothing
  that the abstract layer sees.
- `SeparateLayersAgree` and `LayersStayInStep`: of each part of the scope, either both layers
  hold the same, or the one thread that changes it is between its two layers (`AgreeInv`).

`AndroidHandlesProofs`, from `AndroidAssumption`:
- `HandlesFindOwn` and `NoHandlesLeak`. Every action has one of seven effects on tables, wrappers
  and callbacks, none included, and `HandleInv` is proved of these: no wrapper that could release the
  handle of a running callback has the same handle (`WrappersApart`), and nested
  callbacks have different ones. That holds for either of two reasons: wrappers
  stay on their threads, or random numbers do not repeat (`AllDrawn`); without both,
  nothing is promised.
- `VerdictsAreFinal`: every step is a step of `EventDelivery` or changes no stage. `VerdictInv`
  says that each capture has one callback at most and what its stage is there.

`BoundaryProofs`, of `JsBridge` and from `JsAssumption`:
- `IdsFindOwn`. `IdInv`: the store has what every living handle of a positive id was given
  out for, the event of the callback under way included. The search for an id goes
  round and ends at one that is not in use (`NextIsFree`, from the least number of steps
  that reaches one); an id that stays positive as a signed number stays itself
  (`SignedIds`, for every width). `BytesInv` adds that bytes in the store wait for
  one thread each; it holds as long as no more than half of the ids were given to bytes.
- `SessionsStayIsolated`: all that the scopes have is of the present session (`DataInv`).
- `VerdictsAreFinal`, for callbacks whose event has a positive id: `DeliveryInv` says that
  the queue has each event once and only before it is processed, and that the mark on an
  event is the verdict of its own callback.

`BoundaryProofs`, of the whole of `MCBoundary`: `BoundaryFindsOwn`, `BoundaryLeaksNothing`,
`BoundaryStaysInStep` and `BoundaryLayersImplement`. The module has three instances of
`AndroidHandles` and two of `ScopeSync`, with different assumptions; the theorems about
the components are used through instances of their proof modules, and lemmas say that
the definitions of both agree.

`ExceptionProofs`, of `MCExceptions`, for any number of threads, exceptions and types:
- `ExceptionsAreInvariant` and `FaultsAreContained`. `OnceInv`, with all faults: an
  exception waits in one queue, once, and no longer after its capture. `StepInv`, where finally
  blocks catch exceptions of their own: a queue is never longer than the counts that
  the events still to come will drain, and the last event of a thread with nothing in
  flight is a catch; hence nothing stale is left when it is quiet. `LoggerInv`: an
  exception belongs to one thread until it is captured (`OfInv`), nothing remembered is
  older than what is logged (`LastInv`), and what was captured in place of
  another had a type whose name cannot be told from it (`StaleInv`).
- `CleanupIsAfterDrain` and `HandlersImplementCapture`, which also need that events arrive within less
  than an interval of the clean-up (`Prompt`: `MaxLag < CleanupInterval`; in the code
  the interval is 2 seconds). `TimeInv`: the events of a thread that is about to be
  removed are older than the last clean-up, and events are no older than `MaxLag`, so
  there are none. `MatchInv`: without faults the counts lead, in the queue, to the
  exception that a catch has caught. Each handler's step is one of `ExceptionCapture` or a
  stutter.

*Only model-checked*: the conversions (`TimesKept`, `ValuesReadBack`, `TextsDescribe`); that the
records implement `AbstractRecord` (`ImplementsRecord`); `ImplementsDelivery` of the composition,
whose two halves are proved of their backends (`VerdictsAreFinal`). *Out of reach of the
provers*: liveness under fairness (that what `ExceptionCapture` and `EventDelivery` promise
happens in the end, and the half of `MigrationSaved` that is not `SchemaGrows`); what is computed by induction over
data; and modules that reach `RECURSIVE` operators: `Json`, `JsonWriter`,
`ViewHierarchy`, `Variants` and `MCValues`.

## 6. Findings

With a run that shows them:

- `before_send_window`: `SentryNativeOptions.cs:17` promises that the callback
  is "invoked before a native event is sent". The native backend is enabled
  before `CurrentOptions` is set, and closed after it is cleared; an event
  captured in between is sent without the callback.
- `tree_race`: every thread removes the scene tree file first
  (`view_hierarchy_processor.cpp:18`), the one just written for an event of the
  main thread included, although `doc_classes/SentryOptions.xml:32` promises a
  capture "with each event".
- `json_writer_floats`: NaN and infinity are written as words that JSON does not
  have (`json_writer.h:72`); on the Web all attributes of that log or metric are
  lost, although `doc_classes/SentryMetrics.xml:22` names `float` as supported.

Met while modelling, and kept out of the passing runs by the restriction named:

| Code | What happens | Restriction of the instance |
|---|---|---|
| `logging/sentry_godot_logger.cpp:252` | the table of repeated errors is emptied at the end of a frame once it holds more than 100, so an identical error may follow at once | `RepeatedErrorsApart` excepts two captures with such a frame between them |
| `sentry_godot_logger.cpp:326` | a window of 0 is no special case; a stamp taken before the lock may be older than the stored one, and the error is refused | the window is positive |
| `processing/screenshot_processor.cpp:23` | the frame number is read before the lock; a late worker removes the newer screenshot | `ScreenshotKept` is of one thread |
| `screenshot_processor.cpp:28` | the screenshot of a frame goes with every later event of it, whatever the level | `ScreenshotKept` does not say "only" |
| `processing/view_hierarchy_processor.cpp:34` | a worker's event is sent with whatever part of the tree is on disk | the tree part has no workers |
| `CoreClrExceptionHandler.cs:170` | the pool subscribes before the events are enabled; what is thrown in between stays in the queue | "early throw" only in a faulty setup |
| `CoreClrExceptionHandler.cs:256` | an exception that a finally block throws and catches drains the one in flight as well | "inner catch", likewise |
| `CoreClrExceptionHandler.cs:93` | a thread with the id of a dead one loses its queue when the dead one is finalized; if that happens between the event of a throw and its first-chance handler, it stays one exception off | "reused id", likewise; `BackInStep` is not of such threads; the sentinels that are still to be finalized are counted (`unfinalized`), so the clean-up may come twice for one id |
| `DefaultAttachmentsProcessor.cs:19` | an event that passed the check of the hub before `close()` meets no options any more | `HubConsistent` is of hub and options, not of an event in flight |
| `LoggerExceptionHandler.cs:54` | a stale exception is told apart by its type only | "inner catch", likewise |
| `SentryAndroidGodotPlugin.kt:53` | tables are thread-local: a handle used on another thread finds nothing | `CrossThread` promises "its own or none" |
| `javascript_interop.h:183` | ids from 2^31 on are passed as negative numbers, which find nothing; a handler's verdict on such an event is lost | `SmallIdsResolve` and `VerdictsStand` are of positive ids |
| `android_log.cpp:65` | `add_attributes()` hands values of other types to Java as they are; their text is lost | `Added` is numbers on Android |
| `native_metric.cpp:38` | a handler that makes a gauge a counter can leave a fraction in it, except with Cocoa | `IntegersAreWhole` of metrics sent as integers |
| `sentry_timestamp.cpp:105` | the last second before the epoch is taken for an error of `timegm()` | `ParsesInstant` excepts it |
| `sentry_timestamp.cpp:138` | a time before the epoch with a fraction gets a negative fraction in its text | `WritesInstant` excepts it |
| `sentry_timestamp.cpp` and the events of the backends | the epoch itself reads back as no timestamp on the Web, and no timestamp as the epoch on Android | `EventKeepsTime` excepts both |
| `javascript_interop.cpp:107` | whole doubles of 2^63 and more are read as the last 64 bits | `ReadsBack` up to the widths |
| `GodotScopeObserver.cs:47` | two threads that set one tag can leave each layer with the other's value | `KeysOf` are disjoint |
| `GodotScopeObserver.cs:42` | a change that a callback makes while the thread's guard is held is never forwarded | `LayersAgree` not with callbacks |
| `sentry_sdk.cpp:190` | a nested `init()` resets `is_configuring`, and the outer callback's attachments are lost | `Nested` is FALSE |
| `native_sdk.cpp:346` | two threads change the vector of handles without a lock; one may be lost | one thread in `session` |
| `android_sdk.cpp:391` | the default attachments are added to the global scope before the SDK starts; if it does not start they stay, and the next `init()` adds them again | `MayFailToStart` without Android |
| `android_sdk.cpp:383` | an event between clearing and re-adding lacks the default attachments | `AtRest` |
| `sentry_godot_logger.cpp:138` | a member variable replaces a local one of its name | `Distinct` names |

## 7. What is not modelled

- The 32-bit wrap of `scopes_epoch` (2^32 `init()` calls), and the memory order
  of its atomic: a read of the epoch is one step.
- User code on the main thread after the engine's shutdown began, the editor's
  hot reload of assemblies, and the fallback that shuts down in the destructor.
- The marshalling of options between layers and to the platforms' SDKs: fields
  copied one by one, nothing that an order of steps could change.
- In `GodotLogger`: `_log_message()`, which keeps no state but its own depth; C#
  errors, which leave before the limits for `LoggerExceptions`; a change of the
  limits while the logger runs; a logger created anew after `close()`, which
  starts with empty fields.
- In `EventProcessing`: the callbacks of logs and metrics, which have guards of
  their own and no processors; scene tree or screenshots turned off.
- In `Variants` and `JsonWriter`: an array that holds itself is not given to the
  JSON writer, which would not return; the sets of `Variants` list the types that
  the conversions tell apart, not all of Godot's.
- In the records: the data and types of breadcrumbs beyond text, level and data.
- What the platforms' own SDKs do: transport, offline queues, crash handlers and
  minidumps, ANR and app-hang detection, browser integrations.
- `contexts.cpp` and `runtime_config.cpp` read facts of the engine, the device and
  one installation id; the editor's export plugins and C# project patcher are one
  pass over a file; the feedback form is UI state; the Roslyn analyzer and the build
  scripts have no runtime state. `components` in `PROJECT.json` gives each its status.
