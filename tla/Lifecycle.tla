----------------------------- MODULE Lifecycle -----------------------------
(***************************************************************************)
(* init() and close() of the two SDK layers: the native facade             *)
(* (src/src/sentry/sentry_sdk.cpp, dotnet/csharp_interop.cpp) and the      *)
(* managed layer (dotnet/managed/Sentry.Godot/SentrySdk.cs).               *)
(*                                                                         *)
(* Either layer can be asked first, and each brings the other along, so    *)
(* the calls go back and forth between them and re-entry flags keep them   *)
(* from running twice.  Everything happens on the main thread, both layers *)
(* refuse other threads; but other threads capture events all the while,   *)
(* so the states between two steps count.  `agenda` is the control stack   *)
(* of the main thread: the steps still to run, the next one first.  While  *)
(* a configuration callback is next, user code runs and may call anything. *)
(***************************************************************************)
EXTENDS Integers, Sequences, FiniteSets

CONSTANTS
    Reentrant,    \* TRUE: a GDScript configuration callback may call init()
    MayThrow,     \* TRUE: a C# configuration callback may throw
    MaxCallbacks  \* bound on the configuration callbacks in progress

ASSUME LifecycleAssumption ==
    /\ Reentrant \in BOOLEAN
    /\ MayThrow \in BOOLEAN
    /\ MaxCallbacks \in Nat

VARIABLES
    nativeEnabled,  \* internal_sdk->is_enabled()
    loggerAdded,    \* godot_logger is registered with OS
    registered,     \* s_managed_funcs is filled in
    definedHooks,   \* s_managed_defined_hooks has DEFINED_BEFORE_SEND
    hubEnabled,     \* Sentry.SentrySdk.IsEnabled
    currentOptions, \* SentrySdk.CurrentOptions
    handlers,       \* exception handlers subscribed; _exceptionHandler is one
    initializing,   \* SentrySdk._initializing
    closing,        \* SentrySdk._closing
    agenda,         \* the steps the main thread still has to do
    stopped,        \* the engine is shutting down
    sessionHook,    \* history: the native session was started with a BeforeSend
    nativeSession,  \* history: the hub was started while native was enabled
    bypassed        \* history: an event missed the BeforeSend of its session

nativeVars == <<nativeEnabled, loggerAdded, sessionHook>>
bridgeVars == <<registered, definedHooks>>
hubVars == <<hubEnabled, currentOptions, handlers, nativeSession>>
flags == <<initializing, closing>>
vars == <<nativeVars, bridgeVars, hubVars, flags, agenda, stopped, bypassed>>

(* CurrentOptions: null, read back from the native layer, or configured by *)
(* the user of the managed layer, without or with Native.SetBeforeSend.    *)
ManagedOptions == {"user", "hooked"}
Options == {"null", "native"} \cup ManagedOptions

Callbacks == {"gd_callback", "cs_callback"}

StepName == Callbacks \cup
    {"init_native", "init_backend", "add_logger", "notify_init", "set_options",
     "init_hub", "install_handler", "end_init", "notify_close", "clear_hooks",
     "remove_logger", "close_backend", "close_native", "dispose_handler",
     "close_hub", "clear_options", "end_close", "release_bindings"}

StepRecord == [do : StepName, with : Options]

Step(name) == [do |-> name, with |-> "null"]
StepWith(name, o) == [do |-> name, with |-> o]

TypeOK ==
    /\ {nativeEnabled, loggerAdded, registered, definedHooks, hubEnabled} \subseteq BOOLEAN
    /\ {initializing, closing, stopped, sessionHook, nativeSession, bypassed} \subseteq BOOLEAN
    /\ currentOptions \in Options
    /\ handlers \in Nat
    /\ agenda \in Seq(StepRecord)

Init ==
    /\ nativeEnabled = FALSE /\ loggerAdded = FALSE
    /\ registered = FALSE /\ definedHooks = FALSE
    /\ hubEnabled = FALSE /\ currentOptions = "null" /\ handlers = 0
    /\ initializing = FALSE /\ closing = FALSE
    /\ agenda = <<>> /\ stopped = FALSE
    /\ sessionHook = FALSE /\ nativeSession = FALSE /\ bypassed = FALSE

-----------------------------------------------------------------------------
Idle == agenda = <<>>

AtStep(name) == agenda # <<>> /\ Head(agenda).do = name
Argument == Head(agenda).with

(* The present step is done; what it called comes before what was pending. *)
Continue(steps) == agenda' = steps \o Tail(agenda)
Do(name, steps) == AtStep(name) /\ Continue(steps)

UserCode == ~stopped /\ (agenda # <<>> => Head(agenda).do \in Callbacks)
Call(steps) == UserCode /\ agenda' = steps \o agenda

(* Where the agenda has steps of these names.                              *)
Pending(names) == {i \in DOMAIN agenda : agenda[i].do \in names}
MayConfigure == Cardinality(Pending(Callbacks)) < MaxCallbacks
MayInit == Reentrant \/ Pending({"gd_callback"}) = {}

-----------------------------------------------------------------------------
(* The native facade.                                                      *)

(* SentrySDK::init(), also _auto_initialize(), which passes no callback.   *)
InitNativeSdk(withCallback) ==
    /\ ~nativeEnabled
    /\ MayInit
    /\ withCallback => MayConfigure
    /\ Call(IF withCallback THEN <<Step("gd_callback"), Step("init_backend")>>
                            ELSE <<Step("init_backend")>>)
    /\ UNCHANGED <<nativeVars, bridgeVars, hubVars, flags, stopped, bypassed>>

ReturnFromGdCallback ==
    /\ Do("gd_callback", <<>>)
    /\ UNCHANGED <<nativeVars, bridgeVars, hubVars, flags, stopped, bypassed>>

(* internal_sdk->init(), which may fail.                                   *)
InitBackend(ok) ==
    /\ Do("init_backend", IF ok THEN <<Step("add_logger"), Step("notify_init")>> ELSE <<>>)
    /\ nativeEnabled' = ok
    /\ sessionHook' = (ok /\ Argument = "hooked")
    /\ UNCHANGED <<loggerAdded, bridgeVars, hubVars, flags, stopped, bypassed>>

(* OS::add_logger(), if the option says so; adding it twice is refused.    *)
AddLogger(loggerOption) ==
    /\ Do("add_logger", <<>>)
    /\ loggerAdded' = (loggerAdded \/ loggerOption)
    /\ UNCHANGED <<nativeEnabled, sessionHook, bridgeVars, hubVars, flags, stopped, bypassed>>

InitDotnet(o) == <<StepWith("set_options", o), Step("init_hub")>>

(* SentrySdk.InitFromNative(), unless the managed layer asked for the init.*)
InitFromNative ==
    IF initializing
    THEN Continue(<<>>) /\ UNCHANGED initializing
    ELSE Continue(Append(InitDotnet("native"), Step("end_init"))) /\ initializing' = TRUE

(* dotnet::init()                                                          *)
NotifyInit ==
    /\ AtStep("notify_init")
    /\ IF registered THEN InitFromNative ELSE Continue(<<>>) /\ UNCHANGED initializing
    /\ UNCHANGED <<nativeVars, bridgeVars, hubVars, closing, stopped, bypassed>>

(* What close() does when the backend is enabled.                          *)
CloseSteps ==
    <<Step("notify_close"), Step("clear_hooks"), Step("remove_logger"), Step("close_backend")>>

(* SentrySDK::close()                                                      *)
CloseNativeSdk ==
    /\ nativeEnabled
    /\ Call(CloseSteps)
    /\ UNCHANGED <<nativeVars, bridgeVars, hubVars, flags, stopped, bypassed>>

(* Mutant: the options go before the hub that events still pass through.   *)
CloseDotnetSdk_OptionsFirst ==
    <<Step("dispose_handler"), Step("clear_options"), Step("close_hub")>>

(* CloseDotnetSdk(): the exception handler, the hub, CurrentOptions.       *)
CloseDotnetSdk == <<Step("dispose_handler"), Step("close_hub"), Step("clear_options")>>

(* dotnet::close(): CloseFromNative(), unless the managed layer asked for  *)
(* the close.                                                              *)
NotifyClose ==
    /\ AtStep("notify_close")
    /\ IF registered /\ ~closing
       THEN closing' = TRUE /\ Continue(Append(CloseDotnetSdk, Step("end_close")))
       ELSE UNCHANGED closing /\ Continue(<<>>)
    /\ UNCHANGED <<nativeVars, bridgeVars, hubVars, initializing, stopped, bypassed>>

(* The end of dotnet::close().                                             *)
ClearHooks ==
    /\ Do("clear_hooks", <<>>)
    /\ definedHooks' = FALSE
    /\ UNCHANGED <<nativeVars, registered, hubVars, flags, stopped, bypassed>>

RemoveLogger ==
    /\ Do("remove_logger", <<>>)
    /\ loggerAdded' = FALSE
    /\ UNCHANGED <<nativeEnabled, sessionHook, bridgeVars, hubVars, flags, stopped, bypassed>>

(* internal_sdk->close()                                                   *)
CloseBackend ==
    /\ Do("close_backend", <<>>)
    /\ nativeEnabled' = FALSE
    /\ sessionHook' = FALSE
    /\ UNCHANGED <<loggerAdded, bridgeVars, hubVars, flags, stopped, bypassed>>

(* _on_engine_shutdown()                                                   *)
Shutdown ==
    /\ Idle
    /\ ~stopped
    /\ stopped' = TRUE
    /\ agenda' = (IF nativeEnabled THEN CloseSteps ELSE <<>>) \o <<Step("release_bindings")>>
    /\ UNCHANGED <<nativeVars, bridgeVars, hubVars, flags, bypassed>>

ReleaseBindings ==
    /\ Do("release_bindings", <<>>)
    /\ registered' = FALSE
    /\ UNCHANGED <<nativeVars, definedHooks, hubVars, flags, stopped, bypassed>>

-----------------------------------------------------------------------------
(* The managed layer.                                                      *)

(* Mutant: a native layer that is enabled already goes unnoticed.          *)
LoadAssembly_RegisterOnly ==
    /\ Idle
    /\ ~stopped
    /\ ~registered
    /\ registered' = TRUE
    /\ UNCHANGED <<nativeVars, definedHooks, hubVars, flags, agenda, stopped, bypassed>>

(* The module initializer of the user's assembly: AutoInit().              *)
LoadAssembly ==
    /\ Idle
    /\ ~stopped
    /\ ~registered
    /\ registered' = TRUE
    /\ IF nativeEnabled
       THEN initializing' = TRUE /\ agenda' = Append(InitDotnet("native"), Step("end_init"))
       ELSE UNCHANGED <<initializing, agenda>>
    /\ UNCHANGED <<nativeVars, definedHooks, hubVars, closing, stopped, bypassed>>

(* SentrySdk.Init() up to the callback.  IsEnabled asks the managed layer. *)
InitManagedSdk ==
    /\ registered
    /\ ~initializing
    /\ ~hubEnabled
    /\ MayInit
    /\ MayConfigure
    /\ initializing' = TRUE
    /\ Call(<<Step("cs_callback"), Step("end_init")>>)
    /\ UNCHANGED <<nativeVars, bridgeVars, hubVars, closing, stopped, bypassed>>

ReturnFromCsCallback(o) ==
    /\ Do("cs_callback", <<StepWith("init_native", o)>> \o InitDotnet(o))
    /\ UNCHANGED <<nativeVars, bridgeVars, hubVars, flags, stopped, bypassed>>

(* The callback throws: only the `finally` of Init() is left to run.       *)
ThrowFromCsCallback ==
    /\ MayThrow
    /\ Do("cs_callback", <<>>)
    /\ UNCHANGED <<nativeVars, bridgeVars, hubVars, flags, stopped, bypassed>>

(* Mutant: the hooks are published only if the native init is accepted.    *)
InitNative_HooksIfAccepted ==
    /\ Do("init_native", IF nativeEnabled THEN <<>> ELSE <<StepWith("init_backend", Argument)>>)
    /\ definedHooks' = IF nativeEnabled THEN definedHooks ELSE Argument = "hooked"
    /\ UNCHANGED <<nativeVars, registered, hubVars, flags, stopped, bypassed>>

(* csharp_interop_sdk_init(): the hooks are set even if SentrySDK::init()  *)
(* then refuses because the native layer is enabled already.               *)
InitNative ==
    /\ Do("init_native", IF nativeEnabled THEN <<>> ELSE <<StepWith("init_backend", Argument)>>)
    /\ definedHooks' = (Argument = "hooked")
    /\ UNCHANGED <<nativeVars, registered, hubVars, flags, stopped, bypassed>>

(* InitDotnet(): CurrentOptions first.                                     *)
SetOptions ==
    /\ Do("set_options", <<>>)
    /\ currentOptions' = Argument
    /\ UNCHANGED <<nativeVars, bridgeVars, hubEnabled, handlers, nativeSession, flags, stopped, bypassed>>

(* Sentry.SentrySdk.Init(): an enabled hub, a disabled one (no DSN), or an *)
(* exception that leaves everything as it was.                             *)
InitHub(outcome) ==
    /\ Do("init_hub", IF outcome = "throws" THEN <<>> ELSE <<Step("install_handler")>>)
    /\ hubEnabled' = CASE outcome = "enabled" -> TRUE
                       [] outcome = "disabled" -> FALSE
                       [] outcome = "throws" -> hubEnabled
    /\ nativeSession' = IF outcome = "throws" THEN nativeSession ELSE nativeEnabled
    /\ UNCHANGED <<nativeVars, bridgeVars, currentOptions, handlers, flags, stopped, bypassed>>

(* InitFirstChanceExceptionHandler()                                       *)
InstallHandler ==
    /\ Do("install_handler", <<>>)
    /\ handlers' = IF handlers = 0 THEN handlers + 1 ELSE handlers
    /\ UNCHANGED <<nativeVars, bridgeVars, hubEnabled, currentOptions, nativeSession, flags, stopped, bypassed>>

EndInit ==
    /\ Do("end_init", <<>>)
    /\ initializing' = FALSE
    /\ UNCHANGED <<nativeVars, bridgeVars, hubVars, closing, stopped, bypassed>>

(* Mutant: the native layer is left running.                               *)
CloseManagedSdk_Alone ==
    /\ registered
    /\ ~closing
    /\ closing' = TRUE
    /\ Call(Append(CloseDotnetSdk, Step("end_close")))
    /\ UNCHANGED <<nativeVars, bridgeVars, hubVars, initializing, stopped, bypassed>>

(* SentrySdk.Close()                                                       *)
CloseManagedSdk ==
    /\ registered
    /\ ~closing
    /\ closing' = TRUE
    /\ Call(CloseDotnetSdk \o <<Step("close_native"), Step("end_close")>>)
    /\ UNCHANGED <<nativeVars, bridgeVars, hubVars, initializing, stopped, bypassed>>

(* csharp_interop_sdk_close()                                              *)
CloseNative ==
    /\ Do("close_native", IF nativeEnabled THEN CloseSteps ELSE <<>>)
    /\ UNCHANGED <<nativeVars, bridgeVars, hubVars, flags, stopped, bypassed>>

(* Mutant: the handler is disposed of without asking whether there is one. *)
DisposeHandler_Unchecked ==
    /\ Do("dispose_handler", <<>>)
    /\ handlers' = handlers - 1
    /\ UNCHANGED <<nativeVars, bridgeVars, hubEnabled, currentOptions, nativeSession, flags, stopped, bypassed>>

(* _exceptionHandler?.Dispose()                                            *)
DisposeHandler ==
    /\ Do("dispose_handler", <<>>)
    /\ handlers' = IF handlers = 0 THEN handlers ELSE handlers - 1
    /\ UNCHANGED <<nativeVars, bridgeVars, hubEnabled, currentOptions, nativeSession, flags, stopped, bypassed>>

CloseHub ==
    /\ Do("close_hub", <<>>)
    /\ hubEnabled' = FALSE
    /\ UNCHANGED <<nativeVars, bridgeVars, currentOptions, handlers, nativeSession, flags, stopped, bypassed>>

ClearOptions ==
    /\ Do("clear_options", <<>>)
    /\ currentOptions' = "null"
    /\ UNCHANGED <<nativeVars, bridgeVars, hubEnabled, handlers, nativeSession, flags, stopped, bypassed>>

EndClose ==
    /\ Do("end_close", <<>>)
    /\ closing' = FALSE
    /\ UNCHANGED <<nativeVars, bridgeVars, hubVars, initializing, stopped, bypassed>>

-----------------------------------------------------------------------------
(* process_event_in_managed_layer() on whichever thread captures an event: *)
(* the flag first, CurrentOptions on the managed side.                     *)
CallbackRuns == registered /\ definedHooks /\ currentOptions = "hooked"

ProcessNativeEvent ==
    /\ nativeEnabled
    /\ bypassed' = (bypassed \/ (sessionHook /\ ~CallbackRuns))
    /\ UNCHANGED <<nativeVars, bridgeVars, hubVars, flags, agenda, stopped>>

-----------------------------------------------------------------------------
NativeStep ==
    \/ \E withCallback \in BOOLEAN : InitNativeSdk(withCallback)
    \/ ReturnFromGdCallback
    \/ \E ok \in BOOLEAN : InitBackend(ok)
    \/ \E loggerOption \in BOOLEAN : AddLogger(loggerOption)
    \/ NotifyInit
    \/ CloseNativeSdk
    \/ NotifyClose
    \/ ClearHooks
    \/ RemoveLogger
    \/ CloseBackend
    \/ Shutdown
    \/ ReleaseBindings

ManagedStep ==
    \/ LoadAssembly
    \/ InitManagedSdk
    \/ \E o \in ManagedOptions : ReturnFromCsCallback(o)
    \/ ThrowFromCsCallback
    \/ InitNative
    \/ SetOptions
    \/ \E outcome \in {"enabled", "disabled", "throws"} : InitHub(outcome)
    \/ InstallHandler
    \/ EndInit
    \/ CloseManagedSdk
    \/ CloseNative
    \/ DisposeHandler
    \/ CloseHub
    \/ ClearOptions
    \/ EndClose

Next == NativeStep \/ ManagedStep \/ ProcessNativeEvent

Spec == Init /\ [][Next]_vars

-----------------------------------------------------------------------------
(***************************************************************************)
(* Properties.                                                             *)
(***************************************************************************)

(* A managed event can be captured on any thread while the hub is enabled, *)
(* and DefaultAttachmentsProcessor then dereferences CurrentOptions.       *)
HubHasOptions == hubEnabled => currentOptions # "null"

(* Between calls, the managed layer listens to first-chance exceptions     *)
(* exactly once if its hub is enabled, and not at all after a close.       *)
HandlerFollowsHub ==
    Idle => /\ hubEnabled => handlers = 1
            /\ currentOptions = "null" => handlers = 0

(* The re-entry flags are set exactly as long as a call that set them is   *)
(* in progress, whether it returns or throws: a flag left behind would     *)
(* turn every later Init() or Close() into a silent no-op.                 *)
HeldOnce(name, flag) ==
    /\ flag <=> Pending({name}) # {}
    /\ \A i, j \in Pending({name}) : i = j

FlagsReleased == HeldOnce("end_init", initializing) /\ HeldOnce("end_close", closing)

(* All of this, whatever the callbacks of a configuration initialize or    *)
(* throw (SentrySdk.InitInternal(), SentrySdk.Close()).                    *)
HubConsistent == HubHasOptions /\ HandlerFollowsHub /\ FlagsReleased

(* Between calls, when both layers are up, a BeforeSend in CurrentOptions  *)
(* is also known to the native layer, in whichever order the layers were   *)
(* initialized and although the native layer may have refused its init.    *)
BeforeSendConnected ==
    (Idle /\ nativeEnabled /\ registered /\ currentOptions = "hooked") => definedHooks

(* Between calls, an enabled native layer has brought the managed layer    *)
(* up, no matter which of the two was asked first and what the callbacks   *)
(* did.  (With MayThrow this fails: an Init() that throws after its        *)
(* callback initialized the native layer has swallowed the signal.)        *)
ManagedFollowsNative ==
    (Idle /\ nativeEnabled /\ registered) => currentOptions # "null"

(* Between calls, a managed session that began next to a native one has    *)
(* not outlived it, the engine's shutdown included.                        *)
HubClosesWithBackend ==
    (Idle /\ hubEnabled /\ nativeSession) => nativeEnabled

(* The logger is registered only while the backend can take its events.    *)
LoggerFollowsBackend == loggerAdded => nativeEnabled

(* The layers follow each other up and down.  The exceptions are an Init() *)
(* that throws (see ManagedFollowsNative) and a GDScript callback that     *)
(* calls init(): the outer init() then starts the backend a second time,   *)
(* and if that fails, what the inner one added is left.                    *)
LayersFollow ==
    /\ ~MayThrow => ManagedFollowsNative
    /\ ~Reentrant => HubClosesWithBackend /\ LoggerFollowsBackend

(* When SentrySdk.Close() ends, both layers are down: no step of it has    *)
(* been lost to a re-entry flag.                                           *)
CloseClosesBoth ==
    [][(closing /\ ~closing' /\ Pending({"close_backend"}) = {})
        => ~nativeEnabled /\ ~hubEnabled /\ currentOptions = "null"]_vars

(* "Sets the callback invoked before a native event is sent": no event of  *)
(* a native session that was started with a BeforeSend is sent without it. *)
BeforeSendAlwaysRuns == ~bypassed
=============================================================================
