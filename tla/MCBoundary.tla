----------------------------- MODULE MCBoundary -----------------------------
(***************************************************************************)
(* The boundaries between languages for TLC: the handles by which C++      *)
(* knows the objects of the Java SDK, the ids by which it knows those of   *)
(* the JavaScript SDK, and the scopes that are kept the same on both sides *)
(* of the .NET layer.  A program has one of them: setup chooses it, and    *)
(* within it what the run is about; the others stay as they began.         *)
(***************************************************************************)
EXTENDS JsBridge

CONSTANTS main, worker, o1, o2, zero, h1, h2, mark, none, k1, k2, v

VARIABLES
    setup,
    \* AndroidHandles
    tables, combined, data, wrappers, frames, drawn, javaEnabled, handlers, global, javaStage,
    \* ScopeSync
    layerScopes, stack, depth, inLocalScope, calls, currentCall, reached

androidVars == <<tables, combined, data, wrappers, frames, drawn, javaEnabled, handlers, global,
                 javaStage>>
syncVars == <<layerScopes, stack, depth, inLocalScope, calls, currentCall, reached>>
boundaryVars == <<setup, androidVars, vars, syncVars>>

Threads == {main, worker}
BoundarySymmetry == Permutations({o1, o2}) \cup Permutations({h1, h2})

-----------------------------------------------------------------------------
(***************************************************************************)
(* The instances.                                                          *)
(***************************************************************************)
\* Wrappers stay on their threads; any handle that is free may be drawn.
Handles == INSTANCE AndroidHandles WITH
    Thread <- Threads, Object <- {o1, o2}, NoObject <- none, Handle <- {zero, h1, h2},
    Zero <- zero, Kinds <- {"event", "scope"}, Mark <- {}, FreshHandles <- FALSE,
    CrossThread <- FALSE, MaxDeliveries <- 2, MaxWrappers <- 3, MaxNesting <- 2,
    enabled <- javaEnabled, stage <- javaStage
\* Wrappers are used and destroyed on other threads; handles do not repeat.
Crossed == INSTANCE AndroidHandles WITH
    Thread <- Threads, Object <- {o1, o2}, NoObject <- none, Handle <- {zero, h1, h2},
    Zero <- zero, Kinds <- {"event", "log"}, Mark <- {}, FreshHandles <- TRUE,
    CrossThread <- TRUE, MaxDeliveries <- 2, MaxWrappers <- 2, MaxNesting <- 2,
    enabled <- javaEnabled, stage <- javaStage
\* Objects are written to and put into scopes.
Filled == INSTANCE AndroidHandles WITH
    Thread <- {main}, Object <- {o1, o2}, NoObject <- none, Handle <- {zero, h1, h2},
    Zero <- zero, Kinds <- {"breadcrumb", "scope", "metric"}, Mark <- {mark},
    FreshHandles <- FALSE, CrossThread <- FALSE, MaxDeliveries <- 1, MaxWrappers <- 3,
    MaxNesting <- 2,
    enabled <- javaEnabled, stage <- javaStage

\* Two threads that change tags of their own, and one the user and the trace.
Synced == INSTANCE ScopeSync WITH
    Keys <- {k1, k2}, Values <- {v}, None <- none, MaxCalls <- 2,
    KeysOf <- main :> {k1} @@ worker :> {k2}, UserThreads <- {main}, InCallbacks <- {},
    InCaptures <- {}, scopes <- layerScopes, current <- currentCall
\* Callbacks within .NET's calls and captures set a tag as well.
SyncedCallbacks == INSTANCE ScopeSync WITH
    Keys <- {k1, k2}, Values <- {v}, None <- none, MaxCalls <- 2,
    KeysOf <- main :> {k1} @@ worker :> {k2}, UserThreads <- {}, InCallbacks <- {k2},
    InCaptures <- {k2}, scopes <- layerScopes, current <- currentCall

ASSUME BoundaryAssumption ==
    /\ Handles!AndroidAssumption /\ Crossed!AndroidAssumption /\ Filled!AndroidAssumption
    /\ JsAssumption
    /\ Synced!ScopeSyncAssumption /\ SyncedCallbacks!ScopeSyncAssumption

-----------------------------------------------------------------------------
(***************************************************************************)
(* Behaviours of one boundary each.                                        *)
(***************************************************************************)
JsSetups == {"ids", "bytes", "sessions"}

BoundaryInit ==
    /\ Synced!Init /\ Init
    /\ \/ setup \in {"handles", "sync", "callbacks"} \cup JsSetups /\ Handles!Init
       \/ setup = "crossed" /\ Crossed!Init
       \/ setup = "filled" /\ Filled!Init

AndroidStep ==
    /\ \/ setup = "handles" /\ Handles!Next
       \/ setup = "crossed" /\ Crossed!Next
       \/ setup = "filled" /\ Filled!Next
    /\ UNCHANGED <<setup, vars, syncVars>>

Uses(t) == Obtain(t) \/ Get(t) \/ Release(t) \/ StoreBytes(t) \/ PassBytes(t)
Captures(t) == InitSDK(t) \/ Close(t) \/ WriteData(t) \/ CaptureEvent(t)

\* The ids go round; two threads pass bytes; the SDK is closed and initialized again.
JsStep ==
    /\ \/ setup = "ids" /\ Uses(main) /\ lastBytes' <= 1
       \/ setup = "bytes" /\ (\E t \in Threads : Uses(t)) /\ stores' <= 5
       \/ setup = "sessions" /\ Uses(main) /\ stores' <= 1 /\ lastBytes' = 0
       \/ setup = "sessions" /\ (Captures(main) \/ EventLoop)
    /\ UNCHANGED <<setup, androidVars, syncVars>>

SyncStep ==
    /\ \/ setup = "sync" /\ Synced!Next
       \/ setup = "callbacks" /\ SyncedCallbacks!Next
    /\ UNCHANGED <<setup, androidVars, vars>>

BoundaryNext == AndroidStep \/ JsStep \/ SyncStep

BoundarySpec == BoundaryInit /\ [][BoundaryNext]_boundaryVars

-----------------------------------------------------------------------------
(***************************************************************************)
(* Properties, beside those of JsBridge: IdsFindTheirOwn, SessionsIsolated.*)
(***************************************************************************)
\* A wrapper of a Java object finds this object: on its own thread always, whatever numbers the
\* plugin draws; on another thread this object or none; and the object of a before_send callback
\* is found while the callback runs, whatever wrappers are destroyed meanwhile.
HandlesFindTheirOwn ==
    /\ setup = "handles" => Handles!HandlesFindTheirOwn
    /\ setup = "crossed" => Crossed!HandlesFindTheirOwn
    /\ setup = "filled" => Filled!HandlesFindTheirOwn

\* Nothing stays in the plugin's tables once neither a wrapper nor a callback needs it, and the
\* layered scopes go with the scope that they were made for.
NoHandleLeaks ==
    /\ setup = "handles" => Handles!NoHandleLeaks
    /\ setup = "crossed" => Crossed!NoHandleLeaks
    /\ setup = "filled" => Filled!NoHandleLeaks

\* Each layer's scope gets every operation of the program once between its call and its return,
\* and none of a capture's own scope (ScopeLayer).
Shown == setup # "callbacks"
Calls(layer) == IF Shown THEN Synced!Pending(layer) ELSE [t \in Threads |-> none]
Native == INSTANCE ScopeLayer WITH
    Ops <- Synced!AllOps, Idle <- none, Fresh <- Synced!Fresh, Applied <- Synced!Applied,
    scope <- IF Shown THEN layerScopes["native"] ELSE Synced!Fresh, pending <- Calls("native")
Dotnet == INSTANCE ScopeLayer WITH
    Ops <- Synced!AllOps, Idle <- none, Fresh <- Synced!Fresh, Applied <- Synced!Applied,
    scope <- IF Shown THEN layerScopes["dotnet"] ELSE Synced!Fresh, pending <- Calls("dotnet")
LayersImplement == Native!Spec /\ Dotnet!Spec

\* Once a thread's call has returned no guard of it is held, so that its next change is forwarded
\* again; once all have, both layers hold the same, unless a callback changed one of them.
LayersInStep ==
    IF setup = "callbacks" THEN SyncedCallbacks!LayersInStep ELSE Synced!LayersInStep
=============================================================================
