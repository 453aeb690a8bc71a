----------------------------- MODULE MCBackends -----------------------------
(***************************************************************************)
(* The backends for TLC.  A program is built with one of them, and a       *)
(* behaviour is about one of the promises that all backends make:          *)
(* AbstractRecord of the record that a program fills, or EventDelivery of  *)
(* the events it sends.  part chooses it, and the backend; the variables of*)
(* the other parts stay as they began.                                     *)
(***************************************************************************)
EXTENDS Integers, Sequences, FiniteSets, TLC

CONSTANTS
    empty, t1, info, error, noLevel, idField, nameField, noKey, k1, k2, p1, p2, v1, v2, number, other,
    otherText, garbled, frame, noFrame, null,
    main, o1, o2, zero, h1, h2, none

VARIABLES
    part,
    \* The records
    kind, program, call, obj,
    \* AndroidHandles
    tables, combined, data, wrappers, frames, drawn, enabled, handlers, global, stage,
    \* JsBridge
    store, lastId, bytes, lastBytes, handles, marshalled, content, stores, session, jsEnabled,
    isolation, globals, jsCurrent, queue, captured, callback, shouldDiscard, jsStage

recordVars == <<kind, program, call, obj>>
androidVars == <<tables, combined, data, wrappers, frames, drawn, enabled, handlers, global,
                 stage>>
jsVars == <<store, lastId, bytes, lastBytes, handles, marshalled, content, stores, session,
            jsEnabled, isolation, globals, jsCurrent, queue, captured, callback, shouldDiscard,
            jsStage>>
vars == <<part, recordVars, androidVars, jsVars>>

-----------------------------------------------------------------------------
(***************************************************************************)
(* The instances.                                                          *)
(***************************************************************************)
Kinds == {"event", "breadcrumb", "log", "metric"}
Programs == {{"texts", "level", "tags"}, {"contexts"}, {"user"}, {"exceptions", "fingerprint"},
             {"attributes", "data"}}
Text == {empty, t1}
Empty == empty
Level == {info, error}
Info == info
Error == error
NoLevel == noLevel
UserField == {idField, nameField}
EmptyKey == noKey
Prop == {p1, p2}
Value == {v1, v2}
Number == number
Other == other
OtherText == otherText
Frames == frame
NoFrames == noFrame
Null == null
MaxExceptions == 2

\* Two keys beside the empty one in the native backend, one in the others.
NativeR == INSTANCE NativeRecord WITH Key <- {noKey, k1, k2}, Added <- {number, other}
JsR == INSTANCE JsRecord WITH Key <- {noKey, k1}, Added <- {number, other}
CocoaR == INSTANCE CocoaRecord WITH Key <- {noKey, k1}, Added <- {number, other}
\* Attributes of other types, when added together, lose their text in the plugin (see README).
AndroidR == INSTANCE AndroidRecord WITH
    Key <- {noKey, k1}, Added <- {number}, Garbled <- garbled

AndroidD == INSTANCE AndroidHandles WITH
    Thread <- {main}, Object <- {o1, o2}, NoObject <- none, Handle <- {zero, h1, h2},
    Zero <- zero, Kinds <- {"event", "log"}, Mark <- {}, FreshHandles <- FALSE,
    CrossThread <- FALSE, MaxDeliveries <- 2, MaxWrappers <- 2, MaxNesting <- 2
\* The JavaScript objects of two events are 1 and 2.
JsD == INSTANCE JsBridge WITH
    Thread <- {main}, Object <- {o1}, Event <- 1..2, IdLimit <- 15, MaxHandles <- 2,
    MaxStores <- 3, MaxBuffers <- 0, MaxSession <- 2, NoHandle <- none,
    enabled <- jsEnabled, current <- jsCurrent, stage <- jsStage

ASSUME BackendsAssumption ==
    /\ NativeR!RecordsAssumption /\ JsR!RecordsAssumption /\ AndroidR!RecordsAssumption
    /\ AndroidD!AndroidAssumption /\ JsD!JsAssumption

-----------------------------------------------------------------------------
(***************************************************************************)
(* Behaviours of one part each.                                            *)
(***************************************************************************)
Delivers == part \in {"android delivery", "web delivery"}

Init ==
    /\ AndroidD!Init /\ JsD!Init
    /\ \/ part = "native" /\ NativeR!P!Init
       \/ part = "web" /\ JsR!P!Init
       \/ part = "cocoa" /\ CocoaR!P!Init
       \/ part = "android" /\ AndroidR!P!Init
       \/ Delivers /\ kind = "metric" /\ program = {} /\ call = <<>> /\ obj = <<>>

RecordStep ==
    /\ \/ part = "native" /\ NativeR!P!Next
       \/ part = "web" /\ JsR!P!Next
       \/ part = "cocoa" /\ CocoaR!P!Next
       \/ part = "android" /\ AndroidR!P!Next
    /\ UNCHANGED <<part, androidVars, jsVars>>

AndroidStep ==
    part = "android delivery" /\ AndroidD!Next /\ UNCHANGED <<part, recordVars, jsVars>>
JsStep == part = "web delivery" /\ JsD!Next /\ UNCHANGED <<part, recordVars, androidVars>>

Next == RecordStep \/ AndroidStep \/ JsStep

CallbackReturns ==
    /\ part = "android delivery"
    /\ AndroidD!HandlerReturns(main) \/ AndroidD!BeforeSendReturns(main)
    /\ UNCHANGED <<part, recordVars, jsVars>>
EventLoop ==
    part = "web delivery" /\ JsD!EventLoop /\ UNCHANGED <<part, recordVars, androidVars>>

\* Callbacks return, and the browser runs its event loop.
Spec == Init /\ [][Next]_vars /\ WF_vars(CallbackReturns) /\ WF_vars(EventLoop)

-----------------------------------------------------------------------------
(***************************************************************************)
(* Properties.                                                             *)
(***************************************************************************)
\* What was set on an event, breadcrumb, log or metric is what is read and sent, in every backend:
\* each setter changes its own property, also of records that the platform's SDK made, and leaves
\* all others.
Seen == CASE part = "native" -> NativeR!Seen
          [] part = "web" -> JsR!Seen
          [] part = "cocoa" -> CocoaR!Seen
          [] part = "android" -> AndroidR!Seen
          [] Delivers -> CocoaR!Seen
Record == INSTANCE AbstractRecord WITH
    seen <- Seen, Key <- {noKey, k1, k2}, Added <- {number, other}
ImplementsRecord ==
    /\ ~Delivers => Record!Init
    /\ [][~Delivers => Record!Next]_<<kind, program, call, Seen>>

\* Every event is seen by its handler before it is sent, the handler's verdict is what happens,
\* and every capture comes to an end, where the verdict is a handle that is gone (Android) and
\* where it is a property of an object that is known by an id (Web).
Stage == CASE part = "android delivery" -> stage
           [] part = "web delivery" -> jsStage
           [] OTHER -> [d \in 1..2 |-> "none"]
Delivered == INSTANCE EventDelivery WITH Delivery <- 1..2, stage <- Stage
ImplementsDelivery == Delivered!Spec
=============================================================================
