--------------------------- MODULE AndroidHandles ---------------------------
(***************************************************************************)
(* The Android backend: objects of the Java SDK, which the C++ layer knows *)
(* by handles only.                                                        *)
(*                                                                         *)
(* The plugin keeps a table of handles for each kind of object and each    *)
(* thread.  A C++ wrapper holds a handle and is shared freely between      *)
(* threads; it releases the handle when it is destroyed, on the thread that*)
(* destroys it, unless it borrows an object that before_send was called    *)
(* with.  The plugin registers such an object for the time of the callback,*)
(* and takes its absence afterwards for the handler's verdict.             *)
(***************************************************************************)
EXTENDS Naturals, Sequences, FiniteSets, TLC

CONSTANTS
    Thread, Object, NoObject,
    Handle, Zero,      \* Zero is the handle 0
    Kinds,             \* the kinds of object that a run is about
    Mark,              \* what the program writes
    FreshHandles,      \* TRUE: random handles do not repeat in 2^32 draws
    CrossThread,       \* TRUE: events and the like are used on other threads
    MaxDeliveries, MaxWrappers, MaxNesting   \* bounds

AllKinds == {"event", "breadcrumb", "log", "metric", "scope"}

AndroidAssumption ==
    /\ Kinds \subseteq AllKinds
    /\ Zero \in Handle /\ NoObject \notin Object
    /\ {FreshHandles, CrossThread} \subseteq BOOLEAN
    /\ {MaxDeliveries, MaxWrappers, MaxNesting} \subseteq Nat

VARIABLES
    tables,    \* eventsByHandle and its four fellows: kind, thread, handle -> object
    combined,  \* combinedScopesByHandle: thread, handle -> the local scope in it
    data,      \* what an object holds
    wrappers,  \* living C++ wrappers
    frames,    \* per thread: before_send callbacks under way, the innermost first
    drawn,     \* handles that were drawn, if they do not repeat
    enabled,   \* Sentry.isEnabled()
    handlers,  \* kinds whose handler was passed to init()
    global,    \* data of the global scope
    stage      \* as in EventDelivery

vars == <<tables, combined, data, wrappers, frames, drawn, enabled, handlers, global,
          stage>>

Delivery == 1..MaxDeliveries
Symmetry == Permutations(Object) \cup Permutations(Handle \ {Zero})
Delivered == INSTANCE EventDelivery

Blank == [field |-> "unset", parts |-> {}]
Data == [field : Mark \cup {"unset"}, parts : SUBSET (Mark \cup {"default", "user"})]
Wrapper == [kind : AllKinds, handle : Handle, object : Object \cup {NoObject},
            home : Thread, borrowed : BOOLEAN]
Frame == [kind : AllKinds, handle : Handle, object : Object, delivery : Delivery,
          returned : BOOLEAN]

TypeOK ==
    /\ DOMAIN tables = Kinds
    /\ \A k \in Kinds, t \in Thread :
         DOMAIN tables[k][t] \subseteq Handle /\ \A h \in DOMAIN tables[k][t] : tables[k][t][h] \in Object
    /\ data \in [Object -> Data]
    /\ wrappers \subseteq Wrapper
    /\ frames \in [Thread -> Seq(Frame)]
    /\ drawn \subseteq Handle /\ enabled \in BOOLEAN
    /\ handlers \subseteq Kinds
    /\ global \in SUBSET (Mark \cup {"default", "user"})
    /\ Delivered!TypeOK

Init ==
    /\ tables = [k \in Kinds |-> [t \in Thread |-> <<>>]]
    /\ combined = [t \in Thread |-> <<>>]
    /\ data = [o \in Object |-> Blank]
    /\ wrappers = {} /\ frames = [t \in Thread |-> <<>>]
    /\ drawn = {} /\ enabled = FALSE /\ handlers = {} /\ global = {}
    /\ Delivered!Init

(***************************************************************************)
(* The plugin's tables                                                     *)
(***************************************************************************)
Found(k, t, h) == h \in DOMAIN tables[k][t]

\* Handles that register*() may draw: random numbers, drawn again while they are taken.
Free_NotChecked(k, t) == {h \in Handle : h \notin drawn /\ (k = "scope" => h # Zero)}

Free(k, t) == {h \in Handle : h \notin DOMAIN tables[k][t] /\ h \notin drawn /\ (k = "scope" => h # Zero)}

With(f, h, o) == [x \in DOMAIN f \cup {h} |-> IF x = h THEN o ELSE f[x]]
Without(f, h) == [x \in DOMAIN f \ {h} |-> f[x]]

Registered(k, t, h, o) == [tables EXCEPT ![k][t] = With(@, h, o)]

Released(k, t, h) == [tables EXCEPT ![k][t] = Without(@, h)]

Draw(h) == drawn' = IF FreshHandles THEN drawn \cup {h} ELSE drawn

\* Objects that the program or the plugin still refers to.
Held == UNION {{tables[k][t][h] : h \in DOMAIN tables[k][t]} : k \in Kinds, t \in Thread}
        \cup {w.object : w \in wrappers}
        \cup UNION {{frames[t][i].object : i \in 1..Len(frames[t])} : t \in Thread}

\* The program runs on t: no callback of t is on its way back through the plugin.
Running(t) == frames[t] # <<>> => ~ Head(frames[t]).returned

Usable(t) == {w \in wrappers : t = w.home \/ (CrossThread /\ w.kind # "scope")}

(***************************************************************************)
(* Wrappers                                                                *)
(***************************************************************************)
Wrap(k, h, o, t, b) == [kind |-> k, handle |-> h, object |-> o, home |-> t, borrowed |-> b]

New(t, k, content) ==
    \E o \in Object \ Held, h \in Free(k, t) :
        /\ Running(t) /\ Cardinality(wrappers) < MaxWrappers
        /\ tables' = Registered(k, t, h, o)
        /\ data' = [data EXCEPT ![o] = content]
        /\ wrappers' = wrappers \cup {Wrap(k, h, o, t, FALSE)}
        /\ Draw(h)
        /\ UNCHANGED <<combined, frames, enabled, handlers, global, stage>>

CreateEvent(t) == "event" \in Kinds /\ New(t, "event", Blank)
CreateBreadcrumb(t) == "breadcrumb" \in Kinds /\ New(t, "breadcrumb", Blank)
CreateScope(t) == "scope" \in Kinds /\ New(t, "scope", Blank)

\* A scope that is not found is cloned into a wrapper with the handle 0, which finds nothing.
CloneScope(t) ==
    \E w \in Usable(t) :
        /\ w.kind = "scope"
        /\ Found("scope", t, w.handle) => New(t, "scope", data[tables["scope"][t][w.handle]])
        /\ ~ Found("scope", t, w.handle) =>
             /\ Running(t) /\ Cardinality(wrappers) < MaxWrappers
             /\ wrappers' = wrappers \cup {Wrap("scope", Zero, NoObject, t, FALSE)}
             /\ UNCHANGED <<tables, combined, data, frames, drawn, enabled, handlers, global, stage>>

\* What a call through w on thread t finds, and what it does: the object found under the handle
\* is changed, if there is one.
Content(t, w) == IF Found(w.kind, t, w.handle) THEN data[tables[w.kind][t][w.handle]] ELSE Blank

Call(t, w, outcomes) ==
    /\ Running(t)
    /\ IF Found(w.kind, t, w.handle)
       THEN \E d \in outcomes : data' = [data EXCEPT ![tables[w.kind][t][w.handle]] = d]
       ELSE UNCHANGED data
    /\ UNCHANGED <<tables, combined, wrappers, frames, drawn, enabled, handlers, global, stage>>

SetOrUnset(d) == {[d EXCEPT !.field = v] : v \in Mark \cup {"unset"}}
Adding(d) == {[d EXCEPT !.parts = @ \cup {v}] : v \in Mark}
Removing(d) == {[d EXCEPT !.parts = @ \ {v}] : v \in Mark}

\* Setters of an event replace; its tags go again; contexts merge, exceptions and threads are added.
EventOutcomes(d) == SetOrUnset(d) \cup Removing(d) \cup Adding(d)
\* The data of a breadcrumb is cleared before it is filled.
BreadcrumbOutcomes(d) == SetOrUnset(d) \cup {[d EXCEPT !.parts = {v}] : v \in Mark}
ScopeOutcomes(d) == SetOrUnset(d) \cup Adding(d) \cup {Blank}
LogOutcomes(d) == SetOrUnset(d) \cup Adding(d) \cup Removing(d)
MetricOutcomes(d) == SetOrUnset(d) \cup Adding(d) \cup Removing(d)

UseEvent(t) == \E w \in Usable(t) : w.kind = "event" /\ Call(t, w, EventOutcomes(Content(t, w)))
UseBreadcrumb(t) == \E w \in Usable(t) : w.kind = "breadcrumb" /\ Call(t, w, BreadcrumbOutcomes(Content(t, w)))
UseScope(t) == \E w \in Usable(t) : w.kind = "scope" /\ Call(t, w, ScopeOutcomes(Content(t, w)))
UseLog(t) == \E w \in Usable(t) : w.kind = "log" /\ Call(t, w, LogOutcomes(Content(t, w)))
UseMetric(t) == \E w \in Usable(t) : w.kind = "metric" /\ Call(t, w, MetricOutcomes(Content(t, w)))

\* scopeAddBreadcrumb(): both are looked up on the calling thread.
AddToScope(t) ==
    \E s, c \in Usable(t) :
        /\ s.kind = "scope" /\ c.kind = "breadcrumb"
        /\ IF Found("breadcrumb", t, c.handle)
           THEN Call(t, s, {[Content(t, s) EXCEPT !.parts = @ \cup Content(t, c).parts]})
           ELSE Call(t, c, {})

\* add_breadcrumb() of the facade: the breadcrumb is looked up on the calling thread.
AddBreadcrumb(t) ==
    \E c \in Usable(t) :
        /\ Running(t) /\ c.kind = "breadcrumb"
        /\ IF Found("breadcrumb", t, c.handle)
           THEN global' = IF enabled THEN global \cup data[tables["breadcrumb"][t][c.handle]].parts ELSE global
           ELSE UNCHANGED global
        /\ UNCHANGED <<tables, combined, data, wrappers, frames, drawn, enabled, handlers, stage>>

Destroy_KeepsLayered(t) ==
    \E w \in Usable(t) :
        /\ Running(t)
        /\ wrappers' = wrappers \ {w}
        /\ tables' = IF w.borrowed THEN tables ELSE Released(w.kind, t, w.handle)
        /\ UNCHANGED <<combined, data, frames, drawn, enabled, handlers, global, stage>>

\* A wrapper is destroyed where its last reference goes; only a scope's is its own thread's.
Destroy(t) ==
    \E w \in Usable(t) :
        /\ Running(t)
        /\ wrappers' = wrappers \ {w}
        /\ tables' = IF w.borrowed THEN tables ELSE Released(w.kind, t, w.handle)
        /\ combined' = IF w.kind = "scope" THEN [combined EXCEPT ![t] = Without(@, w.handle)] ELSE combined
        /\ UNCHANGED <<data, frames, drawn, enabled, handlers, global, stage>>

(***************************************************************************)
(* Sessions and global data                                                *)
(***************************************************************************)
DefaultAttachments == {"default"}
\* Contexts, tags, attributes, breadcrumbs, user and attachments; clearing attachments adds the default ones.
GlobalOutcomes == {global \cup Mark, global \ Mark, (global \ Mark) \cup DefaultAttachments}

\* The default attachments are added first; the callbacks are fixed for the session.
InitSDK(t) ==
    /\ Running(t) /\ ~ enabled
    /\ \E started \in BOOLEAN, chosen \in SUBSET (Kinds \cap {"log", "metric"}) :
         /\ enabled' = started
         /\ handlers' = (Kinds \cap {"event"}) \cup chosen
         /\ global' = global \cup DefaultAttachments \cup (IF started THEN {"user"} ELSE {})
    /\ UNCHANGED <<tables, combined, data, wrappers, frames, drawn, stage>>

\* Sentry.close() clears the global scope, which is the default scope here.
Close(t) ==
    /\ Running(t) /\ enabled
    /\ enabled' = FALSE /\ global' = {}
    /\ UNCHANGED <<tables, combined, data, wrappers, frames, drawn, handlers, stage>>

WriteGlobal(t) ==
    /\ Running(t) /\ enabled
    /\ global' \in GlobalOutcomes
    /\ UNCHANGED <<tables, combined, data, wrappers, frames, drawn, enabled, handlers, stage>>

(***************************************************************************)
(* Capturing                                                               *)
(***************************************************************************)
\* combinedScopes() finds or makes the layered scopes for a handle.
CombinedAfter(t, h) ==
    IF enabled /\ Found("scope", t, h) /\ h \notin DOMAIN combined[t]
    THEN [combined EXCEPT ![t] = With(@, h, tables["scope"][t][h])]
    ELSE combined

LocalData(t, h) ==
    IF enabled /\ Found("scope", t, h) THEN data[CombinedAfter(t, h)[t][h]].parts ELSE {}

ScopeHandles(t) ==
    IF "scope" \in Kinds THEN {w.handle : w \in {x \in Usable(t) : x.kind = "scope"}} ELSE {Zero}

BeginCallback(t, k, o, h, d) ==
    /\ stage[d] = "none" /\ \A e \in 1..(d - 1) : stage[e] # "none"
    /\ Len(frames[t]) < MaxNesting
    /\ stage' = [stage EXCEPT ![d] = "processing"]
    /\ tables' = Registered(k, t, h, o)
    /\ Draw(h)
    /\ wrappers' = wrappers \cup {Wrap(k, h, o, t, TRUE)}
    /\ frames' = [frames EXCEPT ![t] =
         <<[kind |-> k, handle |-> h, object |-> o, delivery |-> d, returned |-> FALSE]>> \o @]

\* captureEvent(): an event that is not found is not captured.
CaptureEvent(t) ==
    \E w \in Usable(t), s \in ScopeHandles(t) :
        /\ Running(t) /\ w.kind = "event"
        /\ IF ~ Found("event", t, w.handle)
           THEN UNCHANGED <<tables, combined, data, wrappers, frames, drawn, stage>>
           ELSE /\ combined' = IF "scope" \in Kinds THEN CombinedAfter(t, s) ELSE combined
                /\ IF ~ enabled THEN UNCHANGED <<tables, data, wrappers, frames, drawn, stage>>
                   ELSE LET o == tables["event"][t][w.handle]
                        IN  /\ data' = [data EXCEPT ![o].parts =
                                 @ \cup global \cup (IF "scope" \in Kinds THEN LocalData(t, s) ELSE {})]
                            /\ \E h \in Free("event", t), d \in Delivery : BeginCallback(t, "event", o, h, d)
        /\ UNCHANGED <<enabled, handlers, global>>

\* A log, a metric or feedback becomes an object of the SDK; without a handler it is sent as it is.
CaptureNew(t, k) ==
    /\ Running(t) /\ k \in handlers /\ enabled
    /\ \E s \in ScopeHandles(t), o \in Object \ Held, h \in Free(k, t), d \in Delivery :
         /\ combined' = IF "scope" \in Kinds THEN CombinedAfter(t, s) ELSE combined
         /\ data' = [data EXCEPT ![o] = [field |-> "unset", parts |->
              global \cup (IF "scope" \in Kinds THEN LocalData(t, s) ELSE {})]]
         /\ BeginCallback(t, k, o, h, d)
    /\ UNCHANGED <<enabled, handlers, global>>

\* The handlers of the C++ layer: a discarded object is released.  The program may keep the wrapper.
HandlerReturns(t) ==
    /\ frames[t] # <<>> /\ ~ Head(frames[t]).returned
    /\ LET f == Head(frames[t])
           w == Wrap(f.kind, f.handle, f.object, t, TRUE)
       IN  \E keep, stored \in BOOLEAN :
             /\ tables' = IF keep THEN tables ELSE Released(f.kind, t, f.handle)
             /\ stage' = [stage EXCEPT ![f.delivery] = IF keep THEN "kept" ELSE "discarded"]
             /\ wrappers' = IF stored THEN wrappers ELSE wrappers \ {w}
    /\ frames' = [frames EXCEPT ![t][1].returned = TRUE]
    /\ UNCHANGED <<combined, data, drawn, enabled, handlers, global>>

\* The plugin's callbacks: what is still registered is sent.
BeforeSendReturns(t) ==
    /\ frames[t] # <<>> /\ Head(frames[t]).returned
    /\ LET f == Head(frames[t])
       IN  /\ stage' = [stage EXCEPT ![f.delivery] = IF Found(f.kind, t, f.handle) THEN "sent" ELSE "dropped"]
           /\ tables' = Released(f.kind, t, f.handle)
    /\ frames' = [frames EXCEPT ![t] = Tail(@)]
    /\ UNCHANGED <<combined, data, wrappers, drawn, enabled, handlers, global>>

Next == \E t \in Thread :
    \/ CreateEvent(t) \/ CreateBreadcrumb(t) \/ CreateScope(t) \/ CloneScope(t)
    \/ UseEvent(t) \/ UseBreadcrumb(t) \/ UseScope(t) \/ UseLog(t) \/ UseMetric(t)
    \/ AddToScope(t) \/ AddBreadcrumb(t) \/ Destroy(t)
    \/ InitSDK(t) \/ Close(t) \/ WriteGlobal(t)
    \/ CaptureEvent(t) \/ (\E k \in Kinds : CaptureNew(t, k))
    \/ HandlerReturns(t) \/ BeforeSendReturns(t)

\* Callbacks return: the user's code in them ends, and the plugin's goes on.
Spec == Init /\ [][Next]_vars /\ \A t \in Thread : WF_vars(HandlerReturns(t) \/ BeforeSendReturns(t))

(***************************************************************************)
(* Properties                                                              *)
(***************************************************************************)
\* As long as wrappers stay on their threads, a wrapper that owns its object finds it, and no other,
\* whatever numbers the plugin draws, callbacks nested into each other included.
OwnedResolves ==
    \A w \in wrappers : ~ w.borrowed /\ w.object # NoObject =>
        Found(w.kind, w.home, w.handle) /\ tables[w.kind][w.home][w.handle] = w.object

\* Nothing stays in the tables once neither a wrapper nor a callback needs it, and the layered
\* scopes go with the scope that they were made for.
NoLeak ==
    /\ \A k \in Kinds, t \in Thread : \A h \in DOMAIN tables[k][t] :
         \/ \E w \in wrappers : w.kind = k /\ w.home = t /\ w.handle = h /\ ~ w.borrowed
         \/ \E i \in 1..Len(frames[t]) : frames[t][i].kind = k /\ frames[t][i].handle = h
    /\ \A t \in Thread : \A h \in DOMAIN combined[t] :
         Found("scope", t, h) /\ combined[t][h] = tables["scope"][t][h]

\* Wherever a wrapper is used, and however long it is kept, it finds its own object or none, provided
\* that random numbers do not repeat.
NeverAnother ==
    \A w \in wrappers, t \in Thread :
        Found(w.kind, t, w.handle) => tables[w.kind][t][w.handle] = w.object

\* While its handler runs, the object of a callback is found, whatever wrappers are destroyed meanwhile.
CallbackFinds ==
    \A t \in Thread : \A i \in 1..Len(frames[t]) :
        LET f == frames[t][i]
        IN  ~ f.returned => Found(f.kind, t, f.handle) /\ tables[f.kind][t][f.handle] = f.object

\* What of this holds with the handles that are drawn and the threads that wrappers are used on.
HandlesFindTheirOwn ==
    /\ ~ CrossThread => OwnedResolves
    /\ FreshHandles => NeverAnother
    /\ FreshHandles \/ ~ CrossThread => CallbackFinds

NoHandleLeaks == TypeOK /\ (~ CrossThread => NoLeak)

\* Every event, log and metric is seen by its handler before it is sent, the handler's verdict is
\* what happens, and every capture comes to an end.
ImplementsDelivery == Delivered!Spec

\* What of this a step may never break; handles have to find their own objects for it.
VerdictsStand == FreshHandles \/ ~ CrossThread => Delivered!Init /\ [][Delivered!Next]_stage

=============================================================================
