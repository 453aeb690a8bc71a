------------------------------ MODULE JsBridge ------------------------------
(***************************************************************************)
(* The Web backend: C++ refers to JavaScript objects by ids of a store.    *)
(*                                                                         *)
(* The ids count up from 1 to IdLimit (2^32 - 1), and around; C++ keeps    *)
(* them in signed integers of the same width.  Bytes travel through a store*)
(* of their own, by ids that are taken out by the call they are an argument*)
(* of.  Calls of all threads run on the browser's main thread, one at a    *)
(* time.  before_send is called by the event loop, some time after the     *)
(* capture; C++ answers with a property of the event, "shouldDiscard".     *)
(***************************************************************************)
EXTENDS Integers, Sequences, FiniteSets, TLC

CONSTANTS
    Thread, Object, Event,   \* Event: the JavaScript objects of captured events
    IdLimit,
    MaxHandles, MaxStores, MaxBuffers, MaxSession,   \* bounds
    NoHandle

JsAssumption ==
    /\ {MaxHandles, MaxStores, MaxBuffers, MaxSession} \subseteq Nat
    /\ IdLimit \in Nat /\ IdLimit % 2 = 1
    /\ Object \cap Event = {}
    /\ NoHandle \notin [id : Int, object : Object \cup Event]

VARIABLES
    store, lastId,       \* _objectStore
    bytes, lastBytes,    \* _byteStore: id -> the object they are meant for
    handles,             \* living JSObjects: the id as C++ sees it, and what it was made for
    marshalled,          \* per thread: the id of bytes stored for its next call, and its target
    content,             \* per object: the object whose bytes it has got
    stores,              \* number of objects stored, for the bound
    session, enabled,
    isolation, globals, current,  \* sessions whose data the scopes of the SDK hold
    queue,               \* captured events, for the event loop
    captured,            \* per event: [session, data] at the capture
    callback,            \* the handle of the event that before_send is called with
    shouldDiscard,       \* per event: the property, "unset" until it is set
    stage                \* as in EventDelivery

objects == <<store, lastId, handles>>
buffers == <<bytes, lastBytes, marshalled, content>>
scopes == <<session, enabled, isolation, globals, current>>
pipeline == <<queue, captured, callback, shouldDiscard, stage>>
vars == <<stores, objects, buffers, scopes, pipeline>>

Delivered == INSTANCE EventDelivery WITH Delivery <- Event
Symmetry == Permutations(Object) \cup Permutations(Event)

Id == 1..IdLimit
Target == Object \cup Event
Signed(id) == IF id > IdLimit \div 2 THEN id - IdLimit - 1 ELSE id
CppId == {Signed(id) : id \in Id}
Handle == [id : CppId, object : Target]

TypeOK ==
    /\ DOMAIN store \subseteq Id /\ \A i \in DOMAIN store : store[i] \in Target
    /\ DOMAIN bytes \subseteq Id /\ \A i \in DOMAIN bytes : bytes[i] \in Object
    /\ {lastId, lastBytes} \subseteq 0..IdLimit
    /\ handles \subseteq Handle
    /\ marshalled \in [Thread -> {<<>>} \cup (CppId \X Handle)]
    /\ content \in [Object -> Object \cup {"none", "undefined"}]
    /\ queue \in Seq(Event) /\ callback \in Handle \cup {NoHandle}
    /\ shouldDiscard \in [Event -> {"unset", "yes", "no"}]
    /\ Delivered!TypeOK

Init ==
    /\ store = <<>> /\ lastId = 0 /\ handles = {} /\ stores = 0
    /\ bytes = <<>> /\ lastBytes = 0
    /\ marshalled = [t \in Thread |-> <<>>]
    /\ content = [o \in Object |-> "none"]
    /\ session = 0 /\ enabled = FALSE
    /\ isolation = {} /\ globals = {} /\ current = {}
    /\ queue = <<>> /\ callback = NoHandle
    /\ captured = [e \in Event |-> [session |-> 0, data |-> {}]]
    /\ shouldDiscard = [e \in Event |-> "unset"]
    /\ Delivered!Init

(***************************************************************************)
(* IdStore                                                                 *)
(***************************************************************************)
\* How many steps the counter makes from last to id.
Steps(last, id) == (id + IdLimit - last - 1) % IdLimit

\* The first id after last that is not in use; store() loops forever if there is none.
NextId(items, last) ==
    CHOOSE id \in Id \ DOMAIN items : \A o \in Id \ DOMAIN items : Steps(last, id) <= Steps(last, o)

Room(items) == DOMAIN items # Id
With(f, x, o) == [y \in DOMAIN f \cup {x} |-> IF y = x THEN o ELSE f[y]]
Without(f, x) == [y \in DOMAIN f \ {x} |-> f[y]]
\* What JavaScript finds under an id that C++ passes: a negative number is no key.
Known(items, cid) == cid \in DOMAIN items

(***************************************************************************)
(* JSObject                                                                *)
(***************************************************************************)
Hold(o) ==
    /\ Room(store)
    /\ lastId' = NextId(store, lastId)
    /\ store' = With(store, lastId', o)
    /\ stores' = stores + 1

\* The bound: the program obtains no more objects (the event loop still does).
MayStore == stores < MaxStores /\ Cardinality(handles) < MaxHandles

Handed(o) == [id |-> Signed(NextId(store, lastId)), object |-> o]

\* create(), get_interface(), and the return values of get() and call(), which are stored anew.
Obtain(t) ==
    /\ MayStore
    /\ \E o \in Object : Hold(o) /\ handles' = handles \cup {Handed(o)}
    /\ UNCHANGED <<buffers, scopes, pipeline>>

\* get() on an object that is not found gives nothing.
Get(t) ==
    \E h \in handles, o \in Object :
        /\ MayStore /\ Known(store, h.id)
        /\ Hold(o) /\ handles' = handles \cup {Handed(o)}
        /\ UNCHANGED <<buffers, scopes, pipeline>>

\* ~JSObject, by the last reference.
Release(t) ==
    \E h \in handles :
        /\ h # callback /\ \A u \in Thread : marshalled[u] # <<>> => marshalled[u][2] # h
        /\ handles' = handles \ {h}
        /\ store' = Without(store, h.id)
        /\ UNCHANGED <<lastId, stores, buffers, scopes, pipeline>>

\* A call with bytes: they are stored first, in a call of its own.
StoreBytes(t) ==
    \E h \in handles :
        /\ marshalled[t] = <<>> /\ Room(bytes) /\ lastBytes < MaxBuffers /\ h.object \in Object
        /\ LET id == NextId(bytes, lastBytes)
           IN  /\ bytes' = With(bytes, id, h.object)
               /\ lastBytes' = id
               /\ marshalled' = [marshalled EXCEPT ![t] = <<Signed(id), h>>]
        /\ UNCHANGED <<content, stores, objects, scopes, pipeline>>

Buffer_OfLastCall(id) == IF Known(bytes, lastBytes) THEN bytes[lastBytes] ELSE "undefined"
Buffer(id) == IF Known(bytes, id) THEN bytes[id] ELSE "undefined"

Rest(id, h) == Without(bytes, id)

\* object_set() and call_method() take the bytes, or release them if they do not find the object.
PassBytes(t) ==
    /\ marshalled[t] # <<>>
    /\ LET id == marshalled[t][1]
           h == marshalled[t][2]
       IN  /\ content' = IF Known(store, h.id) /\ store[h.id] \in Object
                         THEN [content EXCEPT ![store[h.id]] = Buffer(id)]
                         ELSE content
           /\ bytes' = Rest(id, h)
    /\ marshalled' = [marshalled EXCEPT ![t] = <<>>]
    /\ UNCHANGED <<lastBytes, stores, objects, scopes, pipeline>>

(***************************************************************************)
(* Sessions                                                                *)
(***************************************************************************)
Cleared_IsolationOnly == globals
Cleared == {}

\* init() clears the scopes, which outlive close(), and sets the default user and attachments.
InitSDK(t) ==
    /\ ~ enabled /\ session < MaxSession
    /\ session' = session + 1
    /\ \E started \in BOOLEAN :
         /\ enabled' = started
         /\ isolation' = IF started THEN {session'} ELSE {}
    /\ globals' = Cleared /\ current' = {session'}
    /\ UNCHANGED <<stores, objects, buffers, pipeline>>

\* The client is disabled when its flush is over.
Close(t) ==
    /\ enabled /\ enabled' = FALSE
    /\ UNCHANGED <<session, isolation, globals, current, stores, objects, buffers, pipeline>>

\* Tags, user, contexts, breadcrumbs and attachments; attributes.
WriteData(t) ==
    /\ session > 0
    /\ \/ isolation' = isolation \cup {session} /\ UNCHANGED globals
       \/ globals' = globals \cup {session} /\ UNCHANGED isolation
    /\ UNCHANGED <<session, enabled, current, stores, objects, buffers, pipeline>>

(***************************************************************************)
(* Captures and before_send                                                *)
(***************************************************************************)
\* The SDK merges the scopes into the event at once, and calls before_send later.
CaptureEvent(t) ==
    /\ enabled
    /\ \E e \in Event :
         /\ stage[e] = "none"
         /\ stage' = [stage EXCEPT ![e] = "captured"]
         /\ queue' = Append(queue, e)
         /\ captured' = [captured EXCEPT ![e] = [session |-> session, data |-> isolation \cup globals \cup current]]
    /\ UNCHANGED <<callback, shouldDiscard, stores, objects, buffers, scopes>>

\* beforeSend skips the handler when the SDK is disabled; else the argument is stored.
BeforeSend ==
    /\ callback = NoHandle /\ queue # <<>>
    /\ \E e \in {Head(queue)} :
         IF ~ enabled
         THEN /\ stage' = [stage EXCEPT ![e] = "dropped"]
              /\ UNCHANGED <<callback, stores, objects>>
         ELSE /\ Hold(e)
              /\ stage' = [stage EXCEPT ![e] = "processing"]
              /\ callback' = Handed(e) /\ handles' = handles \cup {Handed(e)}
    /\ queue' = Tail(queue)
    /\ UNCHANGED <<captured, shouldDiscard, buffers, scopes>>

\* before_send_wasm_callback(): the verdict is set on the event; the program may keep the event.
HandlerReturns ==
    /\ callback # NoHandle /\ stage[callback.object] = "processing"
    /\ \E keep, stored \in BOOLEAN :
         /\ shouldDiscard' = IF Known(store, callback.id) /\ store[callback.id] \in Event
                             THEN [shouldDiscard EXCEPT ![store[callback.id]] = IF keep THEN "no" ELSE "yes"]
                             ELSE shouldDiscard
         /\ stage' = [stage EXCEPT ![callback.object] = IF keep THEN "kept" ELSE "discarded"]
         /\ IF stored THEN UNCHANGED <<store, handles>>
            ELSE /\ store' = Without(store, callback.id)
                 /\ handles' = handles \ {callback}
    /\ UNCHANGED <<lastId, stores, queue, captured, callback, buffers, scopes>>

Discard_Never(e) == FALSE
Discard(e) == shouldDiscard[e] = "yes"

\* Back in JavaScript: the property decides, and is deleted.
BeforeSendReturns ==
    /\ callback # NoHandle /\ stage[callback.object] \in {"kept", "discarded"}
    /\ LET e == callback.object
       IN  /\ stage' = [stage EXCEPT ![e] = IF Discard(e) THEN "dropped" ELSE "sent"]
           /\ shouldDiscard' = [shouldDiscard EXCEPT ![e] = "unset"]
    /\ callback' = NoHandle
    /\ UNCHANGED <<queue, captured, stores, objects, buffers, scopes>>

EventLoop == BeforeSend \/ HandlerReturns \/ BeforeSendReturns

Next ==
    \/ \E t \in Thread : \/ Obtain(t) \/ Get(t) \/ Release(t) \/ StoreBytes(t) \/ PassBytes(t)
                         \/ InitSDK(t) \/ Close(t) \/ WriteData(t) \/ CaptureEvent(t)
    \/ EventLoop

\* The browser runs its event loop.
Spec == Init /\ [][Next]_vars /\ WF_vars(EventLoop)

(***************************************************************************)
(* Properties                                                              *)
(***************************************************************************)
\* An id that fits the signed integer finds the object that it was handed out for, however often
\* the counter has gone round, and whatever is never released because its id does not fit.
SmallIdsResolve ==
    \A h \in handles : h.id > 0 => Known(store, h.id) /\ store[h.id] = h.object

\* An object gets the bytes that were marshalled for it, whichever calls of other threads come between.
BytesArrive == \A o \in Object : content[o] \in {"none", o}

\* Bytes are in their store only between the two calls that pass them.
NoBytesLeft ==
    \A id \in DOMAIN bytes : \E t \in Thread : marshalled[t] # <<>> /\ marshalled[t][1] = Signed(id)

\* Every id finds its own, as long as its counter has not used up the ids that a signed integer holds.
IdsFindTheirOwn ==
    /\ TypeOK /\ SmallIdsResolve
    /\ MaxBuffers <= IdLimit \div 2 => BytesArrive /\ NoBytesLeft

\* An event carries nothing that was set in an earlier session.
SessionsIsolated == \A e \in Event : captured[e].data \subseteq {captured[e].session}

\* A verdict that is set on an event by an id that fits a signed integer is what happens to it:
\* before_send is called once, and what it decides is final.
VerdictsStand ==
    /\ Delivered!Init
    /\ [][(callback # NoHandle => callback.id > 0) => Delivered!Next]_stage

\* Events come to an end, and the verdict of the handler, a property of an object that it only
\* knows by an id, is what happens to them.
ImplementsDelivery == Delivered!Spec
=============================================================================
