--------------------------- MODULE BoundaryProofs ---------------------------
(***************************************************************************)
(* Proofs about JsBridge, for any number of threads, objects and events    *)
(* and any width of the ids.  An id that C++ may pass, one that is         *)
(* positive after it was made a signed integer, belongs to one living      *)
(* JSObject at most (IdInv): so no release takes away the object of        *)
(* another.  Bytes wait under ids of their own for the thread that stored  *)
(* them (BytesInv).  What the scopes hold is of this session (DataInv), and*)
(* an event that waits or is in the callback does so once (DeliveryInv).   *)
(* At the end, the proofs about AndroidHandles and ScopeSync are applied to*)
(* the instances that MCBoundary composes with JsBridge.                   *)
(***************************************************************************)
EXTENDS MCBoundary, FiniteSetTheorems, WellFoundedInduction, TLAPS

-----------------------------------------------------------------------------
(***************************************************************************)
(* The ids.                                                                *)
(***************************************************************************)

(* An id that is positive as a signed integer is the id itself.            *)
LEMMA SignedIds ==
    ASSUME JsAssumption, NEW id \in Id
    PROVE  /\ Signed(id) \in CppId /\ Signed(id) \in Int
           /\ Signed(id) > 0 => Signed(id) = id
           /\ Signed(id) <= 0 => Signed(id) \notin Id
           /\ id <= IdLimit \div 2 => Signed(id) = id
  <1>1. IdLimit \in Nat
    BY DEF JsAssumption
  <1>2. Signed(id) \in CppId
    BY DEF CppId
  <1> QED
    BY <1>1, <1>2 DEF Signed, Id

(* What C++ passes is an integer, and a key of a store only if positive.   *)
LEMMA CppIds ==
    ASSUME JsAssumption, NEW c \in CppId
    PROVE  c \in Int /\ (c \in Id <=> c > 0)
  <1>1. PICK id \in Id : c = Signed(id)
    BY DEF CppId
  <1>2. IdLimit \in Nat
    BY DEF JsAssumption
  <1> QED
    BY <1>1, <1>2, SignedIds DEF Id, Signed

(* A remainder is what is left of the number after one round at most.      *)
LEMMA Rounds ==
    ASSUME NEW m \in Nat \ {0}, NEW x \in 0 .. m - 1
    PROVE  x % m = x /\ (x + m) % m = x
  OBVIOUS

(* Of the ids that are not in use, one is the next.                        *)
LEMMA NextIsFree ==
    ASSUME JsAssumption, NEW items, DOMAIN items \subseteq Id, Room(items),
           NEW last \in 0 .. IdLimit
    PROVE  NextId(items, last) \in Id \ DOMAIN items
  <1> DEFINE Free == Id \ DOMAIN items
             Distances == {Steps(last, id) : id \in Free}
  <1>1. IdLimit \in Nat \ {0} /\ Free # {}
    <2>1. IdLimit \in Nat /\ IdLimit % 2 = 1
      BY DEF JsAssumption
    <2>2. Free # {}
      BY DEF Room
    <2> QED
      BY <2>1, <2>2
  <1>2. \A id \in Id : Steps(last, id) \in Nat
    BY <1>1 DEF Steps, Id
  <1>3. Distances \subseteq Nat /\ Distances # {}
    BY <1>1, <1>2
  <1>4. PICK n \in Distances : \A m \in Distances : ~ (<<m, n>> \in OpToRel(<, Nat))
    <2> HIDE DEF Distances
    <2> QED
      BY <1>3, NatLessThanWellFounded, WFMin
  <1>5. \A m \in Distances : n <= m
    <2>1. ASSUME NEW a \in Nat, NEW b \in Nat, a < b PROVE <<a, b>> \in OpToRel(<, Nat)
      BY <2>1 DEF OpToRel
    <2> HIDE DEF Distances
    <2>2. n \in Nat /\ \A m \in Distances : m \in Nat
      BY <1>3
    <2>3. \A m \in Distances : ~ (m < n)
      BY <1>4, <2>1, <2>2, Zenon
    <2> QED
      BY <2>2, <2>3
  <1>6. PICK id \in Free : n = Steps(last, id)
    OBVIOUS
  <1>7. \A o \in Free : Steps(last, id) <= Steps(last, o)
    BY <1>5, <1>6
  <1> QED
    BY <1>7 DEF NextId

(* While the counter has not gone round, the next id is the one after it.  *)
LEMMA CountsUp ==
    ASSUME JsAssumption, NEW last \in 0 .. IdLimit - 1, NEW items, DOMAIN items \subseteq 1 .. last
    PROVE  NextId(items, last) = last + 1
  <1>1. IdLimit \in Nat \ {0}
    BY DEF JsAssumption
  <1>2. last + 1 \in Id \ DOMAIN items
    BY <1>1 DEF Id
  <1>3. Steps(last, last + 1) = 0
    <2>1. Steps(last, last + 1) = (0 + IdLimit) % IdLimit
      BY <1>1 DEF Steps
    <2> QED
      BY <1>1, <2>1, Rounds
  <1>4. ASSUME NEW id \in Id, id # last + 1
        PROVE  Steps(last, id) \in Nat /\ Steps(last, id) > 0
    <2>1. CASE id <= last
      <3>1. id + IdLimit - last - 1 \in 1 .. IdLimit - 1
        BY <1>1, <2>1 DEF Id
      <3> QED
        BY <1>1, <3>1, Rounds DEF Steps
    <2>2. CASE id > last
      <3>1. id - last - 1 \in 1 .. IdLimit - 1
        BY <1>1, <1>4, <2>2 DEF Id
      <3>2. Steps(last, id) = ((id - last - 1) + IdLimit) % IdLimit
        BY <1>1 DEF Steps, Id
      <3> QED
        BY <1>1, <3>1, <3>2, Rounds
    <2> QED
      BY <1>1, <2>1, <2>2 DEF Id
  <1>5. \A o \in Id \ DOMAIN items : Steps(last, last + 1) <= Steps(last, o)
    BY <1>3, <1>4
  <1>6. \A id \in Id \ DOMAIN items :
          (\A o \in Id \ DOMAIN items : Steps(last, id) <= Steps(last, o)) => id = last + 1
    BY <1>2, <1>3, <1>4
  <1> QED
    BY <1>2, <1>5, <1>6 DEF NextId

-----------------------------------------------------------------------------
(***************************************************************************)
(* Objects and their ids.                                                  *)
(***************************************************************************)
ObjectsTyped ==
    /\ DOMAIN store \subseteq Id /\ \A i \in DOMAIN store : store[i] \in Target
    /\ lastId \in 0 .. IdLimit
    /\ handles \subseteq Handle

\* While before_send runs, nobody has released the handle it is called with.
CallbackHeld ==
    callback # NoHandle =>
        /\ callback \in Handle /\ callback.object \in Event
        /\ stage[callback.object] = "processing" => callback \in handles

\* A call that has stored bytes holds on to the object they are for.
TargetsHeld ==
    \A t \in Thread : marshalled[t] # <<>> =>
        marshalled[t][2] \in handles /\ marshalled[t][2].object \in Object

IdInv == TypeOK /\ SmallIdsResolve /\ CallbackHeld /\ TargetsHeld

(* Two living handles with the same positive id are one, as the id finds   *)
(* one object only.                                                        *)
LEMMA IdsApart ==
    ASSUME ObjectsTyped, SmallIdsResolve, NEW g \in handles, NEW h \in handles,
           g.id = h.id, g.id > 0
    PROVE  g = h
  <1>1. g.object = h.object
    BY DEF SmallIdsResolve
  <1> QED
    BY <1>1 DEF ObjectsTyped, Handle

(* An object is stored under an id that nothing living has.                *)
LEMMA HoldResolves ==
    ASSUME JsAssumption, ObjectsTyped, SmallIdsResolve, NEW o \in Target, Hold(o),
           handles' = handles \cup {Handed(o)}
    PROVE  /\ ObjectsTyped' /\ SmallIdsResolve'
           /\ Handed(o) \in Handle /\ Handed(o).object = o
  <1> DEFINE id == NextId(store, lastId)
  <1>1. id \in Id \ DOMAIN store
    BY NextIsFree DEF ObjectsTyped, Hold
  <1>2. Signed(id) \in CppId /\ (Signed(id) > 0 => Signed(id) = id)
    BY <1>1, SignedIds
  <1>3. Handed(o) = [id |-> Signed(id), object |-> o]
    BY DEF Handed
  <1>4. lastId' = id /\ store' = With(store, id, o)
    BY DEF Hold
  <1> HIDE DEF id
  <1>5. Handed(o) \in Handle /\ Handed(o).object = o
    BY <1>2, <1>3 DEF Handle
  <1>6. DOMAIN store' = DOMAIN store \cup {id}
    BY <1>4 DEF With
  <1>7. store'[id] = o /\ \A i \in DOMAIN store : store'[i] = store[i]
    BY <1>1, <1>4 DEF With
  <1>8. ObjectsTyped'
    <2>1. IdLimit \in Nat
      BY DEF JsAssumption
    <2>2. id \in 0 .. IdLimit
      BY <1>1, <2>1 DEF Id
    <2> QED
      BY <1>1, <1>4, <1>5, <1>6, <1>7, <2>2 DEF ObjectsTyped
  <1>9. SmallIdsResolve'
    <2> SUFFICES ASSUME NEW h \in handles', h.id > 0
                 PROVE  h.id \in DOMAIN store' /\ store'[h.id] = h.object
      BY DEF SmallIdsResolve, Known
    <2>1. CASE h \in handles
      BY <1>6, <1>7, <2>1 DEF SmallIdsResolve, Known
    <2>2. CASE h = Handed(o)
      BY <1>2, <1>3, <1>6, <1>7, <2>2
    <2> QED
      BY <2>1, <2>2
  <1> QED
    BY <1>5, <1>8, <1>9

(* A release takes an object away from its own handle only.                *)
LEMMA ReleaseResolves ==
    ASSUME JsAssumption, ObjectsTyped, SmallIdsResolve, NEW h \in handles,
           store' = Without(store, h.id), handles' = handles \ {h}, UNCHANGED lastId
    PROVE  ObjectsTyped' /\ SmallIdsResolve'
  <1>1. /\ DOMAIN store' = DOMAIN store \ {h.id}
        /\ \A i \in DOMAIN store' : store'[i] = store[i]
    BY DEF Without
  <1>2. ObjectsTyped'
    BY <1>1 DEF ObjectsTyped
  <1>3. SmallIdsResolve'
    <2> SUFFICES ASSUME NEW g \in handles', g.id > 0
                 PROVE  g.id \in DOMAIN store' /\ store'[g.id] = g.object
      BY DEF SmallIdsResolve, Known
    <2>1. g \in handles /\ g # h
      OBVIOUS
    <2>2. g.id # h.id
      BY <2>1, IdsApart
    <2>3. g.id \in DOMAIN store /\ store[g.id] = g.object
      BY <2>1 DEF SmallIdsResolve, Known
    <2> QED
      BY <1>1, <2>2, <2>3
  <1> QED
    BY <1>2, <1>3

(* What C++ finds by the id of a living handle is the handle's object.     *)
LEMMA KnownIsOwn ==
    ASSUME JsAssumption, ObjectsTyped, SmallIdsResolve, NEW h \in handles, Known(store, h.id)
    PROVE  store[h.id] = h.object
  <1>1. h.id \in CppId /\ h.id \in Id
    BY DEF ObjectsTyped, Handle, Known
  <1> QED
    BY <1>1, CppIds DEF SmallIdsResolve


BuffersTyped ==
    /\ DOMAIN bytes \subseteq Id /\ \A i \in DOMAIN bytes : bytes[i] \in Object
    /\ lastBytes \in 0 .. IdLimit
    /\ marshalled \in [Thread -> {<<>>} \cup (CppId \X Handle)]
    /\ content \in [Object -> Object \cup {"none", "undefined"}]

PipelineTyped ==
    /\ queue \in Seq(Event) /\ callback \in Handle \cup {NoHandle}
    /\ shouldDiscard \in [Event -> {"unset", "yes", "no"}]
    /\ stage \in [Event -> Delivered!Stage]

LEMMA TypeParts == TypeOK <=> ObjectsTyped /\ BuffersTyped /\ PipelineTyped
  BY DEF TypeOK, ObjectsTyped, BuffersTyped, PipelineTyped, Delivered!TypeOK

LEMMA TypePartsNext == TypeOK' <=> ObjectsTyped' /\ BuffersTyped' /\ PipelineTyped'
  BY DEF TypeOK, ObjectsTyped, BuffersTyped, PipelineTyped, Delivered!TypeOK

LEMMA IdInit == JsAssumption /\ Init => IdInv
  <1> SUFFICES ASSUME JsAssumption, Init PROVE IdInv
    OBVIOUS
  <1>1. IdLimit \in Nat
    BY DEF JsAssumption
  <1>2. ObjectsTyped
    BY <1>1 DEF Init, ObjectsTyped
  <1>3. BuffersTyped
    BY <1>1 DEF Init, BuffersTyped
  <1>4. PipelineTyped
    BY DEF Init, PipelineTyped, Delivered!Init, Delivered!Stage
  <1>5. SmallIdsResolve /\ CallbackHeld /\ TargetsHeld
    BY DEF Init, SmallIdsResolve, CallbackHeld, TargetsHeld
  <1> QED
    BY <1>2, <1>3, <1>4, <1>5, TypeParts DEF IdInv

(* create(), get() and call(): one more object and its handle.             *)
LEMMA ObtainKeepsIds ==
    ASSUME JsAssumption, IdInv, NEW t \in Thread, Obtain(t) \/ Get(t)
    PROVE  IdInv'
  <1>1. PICK o \in Object : Hold(o) /\ handles' = handles \cup {Handed(o)}
    BY DEF Obtain, Get
  <1>2. /\ bytes' = bytes /\ lastBytes' = lastBytes /\ marshalled' = marshalled
        /\ content' = content /\ queue' = queue /\ callback' = callback
        /\ shouldDiscard' = shouldDiscard /\ stage' = stage
    BY DEF Obtain, Get, buffers, pipeline
  <1>3. ObjectsTyped /\ BuffersTyped /\ PipelineTyped
    BY TypeParts DEF IdInv
  <1>4. ObjectsTyped' /\ SmallIdsResolve'
    BY <1>1, <1>3, HoldResolves DEF IdInv, Target
  <1>5. BuffersTyped' /\ PipelineTyped'
    BY <1>2, <1>3 DEF BuffersTyped, PipelineTyped
  <1>6. CallbackHeld' /\ TargetsHeld'
    BY <1>1, <1>2 DEF IdInv, CallbackHeld, TargetsHeld
  <1> QED
    BY <1>4, <1>5, <1>6, TypePartsNext DEF IdInv

(* ~JSObject: nobody is using the handle any more.                         *)
LEMMA ReleaseKeepsIds ==
    ASSUME JsAssumption, IdInv, NEW t \in Thread, Release(t)
    PROVE  IdInv'
  <1>1. PICK h \in handles :
          /\ h # callback /\ \A u \in Thread : marshalled[u] # <<>> => marshalled[u][2] # h
          /\ handles' = handles \ {h} /\ store' = Without(store, h.id)
          /\ UNCHANGED <<lastId, stores, buffers, scopes, pipeline>>
    BY DEF Release
  <1>2. /\ lastId' = lastId /\ bytes' = bytes /\ lastBytes' = lastBytes
        /\ marshalled' = marshalled /\ content' = content /\ queue' = queue
        /\ callback' = callback /\ shouldDiscard' = shouldDiscard /\ stage' = stage
    BY <1>1 DEF buffers, pipeline
  <1>3. ObjectsTyped /\ BuffersTyped /\ PipelineTyped
    BY TypeParts DEF IdInv
  <1>4. ObjectsTyped' /\ SmallIdsResolve'
    BY <1>1, <1>2, <1>3, ReleaseResolves DEF IdInv
  <1>5. BuffersTyped' /\ PipelineTyped'
    BY <1>2, <1>3 DEF BuffersTyped, PipelineTyped
  <1>6. CallbackHeld' /\ TargetsHeld'
    BY <1>1, <1>2 DEF IdInv, CallbackHeld, TargetsHeld
  <1> QED
    BY <1>4, <1>5, <1>6, TypePartsNext DEF IdInv

(* Bytes are stored for an object that the call holds on to.               *)
LEMMA StoreBytesKeepsIds ==
    ASSUME JsAssumption, IdInv, NEW t \in Thread, StoreBytes(t)
    PROVE  IdInv'
  <1> DEFINE id == NextId(bytes, lastBytes)
  <1>1. PICK h \in handles :
          /\ marshalled[t] = <<>> /\ Room(bytes) /\ lastBytes < MaxBuffers /\ h.object \in Object
          /\ bytes' = With(bytes, id, h.object) /\ lastBytes' = id
          /\ marshalled' = [marshalled EXCEPT ![t] = <<Signed(id), h>>]
          /\ UNCHANGED <<content, stores, objects, scopes, pipeline>>
    BY DEF StoreBytes
  <1>2. /\ store' = store /\ lastId' = lastId /\ handles' = handles /\ content' = content
        /\ queue' = queue /\ callback' = callback /\ shouldDiscard' = shouldDiscard
        /\ stage' = stage
    BY <1>1 DEF objects, pipeline
  <1>3. ObjectsTyped /\ BuffersTyped /\ PipelineTyped
    BY TypeParts DEF IdInv
  <1>4. id \in Id /\ Signed(id) \in CppId
    BY <1>1, <1>3, NextIsFree, SignedIds DEF BuffersTyped
  <1> HIDE DEF id
  <1>5. ObjectsTyped' /\ PipelineTyped' /\ SmallIdsResolve' /\ CallbackHeld'
    BY <1>2, <1>3 DEF ObjectsTyped, PipelineTyped, IdInv, SmallIdsResolve, CallbackHeld
  <1>6. BuffersTyped'
    <2>1. IdLimit \in Nat
      BY DEF JsAssumption
    <2>2. lastBytes' \in 0 .. IdLimit
      BY <1>1, <1>4, <2>1 DEF Id
    <2>3. DOMAIN bytes' \subseteq Id /\ \A i \in DOMAIN bytes' : bytes'[i] \in Object
      BY <1>1, <1>3, <1>4 DEF BuffersTyped, With
    <2>4. marshalled' \in [Thread -> {<<>>} \cup (CppId \X Handle)]
      <3>1. <<Signed(id), h>> \in {<<>>} \cup (CppId \X Handle)
        BY <1>3, <1>4 DEF ObjectsTyped
      <3> QED
        BY <1>1, <1>3, <3>1 DEF BuffersTyped
    <2> QED
      BY <1>2, <1>3, <2>2, <2>3, <2>4 DEF BuffersTyped
  <1>7. TargetsHeld'
    <2> SUFFICES ASSUME NEW u \in Thread, marshalled'[u] # <<>>
                 PROVE  marshalled'[u][2] \in handles /\ marshalled'[u][2].object \in Object
      BY <1>2 DEF TargetsHeld
    <2>1. marshalled'[u] = IF u = t THEN <<Signed(id), h>> ELSE marshalled[u]
      BY <1>1, <1>3 DEF BuffersTyped
    <2> QED
      BY <1>1, <2>1 DEF IdInv, TargetsHeld
  <1> QED
    BY <1>5, <1>6, <1>7, TypePartsNext DEF IdInv

(* The bytes are taken out, whether or not their object is found.          *)
LEMMA PassBytesKeepsIds ==
    ASSUME JsAssumption, IdInv, NEW t \in Thread, PassBytes(t)
    PROVE  IdInv'
  <1> DEFINE id == marshalled[t][1]
             h == marshalled[t][2]
  <1>1. /\ marshalled[t] # <<>>
        /\ content' = IF Known(store, h.id) /\ store[h.id] \in Object
                      THEN [content EXCEPT ![store[h.id]] = Buffer(id)] ELSE content
        /\ bytes' = Without(bytes, id)
        /\ marshalled' = [marshalled EXCEPT ![t] = <<>>]
        /\ UNCHANGED <<lastBytes, stores, objects, scopes, pipeline>>
    BY DEF PassBytes, Rest
  <1>2. /\ store' = store /\ lastId' = lastId /\ handles' = handles /\ lastBytes' = lastBytes
        /\ queue' = queue /\ callback' = callback /\ shouldDiscard' = shouldDiscard
        /\ stage' = stage
    BY <1>1 DEF objects, pipeline
  <1>3. ObjectsTyped /\ BuffersTyped /\ PipelineTyped
    BY TypeParts DEF IdInv
  <1>4. Buffer(id) \in Object \cup {"none", "undefined"}
    BY <1>3 DEF BuffersTyped, Buffer, Known
  <1> HIDE DEF id, h
  <1>5. ObjectsTyped' /\ PipelineTyped' /\ SmallIdsResolve' /\ CallbackHeld'
    BY <1>2, <1>3 DEF ObjectsTyped, PipelineTyped, IdInv, SmallIdsResolve, CallbackHeld
  <1>6. BuffersTyped'
    <2>1. DOMAIN bytes' \subseteq Id /\ \A i \in DOMAIN bytes' : bytes'[i] \in Object
      BY <1>1, <1>3 DEF BuffersTyped, Without
    <2>2. marshalled' \in [Thread -> {<<>>} \cup (CppId \X Handle)]
      BY <1>1, <1>3 DEF BuffersTyped
    <2>3. content' \in [Object -> Object \cup {"none", "undefined"}]
      BY <1>1, <1>3, <1>4 DEF BuffersTyped
    <2> QED
      BY <1>2, <1>3, <2>1, <2>2, <2>3 DEF BuffersTyped
  <1>7. TargetsHeld'
    BY <1>1, <1>2, <1>3 DEF IdInv, TargetsHeld, BuffersTyped
  <1> QED
    BY <1>5, <1>6, <1>7, TypePartsNext DEF IdInv


(* init(), close() and the setters change neither store nor callback.      *)
LEMMA SessionKeepsIds ==
    ASSUME JsAssumption, IdInv, NEW t \in Thread, InitSDK(t) \/ Close(t) \/ WriteData(t)
    PROVE  IdInv'
  <1>1. /\ store' = store /\ lastId' = lastId /\ handles' = handles /\ bytes' = bytes
        /\ lastBytes' = lastBytes /\ marshalled' = marshalled /\ content' = content
        /\ queue' = queue /\ callback' = callback /\ shouldDiscard' = shouldDiscard
        /\ stage' = stage
    BY DEF InitSDK, Close, WriteData, objects, buffers, pipeline
  <1>2. ObjectsTyped /\ BuffersTyped /\ PipelineTyped
    BY TypeParts DEF IdInv
  <1>3. ObjectsTyped' /\ BuffersTyped' /\ PipelineTyped'
    BY <1>1, <1>2 DEF ObjectsTyped, BuffersTyped, PipelineTyped
  <1>4. SmallIdsResolve' /\ CallbackHeld' /\ TargetsHeld'
    BY <1>1 DEF IdInv, SmallIdsResolve, CallbackHeld, TargetsHeld
  <1> QED
    BY <1>3, <1>4, TypePartsNext DEF IdInv

(* A captured event waits for the event loop.                              *)
LEMMA CaptureKeepsIds ==
    ASSUME JsAssumption, IdInv, NEW t \in Thread, CaptureEvent(t)
    PROVE  IdInv'
  <1>1. PICK e \in Event :
          /\ stage[e] = "none" /\ stage' = [stage EXCEPT ![e] = "captured"]
          /\ queue' = Append(queue, e)
    BY DEF CaptureEvent
  <1>2. /\ store' = store /\ lastId' = lastId /\ handles' = handles /\ bytes' = bytes
        /\ lastBytes' = lastBytes /\ marshalled' = marshalled /\ content' = content
        /\ callback' = callback /\ shouldDiscard' = shouldDiscard
    BY DEF CaptureEvent, objects, buffers
  <1>3. ObjectsTyped /\ BuffersTyped /\ PipelineTyped
    BY TypeParts DEF IdInv
  <1>4. ObjectsTyped' /\ BuffersTyped'
    BY <1>2, <1>3 DEF ObjectsTyped, BuffersTyped
  <1>5. PipelineTyped'
    <2>1. queue' \in Seq(Event)
      BY <1>1, <1>3 DEF PipelineTyped
    <2>2. stage' \in [Event -> Delivered!Stage]
      BY <1>1, <1>3 DEF PipelineTyped, Delivered!Stage
    <2> QED
      BY <1>2, <1>3, <2>1, <2>2 DEF PipelineTyped
  <1>6. SmallIdsResolve' /\ TargetsHeld'
    BY <1>2 DEF IdInv, SmallIdsResolve, TargetsHeld
  <1>7. CallbackHeld'
    <2> SUFFICES ASSUME callback # NoHandle
                 PROVE  /\ callback \in Handle /\ callback.object \in Event
                        /\ stage'[callback.object] = "processing" => callback \in handles
      BY <1>2 DEF CallbackHeld
    <2>1. callback \in Handle /\ callback.object \in Event
      BY DEF IdInv, CallbackHeld
    <2>2. stage'[callback.object] = "processing" => stage[callback.object] = "processing"
      BY <1>1, <1>3, <2>1 DEF PipelineTyped
    <2> QED
      BY <2>1, <2>2 DEF IdInv, CallbackHeld
  <1> QED
    BY <1>4, <1>5, <1>6, <1>7, TypePartsNext DEF IdInv

(* beforeSend skips the handler, or stores the event for it.               *)
LEMMA BeforeSendKeepsIds ==
    ASSUME JsAssumption, IdInv, BeforeSend
    PROVE  IdInv'
  <1> DEFINE e == Head(queue)
  <1>1. /\ callback = NoHandle /\ queue # <<>> /\ queue' = Tail(queue)
        /\ bytes' = bytes /\ lastBytes' = lastBytes /\ marshalled' = marshalled
        /\ content' = content /\ shouldDiscard' = shouldDiscard
    BY DEF BeforeSend, buffers
  <1>2. ObjectsTyped /\ BuffersTyped /\ PipelineTyped
    BY TypeParts DEF IdInv
  <1>3. e \in Event /\ queue' \in Seq(Event)
    BY <1>1, <1>2 DEF PipelineTyped
  <1>4. BuffersTyped'
    BY <1>1, <1>2 DEF BuffersTyped
  <1>5. CASE ~ enabled
    <2>1. /\ stage' = [stage EXCEPT ![e] = "dropped"]
          /\ callback' = callback /\ store' = store /\ lastId' = lastId /\ handles' = handles
      BY <1>5 DEF BeforeSend, objects
    <2>2. ObjectsTyped'
      BY <1>2, <2>1 DEF ObjectsTyped
    <2>3. PipelineTyped'
      <3>1. stage' \in [Event -> Delivered!Stage]
        BY <1>2, <2>1 DEF PipelineTyped, Delivered!Stage
      <3> HIDE DEF e
      <3> QED
        BY <1>1, <1>2, <1>3, <2>1, <3>1 DEF PipelineTyped
    <2>4. SmallIdsResolve' /\ TargetsHeld' /\ CallbackHeld'
      BY <1>1, <2>1 DEF IdInv, SmallIdsResolve, TargetsHeld, CallbackHeld
    <2> QED
      BY <1>4, <2>2, <2>3, <2>4, TypePartsNext DEF IdInv
  <1>6. CASE enabled
    <2>1. /\ Hold(e) /\ stage' = [stage EXCEPT ![e] = "processing"]
          /\ callback' = Handed(e) /\ handles' = handles \cup {Handed(e)}
      BY <1>6 DEF BeforeSend
    <2>2. ObjectsTyped' /\ SmallIdsResolve' /\ Handed(e) \in Handle /\ Handed(e).object = e
      BY <1>2, <1>3, <2>1, HoldResolves DEF IdInv, Target
    <2>3. PipelineTyped'
      <3>1. stage' \in [Event -> Delivered!Stage]
        BY <1>2, <2>1 DEF PipelineTyped, Delivered!Stage
      <3> HIDE DEF e
      <3> QED
        BY <1>1, <1>2, <1>3, <2>1, <2>2, <3>1 DEF PipelineTyped
    <2>4. TargetsHeld'
      BY <1>1, <2>1 DEF IdInv, TargetsHeld
    <2>5. CallbackHeld'
      BY <1>3, <2>1, <2>2 DEF CallbackHeld
    <2> QED
      BY <1>4, <2>2, <2>3, <2>4, <2>5, TypePartsNext DEF IdInv
  <1> QED
    BY <1>5, <1>6

(* The handler's handle is released unless the program has kept it; no     *)
(* call is using it for bytes, as it is an event's.                        *)
LEMMA HandlerKeepsIds ==
    ASSUME JsAssumption, IdInv, HandlerReturns
    PROVE  IdInv'
  <1> DEFINE e == callback.object
  <1>1. PICK keep \in BOOLEAN, stored \in BOOLEAN :
          /\ shouldDiscard' = IF Known(store, callback.id) /\ store[callback.id] \in Event
                              THEN [shouldDiscard EXCEPT ![store[callback.id]] = IF keep THEN "no" ELSE "yes"]
                              ELSE shouldDiscard
          /\ stage' = [stage EXCEPT ![e] = IF keep THEN "kept" ELSE "discarded"]
          /\ IF stored THEN UNCHANGED <<store, handles>>
             ELSE /\ store' = Without(store, callback.id)
                  /\ handles' = handles \ {callback}
    BY DEF HandlerReturns
  <1>2. /\ callback # NoHandle /\ stage[e] = "processing" /\ lastId' = lastId
        /\ queue' = queue /\ callback' = callback
        /\ bytes' = bytes /\ lastBytes' = lastBytes /\ marshalled' = marshalled
        /\ content' = content
    BY DEF HandlerReturns, buffers
  <1>3. ObjectsTyped /\ BuffersTyped /\ PipelineTyped
    BY TypeParts DEF IdInv
  <1>4. callback \in handles /\ e \in Event
    BY <1>2 DEF IdInv, CallbackHeld
  <1>5. ObjectsTyped' /\ SmallIdsResolve'
    <2>1. CASE stored
      BY <1>1, <1>2, <1>3, <2>1 DEF ObjectsTyped, IdInv, SmallIdsResolve
    <2>2. CASE ~ stored
      BY <1>1, <1>2, <1>3, <1>4, <2>2, ReleaseResolves DEF IdInv
    <2> QED
      BY <2>1, <2>2
  <1>6. BuffersTyped'
    BY <1>2, <1>3 DEF BuffersTyped
  <1>7. PipelineTyped'
    <2>1. stage' \in [Event -> Delivered!Stage]
      BY <1>1, <1>3 DEF PipelineTyped, Delivered!Stage
    <2>2. shouldDiscard' \in [Event -> {"unset", "yes", "no"}]
      BY <1>1, <1>3 DEF PipelineTyped
    <2> QED
      BY <1>2, <1>3, <2>1, <2>2 DEF PipelineTyped
  <1>8. TargetsHeld'
    <2> SUFFICES ASSUME NEW u \in Thread, marshalled[u] # <<>>
                 PROVE  marshalled[u][2] \in handles' /\ marshalled[u][2].object \in Object
      BY <1>2 DEF TargetsHeld
    <2>1. marshalled[u][2] \in handles /\ marshalled[u][2].object \in Object
      BY DEF IdInv, TargetsHeld
    <2>2. marshalled[u][2] # callback
      BY <1>4, <2>1 DEF JsAssumption
    <2> QED
      BY <1>1, <2>1, <2>2
  <1>9. CallbackHeld'
    <2>1. stage'[e] # "processing"
      BY <1>1, <1>3, <1>4 DEF PipelineTyped
    <2> QED
      BY <1>2, <1>4, <2>1 DEF IdInv, CallbackHeld
  <1> QED
    BY <1>5, <1>6, <1>7, <1>8, <1>9, TypePartsNext DEF IdInv

(* Back in JavaScript, the callback is over.                               *)
LEMMA ReturnKeepsIds ==
    ASSUME JsAssumption, IdInv, BeforeSendReturns
    PROVE  IdInv'
  <1>1. PICK e \in {callback.object} :
          /\ stage' = [stage EXCEPT ![e] = IF Discard(e) THEN "dropped" ELSE "sent"]
          /\ shouldDiscard' = [shouldDiscard EXCEPT ![e] = "unset"]
    BY DEF BeforeSendReturns
  <1>2. /\ callback' = NoHandle /\ queue' = queue
        /\ store' = store /\ lastId' = lastId /\ handles' = handles
        /\ bytes' = bytes /\ lastBytes' = lastBytes /\ marshalled' = marshalled
        /\ content' = content
    BY DEF BeforeSendReturns, objects, buffers
  <1>3. ObjectsTyped /\ BuffersTyped /\ PipelineTyped
    BY TypeParts DEF IdInv
  <1>4. ObjectsTyped' /\ BuffersTyped'
    BY <1>2, <1>3 DEF ObjectsTyped, BuffersTyped
  <1>5. PipelineTyped'
    <2>1. stage' \in [Event -> Delivered!Stage]
      BY <1>1, <1>3 DEF PipelineTyped, Delivered!Stage
    <2>2. shouldDiscard' \in [Event -> {"unset", "yes", "no"}]
      BY <1>1, <1>3 DEF PipelineTyped
    <2> QED
      BY <1>2, <1>3, <2>1, <2>2 DEF PipelineTyped
  <1>6. SmallIdsResolve' /\ TargetsHeld' /\ CallbackHeld'
    BY <1>2 DEF IdInv, SmallIdsResolve, TargetsHeld, CallbackHeld
  <1> QED
    BY <1>4, <1>5, <1>6, TypePartsNext DEF IdInv

LEMMA IdNext == JsAssumption /\ IdInv /\ Next => IdInv'
  <1> SUFFICES ASSUME JsAssumption, IdInv, Next PROVE IdInv'
    OBVIOUS
  <1>1. ASSUME NEW t \in Thread, Obtain(t) \/ Get(t) PROVE IdInv'
    BY <1>1, ObtainKeepsIds
  <1>2. ASSUME NEW t \in Thread, Release(t) PROVE IdInv'
    BY <1>2, ReleaseKeepsIds
  <1>3. ASSUME NEW t \in Thread, StoreBytes(t) PROVE IdInv'
    BY <1>3, StoreBytesKeepsIds
  <1>4. ASSUME NEW t \in Thread, PassBytes(t) PROVE IdInv'
    BY <1>4, PassBytesKeepsIds
  <1>5. ASSUME NEW t \in Thread, InitSDK(t) \/ Close(t) \/ WriteData(t) PROVE IdInv'
    BY <1>5, SessionKeepsIds
  <1>6. ASSUME NEW t \in Thread, CaptureEvent(t) PROVE IdInv'
    BY <1>6, CaptureKeepsIds
  <1>7. CASE EventLoop
    BY <1>7, BeforeSendKeepsIds, HandlerKeepsIds, ReturnKeepsIds DEF EventLoop
  <1> QED
    BY <1>1, <1>2, <1>3, <1>4, <1>5, <1>6, <1>7 DEF Next

LEMMA IdStutters == IdInv /\ UNCHANGED vars => IdInv'
  BY DEF IdInv, TypeOK, Delivered!TypeOK, SmallIdsResolve, CallbackHeld, TargetsHeld, vars,
         objects, buffers, scopes, pipeline


-----------------------------------------------------------------------------
(***************************************************************************)
(* Bytes and their ids, while the counter has not used up the ids that a   *)
(* signed integer holds.                                                   *)
(***************************************************************************)
BytesFit == MaxBuffers <= IdLimit \div 2

\* The counter does not come round, so that an id is given out once.
BytesCounted == lastBytes <= MaxBuffers /\ DOMAIN bytes \subseteq 1 .. lastBytes

\* What a thread has stored for its call is there, under an id that no other thread uses.
BytesWait ==
    \A t \in Thread : marshalled[t] # <<>> =>
        /\ marshalled[t][1] \in DOMAIN bytes
        /\ bytes[marshalled[t][1]] = marshalled[t][2].object

BytesApart ==
    \A t, u \in Thread :
        marshalled[t] # <<>> /\ marshalled[u] # <<>> /\ marshalled[t][1] = marshalled[u][1] => t = u

BytesInv == BytesCounted /\ BytesWait /\ BytesApart /\ BytesArrive /\ NoBytesLeft

LEMMA BytesInit == JsAssumption /\ Init => BytesInv
  BY DEF JsAssumption, Init, BytesInv, BytesCounted, BytesWait, BytesApart, BytesArrive,
     NoBytesLeft

(* Nobody uses the id that new bytes get.                                  *)
LEMMA StoreBytesKeepsBytes ==
    ASSUME JsAssumption, BytesFit, IdInv, BytesInv, NEW t \in Thread, StoreBytes(t)
    PROVE  BytesInv'
  <1> DEFINE id == lastBytes + 1
  <1>1. IdLimit \in Nat /\ MaxBuffers \in Nat
    BY DEF JsAssumption
  <1>2. ObjectsTyped /\ BuffersTyped
    BY TypeParts DEF IdInv
  <1>3. PICK h \in handles :
          /\ marshalled[t] = <<>> /\ lastBytes < MaxBuffers
          /\ bytes' = With(bytes, NextId(bytes, lastBytes), h.object)
          /\ lastBytes' = NextId(bytes, lastBytes)
          /\ marshalled' = [marshalled EXCEPT ![t] = <<Signed(NextId(bytes, lastBytes)), h>>]
          /\ content' = content
    BY DEF StoreBytes
  <1>4. lastBytes \in 0 .. IdLimit - 1 /\ id \in Id /\ id <= IdLimit \div 2
    BY <1>1, <1>2, <1>3 DEF BuffersTyped, BytesFit, Id
  <1>5. NextId(bytes, lastBytes) = id
    BY <1>4, CountsUp DEF BytesInv, BytesCounted
  <1>6. Signed(id) = id
    BY <1>4, SignedIds
  <1>7. id \notin DOMAIN bytes
    BY <1>4 DEF BytesInv, BytesCounted
  <1>8. /\ bytes' = With(bytes, id, h.object) /\ lastBytes' = id
        /\ marshalled' = [marshalled EXCEPT ![t] = <<id, h>>]
    BY <1>3, <1>5, <1>6
  <1>9. /\ DOMAIN bytes' = DOMAIN bytes \cup {id} /\ bytes'[id] = h.object
        /\ \A i \in DOMAIN bytes : bytes'[i] = bytes[i]
    BY <1>7, <1>8 DEF With
  <1>10. \A u \in Thread : marshalled'[u] = IF u = t THEN <<id, h>> ELSE marshalled[u]
    BY <1>2, <1>8 DEF BuffersTyped
  <1>11. \A u \in Thread : marshalled[u] # <<>> => marshalled[u][1] # id
    BY <1>7 DEF BytesInv, BytesWait
  <1>12. BytesCounted'
    BY <1>1, <1>3, <1>4, <1>8, <1>9 DEF BytesInv, BytesCounted
  <1> HIDE DEF id
  <1>13. BytesWait'
    <2> SUFFICES ASSUME NEW u \in Thread, marshalled'[u] # <<>>
                 PROVE  /\ marshalled'[u][1] \in DOMAIN bytes'
                        /\ bytes'[marshalled'[u][1]] = marshalled'[u][2].object
      BY DEF BytesWait
    <2>1. CASE u = t
      BY <1>9, <1>10, <2>1
    <2>2. CASE u # t
      BY <1>9, <1>10, <2>2 DEF BytesInv, BytesWait
    <2> QED
      BY <2>1, <2>2
  <1>14. BytesApart'
    <2> SUFFICES ASSUME NEW u \in Thread, NEW w \in Thread, marshalled'[u] # <<>>,
                        marshalled'[w] # <<>>, marshalled'[u][1] = marshalled'[w][1]
                 PROVE  u = w
      BY DEF BytesApart
    <2>1. CASE u = t \/ w = t
      BY <1>10, <1>11, <2>1
    <2>2. CASE u # t /\ w # t
      BY <1>10, <2>2 DEF BytesInv, BytesApart
    <2> QED
      BY <2>1, <2>2
  <1>15. BytesArrive'
    BY <1>3 DEF BytesInv, BytesArrive
  <1>16. NoBytesLeft'
    <2> SUFFICES ASSUME NEW i \in DOMAIN bytes'
                 PROVE  \E u \in Thread : marshalled'[u] # <<>> /\ marshalled'[u][1] = Signed(i)
      BY DEF NoBytesLeft
    <2>1. CASE i = id
      BY <1>6, <1>10, <2>1
    <2>2. CASE i \in DOMAIN bytes
      <3>1. PICK u \in Thread : marshalled[u] # <<>> /\ marshalled[u][1] = Signed(i)
        BY <2>2 DEF BytesInv, NoBytesLeft
      <3> QED
        BY <1>3, <1>10, <3>1
    <2> QED
      BY <1>9, <2>1, <2>2
  <1> QED
    BY <1>12, <1>13, <1>14, <1>15, <1>16 DEF BytesInv

(* The call gets the bytes of its own thread, for its own object.          *)
LEMMA PassBytesKeepsBytes ==
    ASSUME JsAssumption, BytesFit, IdInv, BytesInv, NEW t \in Thread, PassBytes(t)
    PROVE  BytesInv'
  <1> DEFINE id == marshalled[t][1]
             h == marshalled[t][2]
  <1>1. IdLimit \in Nat /\ MaxBuffers \in Nat
    BY DEF JsAssumption
  <1>2. ObjectsTyped /\ BuffersTyped
    BY TypeParts DEF IdInv
  <1>3. /\ marshalled[t] # <<>>
        /\ content' = IF Known(store, h.id) /\ store[h.id] \in Object
                      THEN [content EXCEPT ![store[h.id]] = Buffer(id)] ELSE content
        /\ bytes' = Without(bytes, id)
        /\ marshalled' = [marshalled EXCEPT ![t] = <<>>]
        /\ lastBytes' = lastBytes
    BY DEF PassBytes, Rest
  <1>4. id \in DOMAIN bytes /\ bytes[id] = h.object /\ h \in handles /\ h.object \in Object
    BY <1>3 DEF BytesInv, BytesWait, IdInv, TargetsHeld
  <1>5. Buffer(id) = h.object
    BY <1>4 DEF Buffer, Known
  <1>6. Known(store, h.id) => store[h.id] = h.object
    BY <1>2, <1>4, KnownIsOwn DEF IdInv
  <1> HIDE DEF id, h
  <1>7. /\ DOMAIN bytes' = DOMAIN bytes \ {id}
        /\ \A i \in DOMAIN bytes' : bytes'[i] = bytes[i]
    BY <1>3 DEF Without
  <1>8. \A u \in Thread : marshalled'[u] = IF u = t THEN <<>> ELSE marshalled[u]
    BY <1>2, <1>3 DEF BuffersTyped
  <1>9. BytesCounted'
    BY <1>3, <1>7 DEF BytesInv, BytesCounted
  <1>10. BytesWait'
    <2> SUFFICES ASSUME NEW u \in Thread, marshalled'[u] # <<>>
                 PROVE  /\ marshalled'[u][1] \in DOMAIN bytes'
                        /\ bytes'[marshalled'[u][1]] = marshalled'[u][2].object
      BY DEF BytesWait
    <2>1. u # t /\ marshalled'[u] = marshalled[u]
      BY <1>8
    <2>2. marshalled[u][1] # id
      BY <1>3, <2>1 DEF BytesInv, BytesApart, id
    <2> QED
      BY <1>7, <2>1, <2>2 DEF BytesInv, BytesWait
  <1>11. BytesApart'
    BY <1>8 DEF BytesInv, BytesApart
  <1>12. BytesArrive'
    BY <1>2, <1>3, <1>5, <1>6 DEF BytesInv, BytesArrive, BuffersTyped
  <1>13. NoBytesLeft'
    <2> SUFFICES ASSUME NEW i \in DOMAIN bytes'
                 PROVE  \E u \in Thread : marshalled'[u] # <<>> /\ marshalled'[u][1] = Signed(i)
      BY DEF NoBytesLeft
    <2>1. i \in DOMAIN bytes /\ i # id
      BY <1>7
    <2>2. PICK u \in Thread : marshalled[u] # <<>> /\ marshalled[u][1] = Signed(i)
      BY <2>1 DEF BytesInv, NoBytesLeft
    <2>3. Signed(i) = i
      <3>1. i \in Id /\ i <= IdLimit \div 2
        BY <1>1, <1>2, <2>1 DEF BytesInv, BytesCounted, BuffersTyped, BytesFit, Id
      <3> QED
        BY <3>1, SignedIds
    <2>4. u # t
      BY <2>1, <2>2, <2>3 DEF id
    <2> QED
      BY <1>8, <2>2, <2>4
  <1> QED
    BY <1>9, <1>10, <1>11, <1>12, <1>13 DEF BytesInv

LEMMA BytesNext == JsAssumption /\ BytesFit /\ IdInv /\ BytesInv /\ Next => BytesInv'
  <1> SUFFICES ASSUME JsAssumption, BytesFit, IdInv, BytesInv, Next PROVE BytesInv'
    OBVIOUS
  <1>1. ASSUME NEW t \in Thread, StoreBytes(t) PROVE BytesInv'
    BY <1>1, StoreBytesKeepsBytes
  <1>2. ASSUME NEW t \in Thread, PassBytes(t) PROVE BytesInv'
    BY <1>2, PassBytesKeepsBytes
  <1>3. CASE UNCHANGED buffers
    BY <1>3 DEF buffers, BytesInv, BytesCounted, BytesWait, BytesApart, BytesArrive, NoBytesLeft
  <1> QED
    BY <1>1, <1>2, <1>3 DEF Next, EventLoop, Obtain, Get, Release, InitSDK, Close, WriteData,
       CaptureEvent, BeforeSend, HandlerReturns, BeforeSendReturns

LEMMA BytesStutter == BytesInv /\ UNCHANGED vars => BytesInv'
  BY DEF vars, buffers, BytesInv, BytesCounted, BytesWait, BytesApart, BytesArrive, NoBytesLeft

(* Behind an id that fits a signed integer is the object that it was given *)
(* out for, however often the counter of javascript_interop.h's ids has    *)
(* gone round; and as long as the ids of buffers fit, every object gets the*)
(* bytes that were stored for it, of which none stay behind.               *)
THEOREM IdsFindOwn == ASSUME JsAssumption PROVE Spec => []IdsFindTheirOwn
  <1>1. IdInv /\ (BytesFit => BytesInv) => IdsFindTheirOwn
    BY DEF IdInv, BytesInv, BytesFit, IdsFindTheirOwn
  <1>2. Init => IdInv /\ (BytesFit => BytesInv)
    BY IdInit, BytesInit
  <1>3. IdInv /\ (BytesFit => BytesInv) /\ [Next]_vars => IdInv' /\ (BytesFit' => BytesInv')
    <2>1. BytesFit' <=> BytesFit
      BY DEF BytesFit
    <2> QED
      BY <2>1, IdNext, IdStutters, BytesNext, BytesStutter
  <1> QED
    BY <1>1, <1>2, <1>3, PTL DEF Spec


-----------------------------------------------------------------------------
(***************************************************************************)
(* Sessions.                                                               *)
(***************************************************************************)
DataInv ==
    /\ isolation \cup globals \cup current \subseteq {session}
    /\ DOMAIN captured = Event
    /\ SessionsIsolated

LEMMA DataNext == DataInv /\ [Next]_vars => DataInv'
  <1> SUFFICES ASSUME DataInv, [Next]_vars PROVE DataInv'
    OBVIOUS
  <1>1. ASSUME NEW t \in Thread, InitSDK(t) PROVE DataInv'
    <2>1. /\ isolation' \subseteq {session'} /\ globals' = {} /\ current' = {session'}
          /\ captured' = captured
      BY <1>1 DEF InitSDK, Cleared, pipeline
    <2> QED
      BY <2>1 DEF DataInv, SessionsIsolated
  <1>2. ASSUME NEW t \in Thread, WriteData(t) PROVE DataInv'
    <2>1. /\ isolation' \subseteq isolation \cup {session}
          /\ globals' \subseteq globals \cup {session}
          /\ current' = current /\ session' = session /\ captured' = captured
      BY <1>2 DEF WriteData, pipeline
    <2> QED
      BY <2>1 DEF DataInv, SessionsIsolated
  <1>3. ASSUME NEW t \in Thread, CaptureEvent(t) PROVE DataInv'
    <2>1. PICK e \in Event :
            captured' = [captured EXCEPT ![e] =
                           [session |-> session, data |-> isolation \cup globals \cup current]]
      BY <1>3 DEF CaptureEvent
    <2>2. /\ isolation' = isolation /\ globals' = globals /\ current' = current
          /\ session' = session
      BY <1>3 DEF CaptureEvent, scopes
    <2>3. DOMAIN captured' = Event
      BY <2>1 DEF DataInv
    <2>4. \A d \in Event : captured'[d].data \subseteq {captured'[d].session}
      BY <2>1 DEF DataInv, SessionsIsolated
    <2> QED
      BY <2>2, <2>3, <2>4 DEF DataInv, SessionsIsolated
  <1>4. ASSUME NEW t \in Thread, Close(t) PROVE DataInv'
    BY <1>4 DEF Close, pipeline, DataInv, SessionsIsolated
  <1>5. CASE UNCHANGED <<scopes, captured>>
    BY <1>5 DEF scopes, DataInv, SessionsIsolated
  <1> QED
    BY <1>1, <1>2, <1>3, <1>4, <1>5 DEF Next, EventLoop, Obtain, Get, Release, StoreBytes,
       PassBytes, BeforeSend, HandlerReturns, BeforeSendReturns, vars, pipeline

(* No event carries what was set before the last init(): the scopes of the *)
(* JavaScript SDK outlive close(), and init() clears each of them.         *)
THEOREM SessionsStayIsolated == Spec => []SessionsIsolated
  <1>1. Init => DataInv
    BY DEF Init, DataInv, SessionsIsolated
  <1>2. DataInv => SessionsIsolated
    BY DEF DataInv
  <1> QED
    BY <1>1, <1>2, DataNext, PTL DEF Spec

-----------------------------------------------------------------------------
(***************************************************************************)
(* Events on their way out.                                                *)
(***************************************************************************)
\* An event waits in the queue once, and nothing has happened to it.
QueueWaits ==
    /\ \A i \in 1 .. Len(queue) : stage[queue[i]] = "captured"
    /\ \A i, j \in 1 .. Len(queue) : queue[i] = queue[j] => i = j

CallbackRuns ==
    callback # NoHandle => stage[callback.object] \in {"processing", "kept", "discarded"}

\* An event is marked only by the verdict of its own callback, and marked by it if C++ finds it.
MarkedByVerdict ==
    /\ \A e \in Event : shouldDiscard[e] = "yes" =>
         callback # NoHandle /\ callback.object = e /\ stage[e] = "discarded"
    /\ callback # NoHandle /\ callback.id > 0 /\ stage[callback.object] = "discarded" =>
         shouldDiscard[callback.object] = "yes"

DeliveryInv == QueueWaits /\ CallbackRuns /\ MarkedByVerdict

Delivers == (callback # NoHandle => callback.id > 0) => Delivered!Next

LEMMA CaptureStands ==
    ASSUME JsAssumption, IdInv, DeliveryInv, NEW t \in Thread, CaptureEvent(t)
    PROVE  DeliveryInv' /\ Delivers
  <1>1. PICK e \in Event :
          /\ stage[e] = "none" /\ stage' = [stage EXCEPT ![e] = "captured"]
          /\ queue' = Append(queue, e)
    BY DEF CaptureEvent
  <1>2. callback' = callback /\ shouldDiscard' = shouldDiscard
    BY DEF CaptureEvent
  <1>3. PipelineTyped
    BY TypeParts DEF IdInv
  <1>4. \A d \in Event : stage'[d] = IF d = e THEN "captured" ELSE stage[d]
    BY <1>1, <1>3 DEF PipelineTyped
  <1>5. QueueWaits'
    <2>1. \A i \in 1 .. Len(queue) : queue[i] \in Event /\ queue[i] # e
      BY <1>1, <1>3 DEF PipelineTyped, DeliveryInv, QueueWaits
    <2>2. /\ Len(queue') = Len(queue) + 1 /\ queue'[Len(queue) + 1] = e
          /\ \A i \in 1 .. Len(queue) : queue'[i] = queue[i]
          /\ Len(queue) \in Nat
      BY <1>1, <1>3 DEF PipelineTyped
    <2>3. \A i \in 1 .. Len(queue') : stage'[queue'[i]] = "captured"
      BY <1>4, <2>1, <2>2 DEF DeliveryInv, QueueWaits
    <2>4. \A i, j \in 1 .. Len(queue') : queue'[i] = queue'[j] => i = j
      BY <2>1, <2>2 DEF DeliveryInv, QueueWaits
    <2> QED
      BY <2>3, <2>4 DEF QueueWaits
  <1>6. callback # NoHandle => callback.object \in Event /\ callback.object # e
    BY <1>1 DEF IdInv, CallbackHeld, DeliveryInv, CallbackRuns
  <1>7. CallbackRuns'
    BY <1>2, <1>4, <1>6 DEF DeliveryInv, CallbackRuns
  <1>8. MarkedByVerdict'
    <2>1. \A d \in Event : shouldDiscard[d] = "yes" => d # e
      BY <1>1 DEF DeliveryInv, MarkedByVerdict
    <2> QED
      BY <1>2, <1>4, <1>6, <2>1 DEF DeliveryInv, MarkedByVerdict
  <1>9. Delivered!Next
    BY <1>1 DEF Delivered!Next, Delivered!Capture, Delivered!Move
  <1> QED
    BY <1>5, <1>7, <1>8, <1>9 DEF DeliveryInv, Delivers

LEMMA BeforeSendStands ==
    ASSUME JsAssumption, IdInv, DeliveryInv, BeforeSend
    PROVE  DeliveryInv' /\ Delivers
  <1> DEFINE e == Head(queue)
  <1>1. /\ callback = NoHandle /\ queue # <<>> /\ queue' = Tail(queue)
        /\ shouldDiscard' = shouldDiscard
    BY DEF BeforeSend
  <1>2. ObjectsTyped /\ PipelineTyped
    BY TypeParts DEF IdInv
  <1>3. /\ Len(queue) \in Nat /\ Len(queue) > 0 /\ e = queue[1] /\ e \in Event
        /\ stage[e] = "captured" /\ Len(queue') = Len(queue) - 1
        /\ \A i \in 1 .. Len(queue') : queue'[i] = queue[i + 1] /\ queue[i + 1] \in Event
    BY <1>1, <1>2 DEF PipelineTyped, DeliveryInv, QueueWaits
  <1>4. PICK to \in {"processing", "dropped"} : stage' = [stage EXCEPT ![e] = to]
    BY DEF BeforeSend
  <1> HIDE DEF e
  <1>5. \A d \in Event : stage'[d] = IF d = e THEN to ELSE stage[d]
    BY <1>2, <1>4 DEF PipelineTyped
  <1>6. QueueWaits'
    <2>1. \A i \in 1 .. Len(queue') : queue'[i] # e
      BY <1>3 DEF DeliveryInv, QueueWaits
    <2>2. \A i \in 1 .. Len(queue') : stage'[queue'[i]] = "captured"
      BY <1>3, <1>5, <2>1 DEF DeliveryInv, QueueWaits
    <2>3. \A i, j \in 1 .. Len(queue') : queue'[i] = queue'[j] => i = j
      BY <1>3 DEF DeliveryInv, QueueWaits
    <2> QED
      BY <2>2, <2>3 DEF QueueWaits
  <1>7. \A d \in Event : shouldDiscard'[d] # "yes"
    BY <1>1 DEF DeliveryInv, MarkedByVerdict
  <1>8. callback' # NoHandle => callback'.object = e /\ stage'[e] = "processing"
    <2>1. CASE ~ enabled
      BY <1>1, <2>1 DEF BeforeSend
    <2>2. CASE enabled
      BY <1>2, <1>3, <2>2 DEF BeforeSend, Handed, PipelineTyped, e
    <2> QED
      BY <2>1, <2>2
  <1>9. CallbackRuns' /\ MarkedByVerdict'
    BY <1>7, <1>8 DEF CallbackRuns, MarkedByVerdict
  <1>10. Delivered!Next
    BY <1>3, <1>4 DEF Delivered!Next, Delivered!Process, Delivered!Drop, Delivered!Move
  <1> QED
    BY <1>6, <1>9, <1>10 DEF DeliveryInv, Delivers

LEMMA HandlerStands ==
    ASSUME JsAssumption, IdInv, DeliveryInv, HandlerReturns
    PROVE  DeliveryInv' /\ Delivers
  <1> DEFINE e == callback.object
  <1>1. PICK keep \in BOOLEAN :
          /\ shouldDiscard' = IF Known(store, callback.id) /\ store[callback.id] \in Event
                              THEN [shouldDiscard EXCEPT ![store[callback.id]] = IF keep THEN "no" ELSE "yes"]
                              ELSE shouldDiscard
          /\ stage' = [stage EXCEPT ![e] = IF keep THEN "kept" ELSE "discarded"]
    BY DEF HandlerReturns
  <1>2. /\ callback # NoHandle /\ stage[e] = "processing"
        /\ queue' = queue /\ callback' = callback
    BY DEF HandlerReturns
  <1>3. ObjectsTyped /\ PipelineTyped
    BY TypeParts DEF IdInv
  <1>4. callback \in handles /\ e \in Event
    BY <1>2 DEF IdInv, CallbackHeld
  <1>5. \A d \in Event :
          stage'[d] = IF d = e THEN (IF keep THEN "kept" ELSE "discarded") ELSE stage[d]
    BY <1>1, <1>3 DEF PipelineTyped
  <1>6. QueueWaits'
    <2>1. \A i \in 1 .. Len(queue) : queue[i] \in Event /\ queue[i] # e
      BY <1>2, <1>3 DEF PipelineTyped, DeliveryInv, QueueWaits
    <2> QED
      BY <1>2, <1>5, <2>1 DEF DeliveryInv, QueueWaits
  <1>7. CallbackRuns'
    BY <1>2, <1>4, <1>5 DEF CallbackRuns
  <1>8. Known(store, callback.id) => store[callback.id] = e
    BY <1>3, <1>4, KnownIsOwn DEF IdInv
  <1>9. \A d \in Event : shouldDiscard[d] # "yes"
    BY <1>2 DEF DeliveryInv, MarkedByVerdict
  <1>10. \A d \in Event : shouldDiscard'[d] = "yes" => d = e /\ ~ keep
    BY <1>1, <1>3, <1>8, <1>9 DEF PipelineTyped
  <1>11. callback.id > 0 /\ ~ keep => shouldDiscard'[e] = "yes"
    <2>1. callback.id > 0 => Known(store, callback.id)
      BY <1>4 DEF IdInv, SmallIdsResolve
    <2> QED
      BY <1>1, <1>3, <1>4, <1>8, <2>1 DEF PipelineTyped
  <1>12. MarkedByVerdict'
    BY <1>2, <1>4, <1>5, <1>10, <1>11 DEF MarkedByVerdict
  <1>13. Delivered!Next
    <2>1. Delivered!Judge(e)
      BY <1>1, <1>2 DEF Delivered!Judge, Delivered!Move
    <2> QED
      BY <1>4, <2>1 DEF Delivered!Next
  <1> QED
    BY <1>6, <1>7, <1>12, <1>13 DEF DeliveryInv, Delivers

LEMMA ReturnStands ==
    ASSUME JsAssumption, IdInv, DeliveryInv, BeforeSendReturns
    PROVE  DeliveryInv' /\ Delivers
  <1> DEFINE e == callback.object
             to == IF Discard(e) THEN "dropped" ELSE "sent"
  <1>1. /\ callback # NoHandle /\ stage[e] \in {"kept", "discarded"}
        /\ stage' = [stage EXCEPT ![e] = to]
        /\ shouldDiscard' = [shouldDiscard EXCEPT ![e] = "unset"]
        /\ callback' = NoHandle /\ queue' = queue
    BY DEF BeforeSendReturns
  <1>2. ObjectsTyped /\ PipelineTyped
    BY TypeParts DEF IdInv
  <1>3. e \in Event
    BY <1>1 DEF IdInv, CallbackHeld
  <1>4. \A d \in Event : stage'[d] = IF d = e THEN to ELSE stage[d]
    BY <1>1, <1>2 DEF PipelineTyped
  <1>5. QueueWaits'
    <2>1. \A i \in 1 .. Len(queue) : queue[i] \in Event /\ queue[i] # e
      BY <1>1, <1>2 DEF PipelineTyped, DeliveryInv, QueueWaits
    <2> QED
      BY <1>1, <1>4, <2>1 DEF DeliveryInv, QueueWaits
  <1>6. CallbackRuns'
    BY <1>1 DEF CallbackRuns
  <1>7. MarkedByVerdict'
    <2>1. \A d \in Event : shouldDiscard'[d] # "yes"
      BY <1>1, <1>2 DEF PipelineTyped, DeliveryInv, MarkedByVerdict
    <2> QED
      BY <1>1, <2>1 DEF MarkedByVerdict
  <1>8. Delivers
    <2> SUFFICES ASSUME callback.id > 0 PROVE Delivered!Next
      BY <1>1 DEF Delivers
    <2>1. CASE Discard(e)
      <3>1. stage[e] = "discarded"
        BY <1>3, <2>1 DEF DeliveryInv, MarkedByVerdict, Discard
      <3>2. Delivered!Drop(e)
        BY <1>1, <2>1, <3>1 DEF Delivered!Drop, Delivered!Move
      <3> QED
        BY <1>3, <3>2 DEF Delivered!Next
    <2>2. CASE ~ Discard(e)
      <3>1. stage[e] = "kept"
        BY <1>1, <2>2 DEF DeliveryInv, MarkedByVerdict, Discard
      <3>2. Delivered!Send(e)
        BY <1>1, <2>2, <3>1 DEF Delivered!Send, Delivered!Move
      <3> QED
        BY <1>3, <3>2 DEF Delivered!Next
    <2> QED
      BY <2>1, <2>2
  <1> QED
    BY <1>5, <1>6, <1>7, <1>8 DEF DeliveryInv

LEMMA DeliveryNext ==
    JsAssumption /\ IdInv /\ DeliveryInv /\ [Next]_vars => DeliveryInv' /\ [Delivers]_stage
  <1> SUFFICES ASSUME JsAssumption, IdInv, DeliveryInv, [Next]_vars
               PROVE  DeliveryInv' /\ [Delivers]_stage
    OBVIOUS
  <1>1. ASSUME NEW t \in Thread, CaptureEvent(t) PROVE DeliveryInv' /\ [Delivers]_stage
    BY <1>1, CaptureStands
  <1>2. CASE EventLoop
    BY <1>2, BeforeSendStands, HandlerStands, ReturnStands DEF EventLoop
  <1>3. CASE UNCHANGED pipeline
    BY <1>3 DEF pipeline, DeliveryInv, QueueWaits, CallbackRuns, MarkedByVerdict
  <1> QED
    BY <1>1, <1>2, <1>3 DEF Next, Obtain, Get, Release, StoreBytes, PassBytes, InitSDK, Close,
       WriteData, vars

(* before_send is called once for an event before it is sent, and an event *)
(* that it discards is dropped, as long as the event's id fits a signed    *)
(* integer; of one that does not, C++ cannot set "shouldDiscard".          *)
THEOREM VerdictsAreFinal == ASSUME JsAssumption PROVE Spec => VerdictsStand
  <1> DEFINE I == IdInv /\ DeliveryInv
  <1>1. Init => I /\ Delivered!Init
    <2>1. Init => DeliveryInv /\ Delivered!Init
      BY DEF Init, DeliveryInv, QueueWaits, CallbackRuns, MarkedByVerdict
    <2> QED
      BY <2>1, IdInit
  <1>2. I /\ [Next]_vars => I' /\ [Delivers]_stage
    BY IdNext, IdStutters, DeliveryNext
  <1>3. [Delivers]_stage <=> [(callback # NoHandle => callback.id > 0) => Delivered!Next]_stage
    BY DEF Delivers
  <1> HIDE DEF I
  <1> QED
    BY <1>1, <1>2, <1>3, PTL DEF Spec, VerdictsStand

-----------------------------------------------------------------------------
(***************************************************************************)
(* The boundaries together.  MCBoundary runs one of five instances of      *)
(* AndroidHandles and ScopeSync, which AndroidHandlesProofs and            *)
(* ScopeSyncProofs are about: with the same parameters, the definitions of *)
(* the proofs and those of the run are the same.                           *)
(***************************************************************************)
(* Wrappers on their threads, with any free handle drawn.                  *)
HandlesProof == INSTANCE AndroidHandlesProofs WITH
    Thread <- Threads, Object <- {o1, o2}, NoObject <- none, Handle <- {zero, h1, h2},
    Zero <- zero, Kinds <- {"event", "scope"}, Mark <- {}, FreshHandles <- FALSE,
    CrossThread <- FALSE, MaxDeliveries <- 2, MaxWrappers <- 3, MaxNesting <- 2,
    enabled <- javaEnabled, stage <- javaStage

LEMMA HandlesSteps == HandlesProof!Next <=> Handles!Next
  <1>1. HandlesProof!Held = Handles!Held
    BY DEF HandlesProof!Held, Handles!Held
  <1>2. ASSUME NEW k, NEW t PROVE HandlesProof!Free(k, t) = Handles!Free(k, t)
    BY DEF HandlesProof!Free, Handles!Free
  <1>3. HandlesProof!Cardinality(wrappers) = Handles!Cardinality(wrappers)
    BY DEF HandlesProof!Cardinality, Handles!Cardinality
  <1>4. ASSUME NEW k, NEW t, NEW d PROVE HandlesProof!New(t, k, d) <=> Handles!New(t, k, d)
    <2>1. ASSUME NEW o, NEW h
          PROVE  HandlesProof!Registered(k, t, h, o) = Handles!Registered(k, t, h, o)
      BY DEF HandlesProof!Registered, Handles!Registered, HandlesProof!With, Handles!With
    <2>2. ASSUME NEW o, NEW h
          PROVE  HandlesProof!Wrap(k, h, o, t, FALSE) = Handles!Wrap(k, h, o, t, FALSE)
      BY DEF HandlesProof!Wrap, Handles!Wrap
    <2>3. ASSUME NEW h PROVE HandlesProof!Draw(h) <=> Handles!Draw(h)
      BY DEF HandlesProof!Draw, Handles!Draw
    <2>4. HandlesProof!Running(t) <=> Handles!Running(t)
      BY DEF HandlesProof!Running, Handles!Running
    <2> QED
      BY <1>1, <1>2, <1>3, <2>1, <2>2, <2>3, <2>4 DEF HandlesProof!New, Handles!New
  <1>5. ASSUME NEW t
        PROVE  /\ HandlesProof!CreateEvent(t) <=> Handles!CreateEvent(t)
               /\ HandlesProof!CreateBreadcrumb(t) <=> Handles!CreateBreadcrumb(t)
               /\ HandlesProof!CreateScope(t) <=> Handles!CreateScope(t)
    BY <1>4 DEF
        HandlesProof!CreateEvent, Handles!CreateEvent, HandlesProof!Blank, Handles!Blank,
        HandlesProof!CreateBreadcrumb, Handles!CreateBreadcrumb, HandlesProof!CreateScope,
        Handles!CreateScope
  <1>6. ASSUME NEW t PROVE HandlesProof!CloneScope(t) <=> Handles!CloneScope(t)
    <2>1. HandlesProof!Usable(t) = Handles!Usable(t)
      BY DEF HandlesProof!Usable, Handles!Usable
    <2>2. ASSUME NEW h PROVE HandlesProof!Found("scope", t, h) <=> Handles!Found("scope", t, h)
      BY DEF HandlesProof!Found, Handles!Found
    <2>3. HandlesProof!Running(t) <=> Handles!Running(t)
      BY DEF HandlesProof!Running, Handles!Running
    <2>4. HandlesProof!Wrap("scope", zero, none, t, FALSE) = Handles!Wrap("scope", zero, none, t, FALSE)
      BY DEF HandlesProof!Wrap, Handles!Wrap
    <2> QED
      BY <1>3, <1>4, <2>1, <2>2, <2>3, <2>4 DEF HandlesProof!CloneScope, Handles!CloneScope
  <1>7. ASSUME NEW t
        PROVE  /\ HandlesProof!UseEvent(t) <=> Handles!UseEvent(t)
               /\ HandlesProof!UseBreadcrumb(t) <=> Handles!UseBreadcrumb(t)
               /\ HandlesProof!UseScope(t) <=> Handles!UseScope(t)
               /\ HandlesProof!UseLog(t) <=> Handles!UseLog(t)
               /\ HandlesProof!UseMetric(t) <=> Handles!UseMetric(t)
    BY DEF
        HandlesProof!UseEvent, Handles!UseEvent, HandlesProof!Usable, Handles!Usable,
        HandlesProof!Call, Handles!Call, HandlesProof!Running, Handles!Running,
        HandlesProof!Found, Handles!Found, HandlesProof!EventOutcomes, Handles!EventOutcomes,
        HandlesProof!SetOrUnset, Handles!SetOrUnset, HandlesProof!Removing, Handles!Removing,
        HandlesProof!Adding, Handles!Adding, HandlesProof!Content, Handles!Content,
        HandlesProof!Blank, Handles!Blank, HandlesProof!UseBreadcrumb, Handles!UseBreadcrumb,
        HandlesProof!BreadcrumbOutcomes, Handles!BreadcrumbOutcomes, HandlesProof!UseScope,
        Handles!UseScope, HandlesProof!ScopeOutcomes, Handles!ScopeOutcomes, HandlesProof!UseLog,
        Handles!UseLog, HandlesProof!LogOutcomes, Handles!LogOutcomes, HandlesProof!UseMetric,
        Handles!UseMetric, HandlesProof!MetricOutcomes, Handles!MetricOutcomes
  <1>8. ASSUME NEW t
        PROVE  /\ HandlesProof!AddToScope(t) <=> Handles!AddToScope(t)
               /\ HandlesProof!AddBreadcrumb(t) <=> Handles!AddBreadcrumb(t)
               /\ HandlesProof!Destroy(t) <=> Handles!Destroy(t)
               /\ HandlesProof!InitSDK(t) <=> Handles!InitSDK(t)
               /\ HandlesProof!Close(t) <=> Handles!Close(t)
               /\ HandlesProof!WriteGlobal(t) <=> Handles!WriteGlobal(t)
    BY DEF
        HandlesProof!AddToScope, Handles!AddToScope, HandlesProof!Usable, Handles!Usable,
        HandlesProof!Found, Handles!Found, HandlesProof!Call, Handles!Call, HandlesProof!Running,
        Handles!Running, HandlesProof!Content, Handles!Content, HandlesProof!Blank,
        Handles!Blank, HandlesProof!AddBreadcrumb, Handles!AddBreadcrumb, HandlesProof!Destroy,
        Handles!Destroy, HandlesProof!Released, Handles!Released, HandlesProof!Without,
        Handles!Without, HandlesProof!InitSDK, Handles!InitSDK, HandlesProof!DefaultAttachments,
        Handles!DefaultAttachments, HandlesProof!Close, Handles!Close, HandlesProof!WriteGlobal,
        Handles!WriteGlobal, HandlesProof!GlobalOutcomes, Handles!GlobalOutcomes
  <1>9. ASSUME NEW t
        PROVE  /\ HandlesProof!CaptureEvent(t) <=> Handles!CaptureEvent(t)
               /\ HandlesProof!HandlerReturns(t) <=> Handles!HandlerReturns(t)
               /\ HandlesProof!BeforeSendReturns(t) <=> Handles!BeforeSendReturns(t)
    BY <1>2 DEF
        HandlesProof!CaptureEvent, Handles!CaptureEvent, HandlesProof!Usable, Handles!Usable,
        HandlesProof!ScopeHandles, Handles!ScopeHandles, HandlesProof!Running, Handles!Running,
        HandlesProof!Found, Handles!Found, HandlesProof!CombinedAfter, Handles!CombinedAfter,
        HandlesProof!With, Handles!With, HandlesProof!LocalData, Handles!LocalData,
        HandlesProof!Delivery, Handles!Delivery, HandlesProof!BeginCallback,
        Handles!BeginCallback, HandlesProof!Registered, Handles!Registered, HandlesProof!Draw,
        Handles!Draw, HandlesProof!Wrap, Handles!Wrap, HandlesProof!HandlerReturns,
        Handles!HandlerReturns, HandlesProof!Released, Handles!Released, HandlesProof!Without,
        Handles!Without, HandlesProof!BeforeSendReturns, Handles!BeforeSendReturns
  <1>10. ASSUME NEW t, NEW k PROVE HandlesProof!CaptureNew(t, k) <=> Handles!CaptureNew(t, k)
    <2>1. ASSUME NEW o, NEW h, NEW d
          PROVE  HandlesProof!BeginCallback(t, k, o, h, d) <=> Handles!BeginCallback(t, k, o, h, d)
      BY DEF
          HandlesProof!BeginCallback, Handles!BeginCallback, HandlesProof!Registered,
          Handles!Registered, HandlesProof!With, Handles!With, HandlesProof!Draw, Handles!Draw,
          HandlesProof!Wrap, Handles!Wrap
    <2>2. HandlesProof!ScopeHandles(t) = Handles!ScopeHandles(t)
      BY DEF HandlesProof!ScopeHandles, Handles!ScopeHandles, HandlesProof!Usable, Handles!Usable
    <2>3. ASSUME NEW h
          PROVE  /\ HandlesProof!CombinedAfter(t, h) = Handles!CombinedAfter(t, h)
                 /\ HandlesProof!LocalData(t, h) = Handles!LocalData(t, h)
      BY DEF
          HandlesProof!LocalData, Handles!LocalData, HandlesProof!Found, Handles!Found,
          HandlesProof!CombinedAfter, Handles!CombinedAfter, HandlesProof!With, Handles!With
    <2>4. HandlesProof!Delivery = Handles!Delivery /\ (HandlesProof!Running(t) <=> Handles!Running(t))
      BY DEF HandlesProof!Delivery, Handles!Delivery, HandlesProof!Running, Handles!Running
    <2> QED
      BY <1>1, <1>2, <2>1, <2>2, <2>3, <2>4 DEF HandlesProof!CaptureNew, Handles!CaptureNew
  <1> QED
    BY <1>5, <1>6, <1>7, <1>8, <1>9, <1>10, Zenon DEF HandlesProof!Next, Handles!Next

LEMMA HandlesBegins == HandlesProof!Init <=> Handles!Init
  BY DEF
      HandlesProof!Init, Handles!Init, HandlesProof!Blank, Handles!Blank, HandlesProof!Delivery,
      Handles!Delivery, HandlesProof!Delivered!Init, Handles!Delivered!Init

LEMMA HandlesProperties ==
    /\ HandlesProof!HandlesFindTheirOwn <=> Handles!HandlesFindTheirOwn
    /\ HandlesProof!NoHandleLeaks <=> Handles!NoHandleLeaks
  <1>1. HandlesProof!HandlesFindTheirOwn <=> Handles!HandlesFindTheirOwn
    BY DEF
        HandlesProof!HandlesFindTheirOwn, Handles!HandlesFindTheirOwn,
        HandlesProof!OwnedResolves, Handles!OwnedResolves, HandlesProof!NeverAnother,
        Handles!NeverAnother, HandlesProof!CallbackFinds, Handles!CallbackFinds,
        HandlesProof!Found, Handles!Found
  <1>2. HandlesProof!Delivered!TypeOK <=> Handles!Delivered!TypeOK
    BY DEF HandlesProof!Delivered!TypeOK, Handles!Delivered!TypeOK, HandlesProof!Delivered!Stage,
       Handles!Delivered!Stage,
       HandlesProof!Delivery, Handles!Delivery
  <1>3. HandlesProof!TypeOK <=> Handles!TypeOK
    BY <1>2 DEF
        HandlesProof!TypeOK, Handles!TypeOK, HandlesProof!Data, Handles!Data,
        HandlesProof!Wrapper, Handles!Wrapper, HandlesProof!Frame, Handles!Frame,
        HandlesProof!Delivery, Handles!Delivery, HandlesProof!AllKinds, Handles!AllKinds
  <1>4. HandlesProof!NoLeak <=> Handles!NoLeak
    BY DEF HandlesProof!NoLeak, Handles!NoLeak, HandlesProof!Found, Handles!Found
  <1> QED
    BY <1>1, <1>3, <1>4 DEF HandlesProof!NoHandleLeaks, Handles!NoHandleLeaks

-----------------------------------------------------------------------------
(* Wrappers on other threads, with handles that do not repeat.             *)
CrossedProof == INSTANCE AndroidHandlesProofs WITH
    Thread <- Threads, Object <- {o1, o2}, NoObject <- none, Handle <- {zero, h1, h2},
    Zero <- zero, Kinds <- {"event", "log"}, Mark <- {}, FreshHandles <- TRUE,
    CrossThread <- TRUE, MaxDeliveries <- 2, MaxWrappers <- 2, MaxNesting <- 2,
    enabled <- javaEnabled, stage <- javaStage

LEMMA CrossedSteps == CrossedProof!Next <=> Crossed!Next
  <1>1. CrossedProof!Held = Crossed!Held
    BY DEF CrossedProof!Held, Crossed!Held
  <1>2. ASSUME NEW k, NEW t PROVE CrossedProof!Free(k, t) = Crossed!Free(k, t)
    BY DEF CrossedProof!Free, Crossed!Free
  <1>3. CrossedProof!Cardinality(wrappers) = Crossed!Cardinality(wrappers)
    BY DEF CrossedProof!Cardinality, Crossed!Cardinality
  <1>4. ASSUME NEW k, NEW t, NEW d PROVE CrossedProof!New(t, k, d) <=> Crossed!New(t, k, d)
    <2>1. ASSUME NEW o, NEW h
          PROVE  CrossedProof!Registered(k, t, h, o) = Crossed!Registered(k, t, h, o)
      BY DEF CrossedProof!Registered, Crossed!Registered, CrossedProof!With, Crossed!With
    <2>2. ASSUME NEW o, NEW h
          PROVE  CrossedProof!Wrap(k, h, o, t, FALSE) = Crossed!Wrap(k, h, o, t, FALSE)
      BY DEF CrossedProof!Wrap, Crossed!Wrap
    <2>3. ASSUME NEW h PROVE CrossedProof!Draw(h) <=> Crossed!Draw(h)
      BY DEF CrossedProof!Draw, Crossed!Draw
    <2>4. CrossedProof!Running(t) <=> Crossed!Running(t)
      BY DEF CrossedProof!Running, Crossed!Running
    <2> QED
      BY <1>1, <1>2, <1>3, <2>1, <2>2, <2>3, <2>4 DEF CrossedProof!New, Crossed!New
  <1>5. ASSUME NEW t
        PROVE  /\ CrossedProof!CreateEvent(t) <=> Crossed!CreateEvent(t)
               /\ CrossedProof!CreateBreadcrumb(t) <=> Crossed!CreateBreadcrumb(t)
               /\ CrossedProof!CreateScope(t) <=> Crossed!CreateScope(t)
    BY <1>4 DEF
        CrossedProof!CreateEvent, Crossed!CreateEvent, CrossedProof!Blank, Crossed!Blank,
        CrossedProof!CreateBreadcrumb, Crossed!CreateBreadcrumb, CrossedProof!CreateScope,
        Crossed!CreateScope
  <1>6. ASSUME NEW t PROVE CrossedProof!CloneScope(t) <=> Crossed!CloneScope(t)
    <2>1. CrossedProof!Usable(t) = Crossed!Usable(t)
      BY DEF CrossedProof!Usable, Crossed!Usable
    <2>2. ASSUME NEW h PROVE CrossedProof!Found("scope", t, h) <=> Crossed!Found("scope", t, h)
      BY DEF CrossedProof!Found, Crossed!Found
    <2>3. CrossedProof!Running(t) <=> Crossed!Running(t)
      BY DEF CrossedProof!Running, Crossed!Running
    <2>4. CrossedProof!Wrap("scope", zero, none, t, FALSE) = Crossed!Wrap("scope", zero, none, t, FALSE)
      BY DEF CrossedProof!Wrap, Crossed!Wrap
    <2> QED
      BY <1>3, <1>4, <2>1, <2>2, <2>3, <2>4 DEF CrossedProof!CloneScope, Crossed!CloneScope
  <1>7. ASSUME NEW t
        PROVE  /\ CrossedProof!UseEvent(t) <=> Crossed!UseEvent(t)
               /\ CrossedProof!UseBreadcrumb(t) <=> Crossed!UseBreadcrumb(t)
               /\ CrossedProof!UseScope(t) <=> Crossed!UseScope(t)
               /\ CrossedProof!UseLog(t) <=> Crossed!UseLog(t)
               /\ CrossedProof!UseMetric(t) <=> Crossed!UseMetric(t)
    BY DEF
        CrossedProof!UseEvent, Crossed!UseEvent, CrossedProof!Usable, Crossed!Usable,
        CrossedProof!Call, Crossed!Call, CrossedProof!Running, Crossed!Running,
        CrossedProof!Found, Crossed!Found, CrossedProof!EventOutcomes, Crossed!EventOutcomes,
        CrossedProof!SetOrUnset, Crossed!SetOrUnset, CrossedProof!Removing, Crossed!Removing,
        CrossedProof!Adding, Crossed!Adding, CrossedProof!Content, Crossed!Content,
        CrossedProof!Blank, Crossed!Blank, CrossedProof!UseBreadcrumb, Crossed!UseBreadcrumb,
        CrossedProof!BreadcrumbOutcomes, Crossed!BreadcrumbOutcomes, CrossedProof!UseScope,
        Crossed!UseScope, CrossedProof!ScopeOutcomes, Crossed!ScopeOutcomes, CrossedProof!UseLog,
        Crossed!UseLog, CrossedProof!LogOutcomes, Crossed!LogOutcomes, CrossedProof!UseMetric,
        Crossed!UseMetric, CrossedProof!MetricOutcomes, Crossed!MetricOutcomes
  <1>8. ASSUME NEW t
        PROVE  /\ CrossedProof!AddToScope(t) <=> Crossed!AddToScope(t)
               /\ CrossedProof!AddBreadcrumb(t) <=> Crossed!AddBreadcrumb(t)
               /\ CrossedProof!Destroy(t) <=> Crossed!Destroy(t)
               /\ CrossedProof!InitSDK(t) <=> Crossed!InitSDK(t)
               /\ CrossedProof!Close(t) <=> Crossed!Close(t)
               /\ CrossedProof!WriteGlobal(t) <=> Crossed!WriteGlobal(t)
    BY DEF
        CrossedProof!AddToScope, Crossed!AddToScope, CrossedProof!Usable, Crossed!Usable,
        CrossedProof!Found, Crossed!Found, CrossedProof!Call, Crossed!Call, CrossedProof!Running,
        Crossed!Running, CrossedProof!Content, Crossed!Content, CrossedProof!Blank,
        Crossed!Blank, CrossedProof!AddBreadcrumb, Crossed!AddBreadcrumb, CrossedProof!Destroy,
        Crossed!Destroy, CrossedProof!Released, Crossed!Released, CrossedProof!Without,
        Crossed!Without, CrossedProof!InitSDK, Crossed!InitSDK, CrossedProof!DefaultAttachments,
        Crossed!DefaultAttachments, CrossedProof!Close, Crossed!Close, CrossedProof!WriteGlobal,
        Crossed!WriteGlobal, CrossedProof!GlobalOutcomes, Crossed!GlobalOutcomes
  <1>9. ASSUME NEW t
        PROVE  /\ CrossedProof!CaptureEvent(t) <=> Crossed!CaptureEvent(t)
               /\ CrossedProof!HandlerReturns(t) <=> Crossed!HandlerReturns(t)
               /\ CrossedProof!BeforeSendReturns(t) <=> Crossed!BeforeSendReturns(t)
    BY <1>2 DEF
        CrossedProof!CaptureEvent, Crossed!CaptureEvent, CrossedProof!Usable, Crossed!Usable,
        CrossedProof!ScopeHandles, Crossed!ScopeHandles, CrossedProof!Running, Crossed!Running,
        CrossedProof!Found, Crossed!Found, CrossedProof!CombinedAfter, Crossed!CombinedAfter,
        CrossedProof!With, Crossed!With, CrossedProof!LocalData, Crossed!LocalData,
        CrossedProof!Delivery, Crossed!Delivery, CrossedProof!BeginCallback,
        Crossed!BeginCallback, CrossedProof!Registered, Crossed!Registered, CrossedProof!Draw,
        Crossed!Draw, CrossedProof!Wrap, Crossed!Wrap, CrossedProof!HandlerReturns,
        Crossed!HandlerReturns, CrossedProof!Released, Crossed!Released, CrossedProof!Without,
        Crossed!Without, CrossedProof!BeforeSendReturns, Crossed!BeforeSendReturns
  <1>10. ASSUME NEW t, NEW k PROVE CrossedProof!CaptureNew(t, k) <=> Crossed!CaptureNew(t, k)
    <2>1. ASSUME NEW o, NEW h, NEW d
          PROVE  CrossedProof!BeginCallback(t, k, o, h, d) <=> Crossed!BeginCallback(t, k, o, h, d)
      BY DEF
          CrossedProof!BeginCallback, Crossed!BeginCallback, CrossedProof!Registered,
          Crossed!Registered, CrossedProof!With, Crossed!With, CrossedProof!Draw, Crossed!Draw,
          CrossedProof!Wrap, Crossed!Wrap
    <2>2. CrossedProof!ScopeHandles(t) = Crossed!ScopeHandles(t)
      BY DEF CrossedProof!ScopeHandles, Crossed!ScopeHandles, CrossedProof!Usable, Crossed!Usable
    <2>3. ASSUME NEW h
          PROVE  /\ CrossedProof!CombinedAfter(t, h) = Crossed!CombinedAfter(t, h)
                 /\ CrossedProof!LocalData(t, h) = Crossed!LocalData(t, h)
      BY DEF
          CrossedProof!LocalData, Crossed!LocalData, CrossedProof!Found, Crossed!Found,
          CrossedProof!CombinedAfter, Crossed!CombinedAfter, CrossedProof!With, Crossed!With
    <2>4. CrossedProof!Delivery = Crossed!Delivery /\ (CrossedProof!Running(t) <=> Crossed!Running(t))
      BY DEF CrossedProof!Delivery, Crossed!Delivery, CrossedProof!Running, Crossed!Running
    <2> QED
      BY <1>1, <1>2, <2>1, <2>2, <2>3, <2>4 DEF CrossedProof!CaptureNew, Crossed!CaptureNew
  <1> QED
    BY <1>5, <1>6, <1>7, <1>8, <1>9, <1>10, Zenon DEF CrossedProof!Next, Crossed!Next

LEMMA CrossedBegins == CrossedProof!Init <=> Crossed!Init
  BY DEF
      CrossedProof!Init, Crossed!Init, CrossedProof!Blank, Crossed!Blank, CrossedProof!Delivery,
      Crossed!Delivery, CrossedProof!Delivered!Init, Crossed!Delivered!Init

LEMMA CrossedProperties ==
    /\ CrossedProof!HandlesFindTheirOwn <=> Crossed!HandlesFindTheirOwn
    /\ CrossedProof!NoHandleLeaks <=> Crossed!NoHandleLeaks
  <1>1. CrossedProof!HandlesFindTheirOwn <=> Crossed!HandlesFindTheirOwn
    BY DEF
        CrossedProof!HandlesFindTheirOwn, Crossed!HandlesFindTheirOwn,
        CrossedProof!OwnedResolves, Crossed!OwnedResolves, CrossedProof!NeverAnother,
        Crossed!NeverAnother, CrossedProof!CallbackFinds, Crossed!CallbackFinds,
        CrossedProof!Found, Crossed!Found
  <1>2. CrossedProof!Delivered!TypeOK <=> Crossed!Delivered!TypeOK
    BY DEF CrossedProof!Delivered!TypeOK, Crossed!Delivered!TypeOK, CrossedProof!Delivered!Stage,
       Crossed!Delivered!Stage,
       CrossedProof!Delivery, Crossed!Delivery
  <1>3. CrossedProof!TypeOK <=> Crossed!TypeOK
    BY <1>2 DEF
        CrossedProof!TypeOK, Crossed!TypeOK, CrossedProof!Data, Crossed!Data,
        CrossedProof!Wrapper, Crossed!Wrapper, CrossedProof!Frame, Crossed!Frame,
        CrossedProof!Delivery, Crossed!Delivery, CrossedProof!AllKinds, Crossed!AllKinds
  <1>4. CrossedProof!NoLeak <=> Crossed!NoLeak
    BY DEF CrossedProof!NoLeak, Crossed!NoLeak, CrossedProof!Found, Crossed!Found
  <1> QED
    BY <1>1, <1>3, <1>4 DEF CrossedProof!NoHandleLeaks, Crossed!NoHandleLeaks

-----------------------------------------------------------------------------
(* Objects that are written to and put into scopes.                        *)
FilledProof == INSTANCE AndroidHandlesProofs WITH
    Thread <- {main}, Object <- {o1, o2}, NoObject <- none, Handle <- {zero, h1, h2},
    Zero <- zero, Kinds <- {"breadcrumb", "scope", "metric"}, Mark <- {mark},
    FreshHandles <- FALSE, CrossThread <- FALSE, MaxDeliveries <- 1, MaxWrappers <- 3,
    MaxNesting <- 2,
    enabled <- javaEnabled, stage <- javaStage

LEMMA FilledSteps == FilledProof!Next <=> Filled!Next
  <1>1. FilledProof!Held = Filled!Held
    BY DEF FilledProof!Held, Filled!Held
  <1>2. ASSUME NEW k, NEW t PROVE FilledProof!Free(k, t) = Filled!Free(k, t)
    BY DEF FilledProof!Free, Filled!Free
  <1>3. FilledProof!Cardinality(wrappers) = Filled!Cardinality(wrappers)
    BY DEF FilledProof!Cardinality, Filled!Cardinality
  <1>4. ASSUME NEW k, NEW t, NEW d PROVE FilledProof!New(t, k, d) <=> Filled!New(t, k, d)
    <2>1. ASSUME NEW o, NEW h
          PROVE  FilledProof!Registered(k, t, h, o) = Filled!Registered(k, t, h, o)
      BY DEF FilledProof!Registered, Filled!Registered, FilledProof!With, Filled!With
    <2>2. ASSUME NEW o, NEW h
          PROVE  FilledProof!Wrap(k, h, o, t, FALSE) = Filled!Wrap(k, h, o, t, FALSE)
      BY DEF FilledProof!Wrap, Filled!Wrap
    <2>3. ASSUME NEW h PROVE FilledProof!Draw(h) <=> Filled!Draw(h)
      BY DEF FilledProof!Draw, Filled!Draw
    <2>4. FilledProof!Running(t) <=> Filled!Running(t)
      BY DEF FilledProof!Running, Filled!Running
    <2> QED
      BY <1>1, <1>2, <1>3, <2>1, <2>2, <2>3, <2>4 DEF FilledProof!New, Filled!New
  <1>5. ASSUME NEW t
        PROVE  /\ FilledProof!CreateEvent(t) <=> Filled!CreateEvent(t)
               /\ FilledProof!CreateBreadcrumb(t) <=> Filled!CreateBreadcrumb(t)
               /\ FilledProof!CreateScope(t) <=> Filled!CreateScope(t)
    BY <1>4 DEF
        FilledProof!CreateEvent, Filled!CreateEvent, FilledProof!Blank, Filled!Blank,
        FilledProof!CreateBreadcrumb, Filled!CreateBreadcrumb, FilledProof!CreateScope,
        Filled!CreateScope
  <1>6. ASSUME NEW t PROVE FilledProof!CloneScope(t) <=> Filled!CloneScope(t)
    <2>1. FilledProof!Usable(t) = Filled!Usable(t)
      BY DEF FilledProof!Usable, Filled!Usable
    <2>2. ASSUME NEW h PROVE FilledProof!Found("scope", t, h) <=> Filled!Found("scope", t, h)
      BY DEF FilledProof!Found, Filled!Found
    <2>3. FilledProof!Running(t) <=> Filled!Running(t)
      BY DEF FilledProof!Running, Filled!Running
    <2>4. FilledProof!Wrap("scope", zero, none, t, FALSE) = Filled!Wrap("scope", zero, none, t, FALSE)
      BY DEF FilledProof!Wrap, Filled!Wrap
    <2> QED
      BY <1>3, <1>4, <2>1, <2>2, <2>3, <2>4 DEF FilledProof!CloneScope, Filled!CloneScope
  <1>7. ASSUME NEW t
        PROVE  /\ FilledProof!UseEvent(t) <=> Filled!UseEvent(t)
               /\ FilledProof!UseBreadcrumb(t) <=> Filled!UseBreadcrumb(t)
               /\ FilledProof!UseScope(t) <=> Filled!UseScope(t)
               /\ FilledProof!UseLog(t) <=> Filled!UseLog(t)
               /\ FilledProof!UseMetric(t) <=> Filled!UseMetric(t)
    BY DEF
        FilledProof!UseEvent, Filled!UseEvent, FilledProof!Usable, Filled!Usable,
        FilledProof!Call, Filled!Call, FilledProof!Running, Filled!Running, FilledProof!Found,
        Filled!Found, FilledProof!EventOutcomes, Filled!EventOutcomes, FilledProof!SetOrUnset,
        Filled!SetOrUnset, FilledProof!Removing, Filled!Removing, FilledProof!Adding,
        Filled!Adding, FilledProof!Content, Filled!Content, FilledProof!Blank, Filled!Blank,
        FilledProof!UseBreadcrumb, Filled!UseBreadcrumb, FilledProof!BreadcrumbOutcomes,
        Filled!BreadcrumbOutcomes, FilledProof!UseScope, Filled!UseScope,
        FilledProof!ScopeOutcomes, Filled!ScopeOutcomes, FilledProof!UseLog, Filled!UseLog,
        FilledProof!LogOutcomes, Filled!LogOutcomes, FilledProof!UseMetric, Filled!UseMetric,
        FilledProof!MetricOutcomes, Filled!MetricOutcomes
  <1>8. ASSUME NEW t
        PROVE  /\ FilledProof!AddToScope(t) <=> Filled!AddToScope(t)
               /\ FilledProof!AddBreadcrumb(t) <=> Filled!AddBreadcrumb(t)
               /\ FilledProof!Destroy(t) <=> Filled!Destroy(t)
               /\ FilledProof!InitSDK(t) <=> Filled!InitSDK(t)
               /\ FilledProof!Close(t) <=> Filled!Close(t)
               /\ FilledProof!WriteGlobal(t) <=> Filled!WriteGlobal(t)
    BY DEF
        FilledProof!AddToScope, Filled!AddToScope, FilledProof!Usable, Filled!Usable,
        FilledProof!Found, Filled!Found, FilledProof!Call, Filled!Call, FilledProof!Running,
        Filled!Running, FilledProof!Content, Filled!Content, FilledProof!Blank, Filled!Blank,
        FilledProof!AddBreadcrumb, Filled!AddBreadcrumb, FilledProof!Destroy, Filled!Destroy,
        FilledProof!Released, Filled!Released, FilledProof!Without, Filled!Without,
        FilledProof!InitSDK, Filled!InitSDK, FilledProof!DefaultAttachments,
        Filled!DefaultAttachments, FilledProof!Close, Filled!Close, FilledProof!WriteGlobal,
        Filled!WriteGlobal, FilledProof!GlobalOutcomes, Filled!GlobalOutcomes
  <1>9. ASSUME NEW t
        PROVE  /\ FilledProof!CaptureEvent(t) <=> Filled!CaptureEvent(t)
               /\ FilledProof!HandlerReturns(t) <=> Filled!HandlerReturns(t)
               /\ FilledProof!BeforeSendReturns(t) <=> Filled!BeforeSendReturns(t)
    BY <1>2 DEF
        FilledProof!CaptureEvent, Filled!CaptureEvent, FilledProof!Usable, Filled!Usable,
        FilledProof!ScopeHandles, Filled!ScopeHandles, FilledProof!Running, Filled!Running,
        FilledProof!Found, Filled!Found, FilledProof!CombinedAfter, Filled!CombinedAfter,
        FilledProof!With, Filled!With, FilledProof!LocalData, Filled!LocalData,
        FilledProof!Delivery, Filled!Delivery, FilledProof!BeginCallback, Filled!BeginCallback,
        FilledProof!Registered, Filled!Registered, FilledProof!Draw, Filled!Draw,
        FilledProof!Wrap, Filled!Wrap, FilledProof!HandlerReturns, Filled!HandlerReturns,
        FilledProof!Released, Filled!Released, FilledProof!Without, Filled!Without,
        FilledProof!BeforeSendReturns, Filled!BeforeSendReturns
  <1>10. ASSUME NEW t, NEW k PROVE FilledProof!CaptureNew(t, k) <=> Filled!CaptureNew(t, k)
    <2>1. ASSUME NEW o, NEW h, NEW d
          PROVE  FilledProof!BeginCallback(t, k, o, h, d) <=> Filled!BeginCallback(t, k, o, h, d)
      BY DEF
          FilledProof!BeginCallback, Filled!BeginCallback, FilledProof!Registered,
          Filled!Registered, FilledProof!With, Filled!With, FilledProof!Draw, Filled!Draw,
          FilledProof!Wrap, Filled!Wrap
    <2>2. FilledProof!ScopeHandles(t) = Filled!ScopeHandles(t)
      BY DEF FilledProof!ScopeHandles, Filled!ScopeHandles, FilledProof!Usable, Filled!Usable
    <2>3. ASSUME NEW h
          PROVE  /\ FilledProof!CombinedAfter(t, h) = Filled!CombinedAfter(t, h)
                 /\ FilledProof!LocalData(t, h) = Filled!LocalData(t, h)
      BY DEF
          FilledProof!LocalData, Filled!LocalData, FilledProof!Found, Filled!Found,
          FilledProof!CombinedAfter, Filled!CombinedAfter, FilledProof!With, Filled!With
    <2>4. FilledProof!Delivery = Filled!Delivery /\ (FilledProof!Running(t) <=> Filled!Running(t))
      BY DEF FilledProof!Delivery, Filled!Delivery, FilledProof!Running, Filled!Running
    <2> QED
      BY <1>1, <1>2, <2>1, <2>2, <2>3, <2>4 DEF FilledProof!CaptureNew, Filled!CaptureNew
  <1> QED
    BY <1>5, <1>6, <1>7, <1>8, <1>9, <1>10, Zenon DEF FilledProof!Next, Filled!Next

LEMMA FilledBegins == FilledProof!Init <=> Filled!Init
  BY DEF
      FilledProof!Init, Filled!Init, FilledProof!Blank, Filled!Blank, FilledProof!Delivery,
      Filled!Delivery, FilledProof!Delivered!Init, Filled!Delivered!Init

LEMMA FilledProperties ==
    /\ FilledProof!HandlesFindTheirOwn <=> Filled!HandlesFindTheirOwn
    /\ FilledProof!NoHandleLeaks <=> Filled!NoHandleLeaks
  <1>1. FilledProof!HandlesFindTheirOwn <=> Filled!HandlesFindTheirOwn
    BY DEF
        FilledProof!HandlesFindTheirOwn, Filled!HandlesFindTheirOwn, FilledProof!OwnedResolves,
        Filled!OwnedResolves, FilledProof!NeverAnother, Filled!NeverAnother,
        FilledProof!CallbackFinds, Filled!CallbackFinds, FilledProof!Found, Filled!Found
  <1>2. FilledProof!Delivered!TypeOK <=> Filled!Delivered!TypeOK
    BY DEF FilledProof!Delivered!TypeOK, Filled!Delivered!TypeOK, FilledProof!Delivered!Stage,
       Filled!Delivered!Stage,
       FilledProof!Delivery, Filled!Delivery
  <1>3. FilledProof!TypeOK <=> Filled!TypeOK
    BY <1>2 DEF
        FilledProof!TypeOK, Filled!TypeOK, FilledProof!Data, Filled!Data, FilledProof!Wrapper,
        Filled!Wrapper, FilledProof!Frame, Filled!Frame, FilledProof!Delivery, Filled!Delivery,
        FilledProof!AllKinds, Filled!AllKinds
  <1>4. FilledProof!NoLeak <=> Filled!NoLeak
    BY DEF FilledProof!NoLeak, Filled!NoLeak, FilledProof!Found, Filled!Found
  <1> QED
    BY <1>1, <1>3, <1>4 DEF FilledProof!NoHandleLeaks, Filled!NoHandleLeaks

-----------------------------------------------------------------------------
(* Threads with tags of their own.                                         *)
SyncedProof == INSTANCE ScopeSyncProofs WITH
    Keys <- {k1, k2}, Values <- {v}, None <- none, MaxCalls <- 2,
    KeysOf <- main :> {k1} @@ worker :> {k2}, UserThreads <- {main}, InCallbacks <- {},
    InCaptures <- {}, scopes <- layerScopes, current <- currentCall

LEMMA SyncedSteps == SyncedProof!Next <=> Synced!Next
  <1>1. ASSUME NEW t PROVE SyncedProof!Call(t) <=> Synced!Call(t)
    BY DEF
        SyncedProof!Call, Synced!Call, SyncedProof!Layers, Synced!Layers, SyncedProof!OpsOf,
        Synced!OpsOf, SyncedProof!SetTag, Synced!SetTag, SyncedProof!RemoveTag, Synced!RemoveTag,
        SyncedProof!Breadcrumb, Synced!Breadcrumb, SyncedProof!SetUser, Synced!SetUser,
        SyncedProof!RemoveUser, Synced!RemoveUser, SyncedProof!SetTrace, Synced!SetTrace,
        SyncedProof!Frame, Synced!Frame
  <1>2. ASSUME NEW t PROVE SyncedProof!Capture(t) <=> Synced!Capture(t)
    BY DEF
        SyncedProof!Capture, Synced!Capture, SyncedProof!OpsOf, Synced!OpsOf, SyncedProof!SetTag,
        Synced!SetTag, SyncedProof!RemoveTag, Synced!RemoveTag, SyncedProof!Breadcrumb,
        Synced!Breadcrumb, SyncedProof!SetUser, Synced!SetUser, SyncedProof!RemoveUser,
        Synced!RemoveUser, SyncedProof!SetTrace, Synced!SetTrace, SyncedProof!Frame, Synced!Frame
  <1>3. ASSUME NEW t PROVE SyncedProof!BeforeSend(t) <=> Synced!BeforeSend(t)
    BY DEF
        SyncedProof!BeforeSend, Synced!BeforeSend, SyncedProof!At, Synced!At, SyncedProof!Top,
        Synced!Top, SyncedProof!With, Synced!With, SyncedProof!Frame, Synced!Frame,
        SyncedProof!SetTag, Synced!SetTag
  <1>4. ASSUME NEW t PROVE SyncedProof!BeforeBreadcrumb(t) <=> Synced!BeforeBreadcrumb(t)
    BY DEF
        SyncedProof!BeforeBreadcrumb, Synced!BeforeBreadcrumb, SyncedProof!At, Synced!At,
        SyncedProof!Top, Synced!Top, SyncedProof!Breadcrumb, Synced!Breadcrumb, SyncedProof!With,
        Synced!With, SyncedProof!Frame, Synced!Frame, SyncedProof!SetTag, Synced!SetTag
  <1>5. ASSUME NEW t PROVE SyncedProof!Apply(t) <=> Synced!Apply(t)
    BY DEF
        SyncedProof!Apply, Synced!Apply, SyncedProof!At, Synced!At, SyncedProof!Top, Synced!Top,
        SyncedProof!Applied, Synced!Applied, SyncedProof!With, Synced!With
  <1>6. ASSUME NEW t PROVE SyncedProof!Forward(t) <=> Synced!Forward(t)
    BY DEF
        SyncedProof!Forward, Synced!Forward, SyncedProof!At, Synced!At, SyncedProof!Top,
        Synced!Top, SyncedProof!Forwards, Synced!Forwards, SyncedProof!IsSyncing,
        Synced!IsSyncing, SyncedProof!Layers, Synced!Layers, SyncedProof!With, Synced!With,
        SyncedProof!Frame, Synced!Frame, SyncedProof!Other, Synced!Other
  <1>7. ASSUME NEW t PROVE SyncedProof!Ignore(t) <=> Synced!Ignore(t)
    BY DEF
        SyncedProof!Ignore, Synced!Ignore, SyncedProof!At, Synced!At, SyncedProof!Top,
        Synced!Top, SyncedProof!Forwards, Synced!Forwards, SyncedProof!IsSyncing,
        Synced!IsSyncing, SyncedProof!With, Synced!With
  <1>8. ASSUME NEW t PROVE SyncedProof!Return(t) <=> Synced!Return(t)
    BY DEF
        SyncedProof!Return, Synced!Return, SyncedProof!At, Synced!At, SyncedProof!Top,
        Synced!Top, SyncedProof!With, Synced!With
  <1>9. ASSUME NEW t PROVE SyncedProof!Leave(t) <=> Synced!Leave(t)
    BY DEF
        SyncedProof!Leave, Synced!Leave, SyncedProof!At, Synced!At, SyncedProof!Top, Synced!Top,
        SyncedProof!Released, Synced!Released
  <1> QED
    BY <1>1, <1>2, <1>3, <1>4, <1>5, <1>6, <1>7, <1>8, <1>9, Zenon DEF SyncedProof!Next, Synced!Next

LEMMA SyncedBegins == SyncedProof!Init <=> Synced!Init
  BY DEF
      SyncedProof!Init, Synced!Init, SyncedProof!Layers, Synced!Layers, SyncedProof!Fresh,
      Synced!Fresh

LEMMA SyncedProperties == SyncedProof!LayersInStep <=> Synced!LayersInStep
  BY DEF
      SyncedProof!LayersInStep, Synced!LayersInStep, SyncedProof!TypeOK, Synced!TypeOK,
      SyncedProof!Layers, Synced!Layers, SyncedProof!GuardsReleased, Synced!GuardsReleased,
      SyncedProof!Separate, Synced!Separate, SyncedProof!NoCallbacks, Synced!NoCallbacks,
      SyncedProof!LayersAgree, Synced!LayersAgree, SyncedProof!AtRest, Synced!AtRest

LEMMA SyncedAssumption == Synced!ScopeSyncAssumption => SyncedProof!ScopeSyncAssumption
  <1>1. ASSUME NEW layer, NEW t PROVE SyncedProof!OpsOf(layer, t) = Synced!OpsOf(layer, t)
    BY DEF
        SyncedProof!OpsOf, Synced!OpsOf, SyncedProof!SetTag, Synced!SetTag,
        SyncedProof!RemoveTag, Synced!RemoveTag, SyncedProof!Breadcrumb, Synced!Breadcrumb,
        SyncedProof!SetUser, Synced!SetUser, SyncedProof!RemoveUser, Synced!RemoveUser,
        SyncedProof!SetTrace, Synced!SetTrace
  <1>2. SyncedProof!AllOps = Synced!AllOps
    BY <1>1 DEF SyncedProof!AllOps, Synced!AllOps
  <1>3. SyncedProof!IsFiniteSet(Threads) <=> Synced!IsFiniteSet(Threads)
    BY DEF SyncedProof!IsFiniteSet, Synced!IsFiniteSet
  <1> QED
    BY <1>2, <1>3 DEF SyncedProof!ScopeSyncAssumption, Synced!ScopeSyncAssumption

-----------------------------------------------------------------------------
(* Callbacks that set a tag as well.                                       *)
SyncedCallbacksProof == INSTANCE ScopeSyncProofs WITH
    Keys <- {k1, k2}, Values <- {v}, None <- none, MaxCalls <- 2,
    KeysOf <- main :> {k1} @@ worker :> {k2}, UserThreads <- {}, InCallbacks <- {k2},
    InCaptures <- {k2}, scopes <- layerScopes, current <- currentCall

LEMMA SyncedCallbacksSteps == SyncedCallbacksProof!Next <=> SyncedCallbacks!Next
  <1>1. ASSUME NEW t PROVE SyncedCallbacksProof!Call(t) <=> SyncedCallbacks!Call(t)
    BY DEF
        SyncedCallbacksProof!Call, SyncedCallbacks!Call, SyncedCallbacksProof!Layers,
        SyncedCallbacks!Layers, SyncedCallbacksProof!OpsOf, SyncedCallbacks!OpsOf,
        SyncedCallbacksProof!SetTag, SyncedCallbacks!SetTag, SyncedCallbacksProof!RemoveTag,
        SyncedCallbacks!RemoveTag, SyncedCallbacksProof!Breadcrumb, SyncedCallbacks!Breadcrumb,
        SyncedCallbacksProof!SetUser, SyncedCallbacks!SetUser, SyncedCallbacksProof!RemoveUser,
        SyncedCallbacks!RemoveUser, SyncedCallbacksProof!SetTrace, SyncedCallbacks!SetTrace,
        SyncedCallbacksProof!Frame, SyncedCallbacks!Frame
  <1>2. ASSUME NEW t PROVE SyncedCallbacksProof!Capture(t) <=> SyncedCallbacks!Capture(t)
    BY DEF
        SyncedCallbacksProof!Capture, SyncedCallbacks!Capture, SyncedCallbacksProof!OpsOf,
        SyncedCallbacks!OpsOf, SyncedCallbacksProof!SetTag, SyncedCallbacks!SetTag,
        SyncedCallbacksProof!RemoveTag, SyncedCallbacks!RemoveTag,
        SyncedCallbacksProof!Breadcrumb, SyncedCallbacks!Breadcrumb,
        SyncedCallbacksProof!SetUser, SyncedCallbacks!SetUser, SyncedCallbacksProof!RemoveUser,
        SyncedCallbacks!RemoveUser, SyncedCallbacksProof!SetTrace, SyncedCallbacks!SetTrace,
        SyncedCallbacksProof!Frame, SyncedCallbacks!Frame
  <1>3. ASSUME NEW t PROVE SyncedCallbacksProof!BeforeSend(t) <=> SyncedCallbacks!BeforeSend(t)
    BY DEF
        SyncedCallbacksProof!BeforeSend, SyncedCallbacks!BeforeSend, SyncedCallbacksProof!At,
        SyncedCallbacks!At, SyncedCallbacksProof!Top, SyncedCallbacks!Top,
        SyncedCallbacksProof!With, SyncedCallbacks!With, SyncedCallbacksProof!Frame,
        SyncedCallbacks!Frame, SyncedCallbacksProof!SetTag, SyncedCallbacks!SetTag
  <1>4. ASSUME NEW t
        PROVE  SyncedCallbacksProof!BeforeBreadcrumb(t) <=> SyncedCallbacks!BeforeBreadcrumb(t)
    BY DEF
        SyncedCallbacksProof!BeforeBreadcrumb, SyncedCallbacks!BeforeBreadcrumb,
        SyncedCallbacksProof!At, SyncedCallbacks!At, SyncedCallbacksProof!Top,
        SyncedCallbacks!Top, SyncedCallbacksProof!Breadcrumb, SyncedCallbacks!Breadcrumb,
        SyncedCallbacksProof!With, SyncedCallbacks!With, SyncedCallbacksProof!Frame,
        SyncedCallbacks!Frame, SyncedCallbacksProof!SetTag, SyncedCallbacks!SetTag
  <1>5. ASSUME NEW t PROVE SyncedCallbacksProof!Apply(t) <=> SyncedCallbacks!Apply(t)
    BY DEF
        SyncedCallbacksProof!Apply, SyncedCallbacks!Apply, SyncedCallbacksProof!At,
        SyncedCallbacks!At, SyncedCallbacksProof!Top, SyncedCallbacks!Top,
        SyncedCallbacksProof!Applied, SyncedCallbacks!Applied, SyncedCallbacksProof!With,
        SyncedCallbacks!With
  <1>6. ASSUME NEW t PROVE SyncedCallbacksProof!Forward(t) <=> SyncedCallbacks!Forward(t)
    BY DEF
        SyncedCallbacksProof!Forward, SyncedCallbacks!Forward, SyncedCallbacksProof!At,
        SyncedCallbacks!At, SyncedCallbacksProof!Top, SyncedCallbacks!Top,
        SyncedCallbacksProof!Forwards, SyncedCallbacks!Forwards, SyncedCallbacksProof!IsSyncing,
        SyncedCallbacks!IsSyncing, SyncedCallbacksProof!Layers, SyncedCallbacks!Layers,
        SyncedCallbacksProof!With, SyncedCallbacks!With, SyncedCallbacksProof!Frame,
        SyncedCallbacks!Frame, SyncedCallbacksProof!Other, SyncedCallbacks!Other
  <1>7. ASSUME NEW t PROVE SyncedCallbacksProof!Ignore(t) <=> SyncedCallbacks!Ignore(t)
    BY DEF
        SyncedCallbacksProof!Ignore, SyncedCallbacks!Ignore, SyncedCallbacksProof!At,
        SyncedCallbacks!At, SyncedCallbacksProof!Top, SyncedCallbacks!Top,
        SyncedCallbacksProof!Forwards, SyncedCallbacks!Forwards, SyncedCallbacksProof!IsSyncing,
        SyncedCallbacks!IsSyncing, SyncedCallbacksProof!With, SyncedCallbacks!With
  <1>8. ASSUME NEW t PROVE SyncedCallbacksProof!Return(t) <=> SyncedCallbacks!Return(t)
    BY DEF
        SyncedCallbacksProof!Return, SyncedCallbacks!Return, SyncedCallbacksProof!At,
        SyncedCallbacks!At, SyncedCallbacksProof!Top, SyncedCallbacks!Top,
        SyncedCallbacksProof!With, SyncedCallbacks!With
  <1>9. ASSUME NEW t PROVE SyncedCallbacksProof!Leave(t) <=> SyncedCallbacks!Leave(t)
    BY DEF
        SyncedCallbacksProof!Leave, SyncedCallbacks!Leave, SyncedCallbacksProof!At,
        SyncedCallbacks!At, SyncedCallbacksProof!Top, SyncedCallbacks!Top,
        SyncedCallbacksProof!Released, SyncedCallbacks!Released
  <1> QED
    BY <1>1, <1>2, <1>3, <1>4, <1>5, <1>6, <1>7, <1>8, <1>9, Zenon DEF SyncedCallbacksProof!Next, SyncedCallbacks!Next

LEMMA SyncedCallbacksBegins == SyncedCallbacksProof!Init <=> SyncedCallbacks!Init
  BY DEF
      SyncedCallbacksProof!Init, SyncedCallbacks!Init, SyncedCallbacksProof!Layers,
      SyncedCallbacks!Layers, SyncedCallbacksProof!Fresh, SyncedCallbacks!Fresh

LEMMA SyncedCallbacksProperties == SyncedCallbacksProof!LayersInStep <=> SyncedCallbacks!LayersInStep
  BY DEF
      SyncedCallbacksProof!LayersInStep, SyncedCallbacks!LayersInStep,
      SyncedCallbacksProof!TypeOK, SyncedCallbacks!TypeOK, SyncedCallbacksProof!Layers,
      SyncedCallbacks!Layers, SyncedCallbacksProof!GuardsReleased,
      SyncedCallbacks!GuardsReleased, SyncedCallbacksProof!Separate, SyncedCallbacks!Separate,
      SyncedCallbacksProof!NoCallbacks, SyncedCallbacks!NoCallbacks,
      SyncedCallbacksProof!LayersAgree, SyncedCallbacks!LayersAgree, SyncedCallbacksProof!AtRest,
      SyncedCallbacks!AtRest

LEMMA SyncedCallbacksAssumption ==
    SyncedCallbacks!ScopeSyncAssumption => SyncedCallbacksProof!ScopeSyncAssumption
  <1>1. ASSUME NEW layer, NEW t
        PROVE  SyncedCallbacksProof!OpsOf(layer, t) = SyncedCallbacks!OpsOf(layer, t)
    BY DEF
        SyncedCallbacksProof!OpsOf, SyncedCallbacks!OpsOf, SyncedCallbacksProof!SetTag,
        SyncedCallbacks!SetTag, SyncedCallbacksProof!RemoveTag, SyncedCallbacks!RemoveTag,
        SyncedCallbacksProof!Breadcrumb, SyncedCallbacks!Breadcrumb,
        SyncedCallbacksProof!SetUser, SyncedCallbacks!SetUser, SyncedCallbacksProof!RemoveUser,
        SyncedCallbacks!RemoveUser, SyncedCallbacksProof!SetTrace, SyncedCallbacks!SetTrace
  <1>2. SyncedCallbacksProof!AllOps = SyncedCallbacks!AllOps
    BY <1>1 DEF SyncedCallbacksProof!AllOps, SyncedCallbacks!AllOps
  <1>3. SyncedCallbacksProof!IsFiniteSet(Threads) <=> SyncedCallbacks!IsFiniteSet(Threads)
    BY DEF SyncedCallbacksProof!IsFiniteSet, SyncedCallbacks!IsFiniteSet
  <1> QED
    BY <1>2, <1>3 DEF SyncedCallbacksProof!ScopeSyncAssumption, SyncedCallbacks!ScopeSyncAssumption

-----------------------------------------------------------------------------
(***************************************************************************)
(* The boundaries together: a program that has one of them takes the steps *)
(* of its module, or none of it.                                           *)
(***************************************************************************)
LEMMA SetupStays ==
    ASSUME NEW s
    PROVE  [BoundaryNext]_boundaryVars => ((setup = s) => (setup = s)') /\ (~ (setup = s) => ~ (setup = s)')
  BY DEF BoundaryNext, AndroidStep, JsStep, SyncStep, boundaryVars

LEMMA HandlesStand ==
    BoundarySpec => [](setup = "handles" => Handles!HandlesFindTheirOwn /\ Handles!NoHandleLeaks)
  <1> DEFINE here == setup = "handles"
  <1>1. here /\ BoundaryInit => HandlesProof!Init
    BY HandlesBegins DEF BoundaryInit, JsSetups
  <1>2. here /\ [BoundaryNext]_boundaryVars => [HandlesProof!Next]_(HandlesProof!vars)
    <2>1. here /\ [BoundaryNext]_boundaryVars => Handles!Next \/ UNCHANGED androidVars
      BY DEF BoundaryNext, AndroidStep, JsStep, SyncStep, boundaryVars
    <2>2. UNCHANGED androidVars => UNCHANGED HandlesProof!vars
      BY DEF androidVars, HandlesProof!vars
    <2> QED
      BY <2>1, <2>2, HandlesSteps
  <1>3. [BoundaryNext]_boundaryVars => (here => here') /\ (~ here => ~ here')
    BY SetupStays
  <1>4. HandlesProof!AndroidAssumption
    BY BoundaryAssumption DEF HandlesProof!AndroidAssumption, Handles!AndroidAssumption, HandlesProof!AllKinds,
       Handles!AllKinds
  <1>5. /\ HandlesProof!Steps => []HandlesProof!HandlesFindTheirOwn
        /\ HandlesProof!Steps => []HandlesProof!NoHandleLeaks
    BY <1>4, HandlesProof!StepsFindOwn, HandlesProof!StepsLeakNothing
  <1>6. HandlesProof!HandlesFindTheirOwn /\ HandlesProof!NoHandleLeaks
          => Handles!HandlesFindTheirOwn /\ Handles!NoHandleLeaks
    BY HandlesProperties
  <1> HIDE DEF here
  <1>7. BoundarySpec => [](here => Handles!HandlesFindTheirOwn /\ Handles!NoHandleLeaks)
    BY <1>1, <1>2, <1>3, <1>5, <1>6, PTL DEF BoundarySpec, HandlesProof!Steps
  <1> QED
    BY <1>7 DEF here

LEMMA CrossedStand ==
    BoundarySpec => [](setup = "crossed" => Crossed!HandlesFindTheirOwn /\ Crossed!NoHandleLeaks)
  <1> DEFINE here == setup = "crossed"
  <1>1. here /\ BoundaryInit => CrossedProof!Init
    BY CrossedBegins DEF BoundaryInit, JsSetups
  <1>2. here /\ [BoundaryNext]_boundaryVars => [CrossedProof!Next]_(CrossedProof!vars)
    <2>1. here /\ [BoundaryNext]_boundaryVars => Crossed!Next \/ UNCHANGED androidVars
      BY DEF BoundaryNext, AndroidStep, JsStep, SyncStep, boundaryVars
    <2>2. UNCHANGED androidVars => UNCHANGED CrossedProof!vars
      BY DEF androidVars, CrossedProof!vars
    <2> QED
      BY <2>1, <2>2, CrossedSteps
  <1>3. [BoundaryNext]_boundaryVars => (here => here') /\ (~ here => ~ here')
    BY SetupStays
  <1>4. CrossedProof!AndroidAssumption
    BY BoundaryAssumption DEF CrossedProof!AndroidAssumption, Crossed!AndroidAssumption, CrossedProof!AllKinds,
       Crossed!AllKinds
  <1>5. /\ CrossedProof!Steps => []CrossedProof!HandlesFindTheirOwn
        /\ CrossedProof!Steps => []CrossedProof!NoHandleLeaks
    BY <1>4, CrossedProof!StepsFindOwn, CrossedProof!StepsLeakNothing
  <1>6. CrossedProof!HandlesFindTheirOwn /\ CrossedProof!NoHandleLeaks
          => Crossed!HandlesFindTheirOwn /\ Crossed!NoHandleLeaks
    BY CrossedProperties
  <1> HIDE DEF here
  <1>7. BoundarySpec => [](here => Crossed!HandlesFindTheirOwn /\ Crossed!NoHandleLeaks)
    BY <1>1, <1>2, <1>3, <1>5, <1>6, PTL DEF BoundarySpec, CrossedProof!Steps
  <1> QED
    BY <1>7 DEF here

LEMMA FilledStand ==
    BoundarySpec => [](setup = "filled" => Filled!HandlesFindTheirOwn /\ Filled!NoHandleLeaks)
  <1> DEFINE here == setup = "filled"
  <1>1. here /\ BoundaryInit => FilledProof!Init
    BY FilledBegins DEF BoundaryInit, JsSetups
  <1>2. here /\ [BoundaryNext]_boundaryVars => [FilledProof!Next]_(FilledProof!vars)
    <2>1. here /\ [BoundaryNext]_boundaryVars => Filled!Next \/ UNCHANGED androidVars
      BY DEF BoundaryNext, AndroidStep, JsStep, SyncStep, boundaryVars
    <2>2. UNCHANGED androidVars => UNCHANGED FilledProof!vars
      BY DEF androidVars, FilledProof!vars
    <2> QED
      BY <2>1, <2>2, FilledSteps
  <1>3. [BoundaryNext]_boundaryVars => (here => here') /\ (~ here => ~ here')
    BY SetupStays
  <1>4. FilledProof!AndroidAssumption
    BY BoundaryAssumption DEF FilledProof!AndroidAssumption, Filled!AndroidAssumption, FilledProof!AllKinds,
       Filled!AllKinds
  <1>5. /\ FilledProof!Steps => []FilledProof!HandlesFindTheirOwn
        /\ FilledProof!Steps => []FilledProof!NoHandleLeaks
    BY <1>4, FilledProof!StepsFindOwn, FilledProof!StepsLeakNothing
  <1>6. FilledProof!HandlesFindTheirOwn /\ FilledProof!NoHandleLeaks
          => Filled!HandlesFindTheirOwn /\ Filled!NoHandleLeaks
    BY FilledProperties
  <1> HIDE DEF here
  <1>7. BoundarySpec => [](here => Filled!HandlesFindTheirOwn /\ Filled!NoHandleLeaks)
    BY <1>1, <1>2, <1>3, <1>5, <1>6, PTL DEF BoundarySpec, FilledProof!Steps
  <1> QED
    BY <1>7 DEF here

(* A wrapper of a Java object finds this object, or on another thread none, *)
(* and a before_send callback its own, whichever of the instances is run:   *)
(* the assumptions of AndroidHandles hold for each of them.                 *)
THEOREM BoundaryFindsOwn == BoundarySpec => []HandlesFindTheirOwn
  BY HandlesStand, CrossedStand, FilledStand, PTL DEF HandlesFindTheirOwn

(* No handle stays in the plugin's tables once neither a wrapper nor a      *)
(* callback needs it, in each of them.                                      *)
THEOREM BoundaryLeaksNothing == BoundarySpec => []NoHandleLeaks
  BY HandlesStand, CrossedStand, FilledStand, PTL DEF NoHandleLeaks

LEMMA SyncedStand == BoundarySpec => [](setup # "callbacks" => Synced!LayersInStep)
  <1> DEFINE here == setup # "callbacks"
  <1>1. BoundaryInit => SyncedProof!Init
    BY SyncedBegins DEF BoundaryInit
  <1>2. here /\ [BoundaryNext]_boundaryVars => [SyncedProof!Next]_(SyncedProof!vars)
    <2>1. here /\ [BoundaryNext]_boundaryVars => Synced!Next \/ UNCHANGED syncVars
      BY DEF BoundaryNext, AndroidStep, JsStep, SyncStep, boundaryVars
    <2>2. UNCHANGED syncVars => UNCHANGED SyncedProof!vars
      BY DEF syncVars, SyncedProof!vars
    <2> QED
      BY <2>1, <2>2, SyncedSteps
  <1>3. [BoundaryNext]_boundaryVars => (here => here') /\ (~ here => ~ here')
    BY SetupStays
  <1>4. SyncedProof!Spec => []SyncedProof!LayersInStep
    BY BoundaryAssumption, SyncedAssumption, SyncedProof!LayersStayInStep
  <1>5. SyncedProof!LayersInStep => Synced!LayersInStep
    BY SyncedProperties
  <1> HIDE DEF here
  <1>6. BoundarySpec => [](here => Synced!LayersInStep)
    BY <1>1, <1>2, <1>3, <1>4, <1>5, PTL DEF BoundarySpec, SyncedProof!Spec
  <1> QED
    BY <1>6 DEF here

LEMMA SyncedCallbacksStand ==
    BoundarySpec => [](setup = "callbacks" => SyncedCallbacks!LayersInStep)
  <1> DEFINE here == setup = "callbacks"
  <1>1. BoundaryInit => SyncedCallbacksProof!Init
    <2>1. SyncedCallbacks!Init <=> Synced!Init
      BY DEF SyncedCallbacks!Init, Synced!Init, SyncedCallbacks!Layers, Synced!Layers,
         SyncedCallbacks!Fresh, Synced!Fresh
    <2> QED
      BY <2>1, SyncedCallbacksBegins DEF BoundaryInit
  <1>2. here /\ [BoundaryNext]_boundaryVars => [SyncedCallbacksProof!Next]_(SyncedCallbacksProof!vars)
    <2>1. here /\ [BoundaryNext]_boundaryVars => SyncedCallbacks!Next \/ UNCHANGED syncVars
      BY DEF BoundaryNext, AndroidStep, JsStep, SyncStep, boundaryVars
    <2>2. UNCHANGED syncVars => UNCHANGED SyncedCallbacksProof!vars
      BY DEF syncVars, SyncedCallbacksProof!vars
    <2> QED
      BY <2>1, <2>2, SyncedCallbacksSteps
  <1>3. [BoundaryNext]_boundaryVars => (here => here') /\ (~ here => ~ here')
    BY SetupStays
  <1>4. SyncedCallbacksProof!Spec => []SyncedCallbacksProof!LayersInStep
    BY BoundaryAssumption, SyncedCallbacksAssumption, SyncedCallbacksProof!LayersStayInStep
  <1>5. SyncedCallbacksProof!LayersInStep => SyncedCallbacks!LayersInStep
    BY SyncedCallbacksProperties
  <1> HIDE DEF here
  <1>6. BoundarySpec => [](here => SyncedCallbacks!LayersInStep)
    BY <1>1, <1>2, <1>3, <1>4, <1>5, PTL DEF BoundarySpec, SyncedCallbacksProof!Spec
  <1> QED
    BY <1>6 DEF here

(* The guards of both layers are released with each call, and the scopes of *)
(* both layers agree at rest, unless a callback changed one of them.        *)
THEOREM BoundaryStaysInStep == BoundarySpec => []LayersInStep
  <1>1. (setup # "callbacks" => Synced!LayersInStep)
          /\ (setup = "callbacks" => SyncedCallbacks!LayersInStep) => LayersInStep
    BY DEF LayersInStep
  <1> QED
    BY <1>1, SyncedStand, SyncedCallbacksStand, PTL

-----------------------------------------------------------------------------
(* What the layers show of their calls is what ScopeSync's proofs are about.*)
LEMMA AllOpsSame == SyncedProof!AllOps = Synced!AllOps
  BY DEF
      SyncedProof!AllOps, Synced!AllOps, SyncedProof!OpsOf, Synced!OpsOf, SyncedProof!SetTag,
      Synced!SetTag, SyncedProof!RemoveTag, Synced!RemoveTag, SyncedProof!Breadcrumb,
      Synced!Breadcrumb, SyncedProof!SetUser, Synced!SetUser, SyncedProof!RemoveUser,
      Synced!RemoveUser, SyncedProof!SetTrace, Synced!SetTrace

LEMMA AppliedSame ==
    ASSUME NEW s, NEW op PROVE SyncedProof!Applied(s, op) = Synced!Applied(s, op)
  BY DEF SyncedProof!Applied, Synced!Applied

LEMMA CallsShown ==
    ASSUME NEW layer, Shown PROVE Calls(layer) = SyncedProof!Pending(layer)
  BY DEF Calls, Synced!Pending, SyncedProof!Pending

LEMMA CallsHidden ==
    ASSUME NEW layer, ~ Shown PROVE Calls(layer) = [t \in Threads |-> none]
  BY DEF Calls

LEMMA NativeShown ==
    Shown /\ Shown' /\ [SyncedProof!Native!Next]_(SyncedProof!Native!vars) => [Native!Next]_(Native!vars)
  <1> SUFFICES ASSUME Shown, Shown', [SyncedProof!Native!Next]_(SyncedProof!Native!vars)
               PROVE  [Native!Next]_(Native!vars)
    OBVIOUS
  <1>1. Calls("native") = SyncedProof!Pending("native")
    BY CallsShown
  <1>2. Calls("native")' = SyncedProof!Pending("native")'
    BY DEF Calls, Synced!Pending, SyncedProof!Pending
  <1>3. CASE UNCHANGED SyncedProof!Native!vars
    BY <1>1, <1>2, <1>3 DEF SyncedProof!Native!vars, Native!vars
  <1>4. ASSUME NEW t \in Threads, SyncedProof!Native!Begin(t) PROVE Native!Begin(t)
    BY <1>1, <1>2, <1>4, AllOpsSame DEF SyncedProof!Native!Begin, Native!Begin
  <1>5. ASSUME NEW t \in Threads, SyncedProof!Native!Apply(t) PROVE Native!Apply(t)
    BY <1>1, <1>2, <1>5, AppliedSame DEF SyncedProof!Native!Apply, Native!Apply
  <1>6. ASSUME NEW t \in Threads, SyncedProof!Native!End(t) PROVE Native!End(t)
    BY <1>1, <1>2, <1>6 DEF SyncedProof!Native!End, Native!End
  <1> QED
    BY <1>3, <1>4, <1>5, <1>6 DEF SyncedProof!Native!Next, Native!Next

LEMMA NativeHidden == ~ Shown /\ ~ Shown' => [Native!Next]_(Native!vars)
  BY DEF Native!vars, Calls

LEMMA NativeBegins == Synced!Init => Native!Init
  <1> SUFFICES ASSUME Synced!Init PROVE Native!Init
    OBVIOUS
  <1>1. Calls("native") = [t \in Threads |-> none]
    BY DEF Calls, Synced!Init, Synced!Pending
  <1>2. layerScopes["native"] = Synced!Fresh
    BY DEF Synced!Init, Synced!Layers
  <1> QED
    BY <1>1, <1>2 DEF Native!Init

LEMMA DotnetShown ==
    Shown /\ Shown' /\ [SyncedProof!Dotnet!Next]_(SyncedProof!Dotnet!vars) => [Dotnet!Next]_(Dotnet!vars)
  <1> SUFFICES ASSUME Shown, Shown', [SyncedProof!Dotnet!Next]_(SyncedProof!Dotnet!vars)
               PROVE  [Dotnet!Next]_(Dotnet!vars)
    OBVIOUS
  <1>1. Calls("dotnet") = SyncedProof!Pending("dotnet")
    BY CallsShown
  <1>2. Calls("dotnet")' = SyncedProof!Pending("dotnet")'
    BY DEF Calls, Synced!Pending, SyncedProof!Pending
  <1>3. CASE UNCHANGED SyncedProof!Dotnet!vars
    BY <1>1, <1>2, <1>3 DEF SyncedProof!Dotnet!vars, Dotnet!vars
  <1>4. ASSUME NEW t \in Threads, SyncedProof!Dotnet!Begin(t) PROVE Dotnet!Begin(t)
    BY <1>1, <1>2, <1>4, AllOpsSame DEF SyncedProof!Dotnet!Begin, Dotnet!Begin
  <1>5. ASSUME NEW t \in Threads, SyncedProof!Dotnet!Apply(t) PROVE Dotnet!Apply(t)
    BY <1>1, <1>2, <1>5, AppliedSame DEF SyncedProof!Dotnet!Apply, Dotnet!Apply
  <1>6. ASSUME NEW t \in Threads, SyncedProof!Dotnet!End(t) PROVE Dotnet!End(t)
    BY <1>1, <1>2, <1>6 DEF SyncedProof!Dotnet!End, Dotnet!End
  <1> QED
    BY <1>3, <1>4, <1>5, <1>6 DEF SyncedProof!Dotnet!Next, Dotnet!Next

LEMMA DotnetHidden == ~ Shown /\ ~ Shown' => [Dotnet!Next]_(Dotnet!vars)
  BY DEF Dotnet!vars, Calls

LEMMA DotnetBegins == Synced!Init => Dotnet!Init
  <1> SUFFICES ASSUME Synced!Init PROVE Dotnet!Init
    OBVIOUS
  <1>1. Calls("dotnet") = [t \in Threads |-> none]
    BY DEF Calls, Synced!Init, Synced!Pending
  <1>2. layerScopes["dotnet"] = Synced!Fresh
    BY DEF Synced!Init, Synced!Layers
  <1> QED
    BY <1>1, <1>2 DEF Dotnet!Init

(* Each layer's scope gets every operation of the program once between its *)
(* call and its return (ScopeLayer), however the threads interleave.       *)
THEOREM BoundaryLayersImplement == BoundarySpec => LayersImplement
  <1>1. BoundaryInit => SyncedProof!Init
    BY SyncedBegins DEF BoundaryInit
  <1>2. Shown /\ [BoundaryNext]_boundaryVars => [SyncedProof!Next]_(SyncedProof!vars)
    <2>1. Shown /\ [BoundaryNext]_boundaryVars => Synced!Next \/ UNCHANGED syncVars
      BY DEF BoundaryNext, AndroidStep, JsStep, SyncStep, boundaryVars, Shown
    <2>2. UNCHANGED syncVars => UNCHANGED SyncedProof!vars
      BY DEF syncVars, SyncedProof!vars
    <2> QED
      BY <2>1, <2>2, SyncedSteps
  <1>3. [BoundaryNext]_boundaryVars => (Shown => Shown') /\ (~ Shown => ~ Shown')
    BY SetupStays DEF Shown
  <1>4. SyncedProof!Spec => SyncedProof!LayersImplement
    <2>1. SyncedProof!NoCallbacks
      BY DEF SyncedProof!NoCallbacks
    <2> QED
      BY <2>1, BoundaryAssumption, SyncedAssumption, SyncedProof!LayersAreImplemented
  <1>5. Shown /\ Shown' =>
          /\ ([SyncedProof!Native!Next]_(SyncedProof!Native!vars) => [Native!Next]_(Native!vars))
          /\ ([SyncedProof!Dotnet!Next]_(SyncedProof!Dotnet!vars) => [Dotnet!Next]_(Dotnet!vars))
    BY NativeShown, DotnetShown
  <1>6. ~ Shown /\ ~ Shown' => [Native!Next]_(Native!vars) /\ [Dotnet!Next]_(Dotnet!vars)
    BY NativeHidden, DotnetHidden
  <1>7. BoundaryInit => Native!Init /\ Dotnet!Init
    BY NativeBegins, DotnetBegins DEF BoundaryInit
  <1> HIDE DEF Shown
  <1>8. BoundarySpec => Native!Spec /\ Dotnet!Spec
    BY <1>1, <1>2, <1>3, <1>4, <1>5, <1>6, <1>7, PTL
       DEF BoundarySpec, SyncedProof!Spec, SyncedProof!LayersImplement, SyncedProof!Native!Spec,
           SyncedProof!Dotnet!Spec, Native!Spec, Dotnet!Spec
  <1> QED
    BY <1>8 DEF LayersImplement

=============================================================================
