------------------------ MODULE AndroidHandlesProofs ------------------------
(***************************************************************************)
(* Proofs about AndroidHandles: which object a handle finds, that no       *)
(* handle outlives its use, and that a handler's verdict is final, for any *)
(* threads, objects and handles.                                           *)
(*                                                                         *)
(* The steps are first reduced to what they do to the handles: an object   *)
(* is made, cloned, destroyed or given to a handler, the handler returns,  *)
(* and the plugin's callback returns.                                      *)
(***************************************************************************)
EXTENDS AndroidHandles, TLAPS

CallbackKinds == {"event", "log", "metric"}
Stage == {"none", "captured", "processing", "kept", "discarded", "sent", "dropped"}

(* The types, and the shape of what a thread's callbacks leave.            *)
HandlesTyped ==
    /\ DOMAIN tables = Kinds /\ \A k \in Kinds : DOMAIN tables[k] = Thread
    /\ \A k \in Kinds, t \in Thread :
         /\ DOMAIN tables[k][t] \subseteq Handle
         /\ \A h \in DOMAIN tables[k][t] : tables[k][t][h] \in Object
         /\ k = "scope" => Zero \notin DOMAIN tables[k][t]
    /\ wrappers \subseteq Wrapper
    /\ \A w \in wrappers :
         w.kind \in Kinds /\ (w.object = NoObject => w.kind = "scope" /\ w.handle = Zero)
    /\ frames \in [Thread -> Seq(Frame)]
    /\ \A t \in Thread : \A i \in 1 .. Len(frames[t]) :
         /\ frames[t][i].kind \in Kinds \cap CallbackKinds
         /\ i # 1 => ~ frames[t][i].returned
    /\ drawn \subseteq Handle
    /\ stage \in [Delivery -> Stage]

DataTyped ==
    /\ data \in [Object -> Data] /\ enabled \in BOOLEAN
    /\ handlers \subseteq Kinds \cap CallbackKinds
    /\ global \in SUBSET (Mark \cup {"default", "user"})

Typed == HandlesTyped /\ DataTyped

(* The layered scopes are those of scopes that are found.                  *)
Layered ==
    /\ DOMAIN combined = Thread
    /\ \A t \in Thread : \A h \in DOMAIN combined[t] :
         "scope" \in Kinds /\ Found("scope", t, h) /\ combined[t][h] = tables["scope"][t][h]

-----------------------------------------------------------------------------
(* The steps, by what they do to the handles.                              *)
Rests == UNCHANGED <<tables, wrappers, frames, drawn, stage>>

Makes(t, k, h, o) ==
    /\ Running(t) /\ h \in Free(k, t) /\ Draw(h)
    /\ tables' = Registered(k, t, h, o)
    /\ wrappers' = wrappers \cup {Wrap(k, h, o, t, FALSE)}
    /\ UNCHANGED <<frames, stage>>

ClonesNothing(t) ==
    /\ "scope" \in Kinds
    /\ wrappers' = wrappers \cup {Wrap("scope", Zero, NoObject, t, FALSE)}
    /\ UNCHANGED <<tables, frames, drawn, stage>>

Destroys(t, w) ==
    /\ w \in Usable(t) /\ Running(t)
    /\ wrappers' = wrappers \ {w}
    /\ tables' = IF w.borrowed THEN tables ELSE Released(w.kind, t, w.handle)
    /\ UNCHANGED <<frames, drawn, stage>>

Asks(t, k, h, o, d) ==
    /\ Running(t) /\ h \in Free(k, t) /\ k \in CallbackKinds
    /\ BeginCallback(t, k, o, h, d)

Resumes(t) ==
    /\ frames[t] # <<>> /\ Head(frames[t]).returned
    /\ LET f == Head(frames[t])
       IN  /\ stage' = [stage EXCEPT ![f.delivery] = IF Found(f.kind, t, f.handle) THEN "sent" ELSE "dropped"]
           /\ tables' = Released(f.kind, t, f.handle)
    /\ frames' = [frames EXCEPT ![t] = Tail(@)]
    /\ UNCHANGED <<wrappers, drawn>>

Judges(t, keep, w) ==
    /\ frames[t] # <<>> /\ ~ Head(frames[t]).returned
    /\ LET f == Head(frames[t])
       IN  /\ tables' = IF keep THEN tables ELSE Released(f.kind, t, f.handle)
           /\ stage' = [stage EXCEPT ![f.delivery] = IF keep THEN "kept" ELSE "discarded"]
           /\ w.borrowed /\ wrappers' \in {wrappers, wrappers \ {w}}
    /\ frames' = [frames EXCEPT ![t][1].returned = TRUE]
    /\ UNCHANGED drawn

Keeps(t) ==
    \/ Rests
    \/ \E k \in Kinds, h \in Handle, o \in Object : Makes(t, k, h, o)
    \/ ClonesNothing(t)
    \/ \E k \in Kinds, h \in Handle, o \in Object, d \in Delivery : Asks(t, k, h, o, d)
    \/ \E keep \in BOOLEAN, w \in Wrapper : Judges(t, keep, w)
    \/ Resumes(t)

Effect(t) == Keeps(t) \/ \E w \in wrappers : Destroys(t, w)

-----------------------------------------------------------------------------
(* The tables after a registration and after a release.                    *)
LEMMA RegisteredTables ==
    ASSUME HandlesTyped, NEW k \in Kinds, NEW t \in Thread, NEW h \in Handle, NEW o \in Object,
           h \in Free(k, t), NEW T, T = Registered(k, t, h, o)
    PROVE  /\ DOMAIN T = Kinds /\ \A l \in Kinds : DOMAIN T[l] = Thread
           /\ \A l \in Kinds, u \in Thread : \A x : x \in DOMAIN T[l][u] <=>
                x \in DOMAIN tables[l][u] \/ (l = k /\ u = t /\ x = h)
           /\ \A l \in Kinds, u \in Thread : \A x \in DOMAIN tables[l][u] :
                T[l][u][x] = tables[l][u][x]
           /\ T[k][t][h] = o
           /\ h \notin DOMAIN tables[k][t]
           /\ k = "scope" => h # Zero
  <1>1. DOMAIN tables = Kinds /\ \A l \in Kinds : DOMAIN tables[l] = Thread
    BY DEF HandlesTyped
  <1> DEFINE F == With(tables[k][t], h, o)
  <1>2. T = [tables EXCEPT ![k][t] = F]
    BY DEF Registered
  <1>3. DOMAIN F = DOMAIN tables[k][t] \cup {h} /\ F[h] = o
        /\ \A x \in DOMAIN tables[k][t] : x # h => F[x] = tables[k][t][x]
    BY DEF With
  <1>4. h \notin DOMAIN tables[k][t] /\ (k = "scope" => h # Zero)
    BY DEF Free
  <1> HIDE DEF F
  <1>5. /\ DOMAIN T = Kinds /\ \A l \in Kinds : DOMAIN T[l] = Thread
        /\ T[k][t] = F
        /\ \A l \in Kinds, u \in Thread : ~ (l = k /\ u = t) => T[l][u] = tables[l][u]
    BY <1>1, <1>2
  <1> QED
    BY <1>3, <1>4, <1>5

LEMMA ReleasedTables ==
    ASSUME HandlesTyped, NEW k \in Kinds, NEW t \in Thread, NEW h, NEW T, T = Released(k, t, h)
    PROVE  /\ DOMAIN T = Kinds /\ \A l \in Kinds : DOMAIN T[l] = Thread
           /\ \A l \in Kinds, u \in Thread : \A x : x \in DOMAIN T[l][u] <=>
                x \in DOMAIN tables[l][u] /\ ~ (l = k /\ u = t /\ x = h)
           /\ \A l \in Kinds, u \in Thread : \A x \in DOMAIN T[l][u] :
                T[l][u][x] = tables[l][u][x]
  <1>1. DOMAIN tables = Kinds /\ \A l \in Kinds : DOMAIN tables[l] = Thread
    BY DEF HandlesTyped
  <1> DEFINE F == Without(tables[k][t], h)
  <1>2. T = [tables EXCEPT ![k][t] = F]
    BY DEF Released
  <1>3. DOMAIN F = DOMAIN tables[k][t] \ {h} /\ \A x \in DOMAIN F : F[x] = tables[k][t][x]
    BY DEF Without
  <1> HIDE DEF F
  <1>4. /\ DOMAIN T = Kinds /\ \A l \in Kinds : DOMAIN T[l] = Thread
        /\ T[k][t] = F
        /\ \A l \in Kinds, u \in Thread : ~ (l = k /\ u = t) => T[l][u] = tables[l][u]
    BY <1>1, <1>2
  <1> QED
    BY <1>3, <1>4

(* The frames after a callback begins, and after it ends.                  *)
LEMMA FramesAsked ==
    ASSUME HandlesTyped, NEW t \in Thread, NEW f \in Frame,
           frames' = [frames EXCEPT ![t] = <<f>> \o @]
    PROVE  /\ frames' \in [Thread -> Seq(Frame)]
           /\ \A u \in Thread : u # t => frames'[u] = frames[u]
           /\ Len(frames'[t]) = Len(frames[t]) + 1 /\ frames'[t][1] = f
           /\ Len(frames[t]) \in Nat
           /\ \A i \in 1 .. Len(frames[t]) : frames'[t][i + 1] = frames[t][i]
           /\ \A i \in 1 .. Len(frames'[t]) : i # 1 =>
                i - 1 \in 1 .. Len(frames[t]) /\ frames'[t][i] = frames[t][i - 1]
  <1>1. frames \in [Thread -> Seq(Frame)]
    BY DEF HandlesTyped
  <1> DEFINE s == frames[t]
             z == frames'[t]
  <1>2. z = <<f>> \o s /\ s \in Seq(Frame) /\ <<f>> \in Seq(Frame)
    BY <1>1
  <1> HIDE DEF s, z
  <1>3. /\ z \in Seq(Frame) /\ Len(z) = Len(s) + 1 /\ z[1] = f /\ Len(s) \in Nat
        /\ \A i \in 1 .. Len(z) : i # 1 => z[i] = s[i - 1]
    BY <1>2
  <1>4. /\ \A i \in 1 .. Len(s) : z[i + 1] = s[i]
        /\ \A i \in 1 .. Len(z) : i # 1 => i - 1 \in 1 .. Len(s)
    BY <1>3
  <1> QED
    BY <1>1, <1>3, <1>4 DEF s, z

LEMMA FramesJudged ==
    ASSUME HandlesTyped, NEW t \in Thread, frames[t] # <<>>,
           frames' = [frames EXCEPT ![t][1].returned = TRUE]
    PROVE  /\ frames' \in [Thread -> Seq(Frame)]
           /\ \A u \in Thread : u # t => frames'[u] = frames[u]
           /\ Len(frames'[t]) = Len(frames[t]) /\ 1 \in 1 .. Len(frames[t])
           /\ Head(frames[t]) = frames[t][1] /\ frames[t][1] \in Frame
           /\ frames'[t][1] = [frames[t][1] EXCEPT !.returned = TRUE]
           /\ \A i \in 1 .. Len(frames[t]) : i # 1 => frames'[t][i] = frames[t][i]
  <1>1. frames \in [Thread -> Seq(Frame)]
    BY DEF HandlesTyped
  <1> DEFINE s == frames[t]
             z == frames'[t]
             f == [frames[t][1] EXCEPT !.returned = TRUE]
  <1>2. s \in Seq(Frame) /\ s # <<>>
    BY <1>1
  <1>3. Len(s) \in Nat /\ 1 \in 1 .. Len(s) /\ Head(s) = s[1] /\ s[1] \in Frame
    <2> HIDE DEF s
    <2> QED
      BY <1>2
  <1>4. f \in Frame
    BY <1>3 DEF Frame
  <1>5. z = [s EXCEPT ![1] = f]
    BY <1>1
  <1> HIDE DEF z, f, s
  <1>6. z \in Seq(Frame) /\ Len(z) = Len(s) /\ z[1] = f
        /\ \A i \in 1 .. Len(s) : i # 1 => z[i] = s[i]
    BY <1>2, <1>3, <1>4, <1>5
  <1> QED
    BY <1>1, <1>3, <1>6 DEF z, f, s

LEMMA FramesResumed ==
    ASSUME HandlesTyped, NEW t \in Thread, frames[t] # <<>>,
           frames' = [frames EXCEPT ![t] = Tail(@)]
    PROVE  /\ frames' \in [Thread -> Seq(Frame)]
           /\ \A u \in Thread : u # t => frames'[u] = frames[u]
           /\ Head(frames[t]) = frames[t][1] /\ frames[t][1] \in Frame
           /\ Len(frames[t]) \in Nat \ {0} /\ 1 \in 1 .. Len(frames[t])
           /\ Len(frames'[t]) = Len(frames[t]) - 1
           /\ \A i \in 1 .. Len(frames'[t]) :
                i + 1 \in 1 .. Len(frames[t]) /\ i + 1 # 1 /\ frames'[t][i] = frames[t][i + 1]
           /\ \A i \in 1 .. Len(frames[t]) : i # 1 =>
                i - 1 \in 1 .. Len(frames'[t]) /\ frames'[t][i - 1] = frames[t][i]
  <1>1. frames \in [Thread -> Seq(Frame)]
    BY DEF HandlesTyped
  <1> DEFINE s == frames[t]
             z == frames'[t]
  <1>2. z = Tail(s) /\ s \in Seq(Frame) /\ s # <<>>
    BY <1>1
  <1> HIDE DEF s, z
  <1>3. /\ Len(s) \in Nat \ {0} /\ Head(s) = s[1] /\ s[1] \in Frame /\ 1 \in 1 .. Len(s)
        /\ z \in Seq(Frame) /\ Len(z) = Len(s) - 1
        /\ \A i \in 1 .. Len(z) : z[i] = s[i + 1]
    BY <1>2
  <1>4. /\ \A i \in 1 .. Len(z) : i + 1 \in 1 .. Len(s) /\ i + 1 # 1
        /\ \A i \in 1 .. Len(s) : i # 1 => i - 1 \in 1 .. Len(z) /\ i - 1 + 1 = i
    BY <1>3
  <1>5. \A i \in 1 .. Len(s) : i # 1 => z[i - 1] = s[i]
    BY <1>3, <1>4
  <1> QED
    BY <1>1, <1>3, <1>4, <1>5 DEF s, z

-----------------------------------------------------------------------------
(* What each action does to the handles.                                   *)
LEMMA NewMakes ==
    ASSUME NEW t \in Thread, NEW k \in Kinds, NEW content, New(t, k, content)
    PROVE  \E h \in Handle, o \in Object : Makes(t, k, h, o)
  <1>1. PICK o \in Object \ Held, h \in Free(k, t) :
            /\ Running(t)
            /\ tables' = Registered(k, t, h, o)
            /\ wrappers' = wrappers \cup {Wrap(k, h, o, t, FALSE)}
            /\ Draw(h)
            /\ UNCHANGED <<combined, frames, enabled, handlers, global, stage>>
    BY DEF New
  <1>2. h \in Handle
    BY DEF Free
  <1> QED
    BY <1>1, <1>2 DEF Makes

LEMMA CallRests ==
    ASSUME NEW t, NEW w, NEW outcomes, Call(t, w, outcomes) PROVE Rests
  BY DEF Call, Rests

LEMMA UsesRest ==
    ASSUME NEW t \in Thread,
           \/ UseEvent(t) \/ UseBreadcrumb(t) \/ UseScope(t) \/ UseLog(t) \/ UseMetric(t)
           \/ AddToScope(t) \/ AddBreadcrumb(t) \/ InitSDK(t) \/ Close(t) \/ WriteGlobal(t)
    PROVE  Rests
  <1>1. CASE UseEvent(t) \/ UseBreadcrumb(t) \/ UseScope(t) \/ UseLog(t) \/ UseMetric(t)
    BY <1>1, CallRests DEF UseEvent, UseBreadcrumb, UseScope, UseLog, UseMetric
  <1>2. CASE AddToScope(t)
    BY <1>2, CallRests DEF AddToScope
  <1>3. CASE AddBreadcrumb(t) \/ InitSDK(t) \/ Close(t) \/ WriteGlobal(t)
    BY <1>3 DEF AddBreadcrumb, InitSDK, Close, WriteGlobal, Rests
  <1> QED
    BY <1>1, <1>2, <1>3

LEMMA CreatesMake ==
    ASSUME NEW t \in Thread, CreateEvent(t) \/ CreateBreadcrumb(t) \/ CreateScope(t) \/ CloneScope(t),
           Typed
    PROVE  \/ \E k \in Kinds, h \in Handle, o \in Object : Makes(t, k, h, o)
           \/ ClonesNothing(t)
  <1>1. CASE CreateEvent(t)
    BY <1>1, NewMakes DEF CreateEvent
  <1>2. CASE CreateBreadcrumb(t)
    BY <1>2, NewMakes DEF CreateBreadcrumb
  <1>3. CASE CreateScope(t)
    BY <1>3, NewMakes DEF CreateScope
  <1>4. CASE CloneScope(t)
    <2>1. PICK w \in Usable(t) :
            /\ w.kind = "scope"
            /\ Found("scope", t, w.handle) => New(t, "scope", data[tables["scope"][t][w.handle]])
            /\ ~ Found("scope", t, w.handle) =>
                 /\ wrappers' = wrappers \cup {Wrap("scope", Zero, NoObject, t, FALSE)}
                 /\ UNCHANGED <<tables, combined, data, frames, drawn, enabled, handlers, global, stage>>
      BY <1>4 DEF CloneScope
    <2>2. "scope" \in Kinds
      BY <2>1 DEF Usable, Typed, HandlesTyped
    <2>3. CASE Found("scope", t, w.handle)
      BY <2>1, <2>2, <2>3, NewMakes
    <2>4. CASE ~ Found("scope", t, w.handle)
      BY <2>1, <2>2, <2>4 DEF ClonesNothing
    <2> QED
      BY <2>3, <2>4
  <1> QED
    BY <1>1, <1>2, <1>3, <1>4

LEMMA CaptureEventAsks ==
    ASSUME NEW t \in Thread, CaptureEvent(t), Typed
    PROVE  \/ Rests
           \/ \E h \in Handle, o \in Object, d \in Delivery :
                "event" \in Kinds /\ Asks(t, "event", h, o, d)
  <1>1. PICK w \in Usable(t), x \in ScopeHandles(t) :
          /\ Running(t) /\ w.kind = "event"
          /\ IF ~ Found("event", t, w.handle)
             THEN UNCHANGED <<tables, combined, data, wrappers, frames, drawn, stage>>
             ELSE IF ~ enabled THEN UNCHANGED <<tables, data, wrappers, frames, drawn, stage>>
                  ELSE \E h \in Free("event", t), d \in Delivery :
                         BeginCallback(t, "event", tables["event"][t][w.handle], h, d)
    BY DEF CaptureEvent
  <1>2. CASE ~ Found("event", t, w.handle) \/ ~ enabled
    BY <1>1, <1>2 DEF Rests
  <1>3. CASE Found("event", t, w.handle) /\ enabled
    <2> DEFINE o == tables["event"][t][w.handle]
    <2>1. "event" \in Kinds /\ o \in Object
      BY <1>1, <1>3 DEF Usable, Typed, HandlesTyped, Found
    <2>2. PICK h \in Free("event", t), d \in Delivery : BeginCallback(t, "event", o, h, d)
      BY <1>1, <1>3
    <2>3. h \in Handle /\ "event" \in CallbackKinds
      BY DEF Free, CallbackKinds
    <2> QED
      BY <1>1, <2>1, <2>2, <2>3 DEF Asks
  <1> QED
    BY <1>2, <1>3

LEMMA CaptureNewAsks ==
    ASSUME NEW t \in Thread, NEW k \in Kinds, CaptureNew(t, k), Typed
    PROVE  \E h \in Handle, o \in Object, d \in Delivery : Asks(t, k, h, o, d)
  <1>1. PICK x \in ScopeHandles(t), o \in Object \ Held, h \in Free(k, t), d \in Delivery :
          BeginCallback(t, k, o, h, d)
    BY DEF CaptureNew
  <1>2. Running(t) /\ k \in CallbackKinds /\ h \in Handle
    BY DEF CaptureNew, Typed, DataTyped, Free
  <1> QED
    BY <1>1, <1>2 DEF Asks

LEMMA HandlerReturnsJudges ==
    ASSUME NEW t \in Thread, HandlerReturns(t), Typed
    PROVE  \E keep \in BOOLEAN, w \in Wrapper : Judges(t, keep, w)
  <1> DEFINE f == Head(frames[t])
             w == Wrap(f.kind, f.handle, f.object, t, TRUE)
  <1>1. PICK keep \in BOOLEAN, stored \in BOOLEAN :
          /\ frames[t] # <<>> /\ ~ f.returned
          /\ tables' = IF keep THEN tables ELSE Released(f.kind, t, f.handle)
          /\ stage' = [stage EXCEPT ![f.delivery] = IF keep THEN "kept" ELSE "discarded"]
          /\ wrappers' = IF stored THEN wrappers ELSE wrappers \ {w}
          /\ frames' = [frames EXCEPT ![t][1].returned = TRUE]
          /\ UNCHANGED drawn
    BY DEF HandlerReturns
  <1>2. f \in Frame
    BY <1>1 DEF Typed, HandlesTyped
  <1>3. w \in Wrapper /\ w.borrowed
    BY <1>2 DEF Wrap, Wrapper, Frame
  <1> QED
    BY <1>1, <1>3 DEF Judges

LEMMA StepHasEffect ==
    ASSUME Typed, NEW t \in Thread,
           \/ CreateEvent(t) \/ CreateBreadcrumb(t) \/ CreateScope(t) \/ CloneScope(t)
           \/ UseEvent(t) \/ UseBreadcrumb(t) \/ UseScope(t) \/ UseLog(t) \/ UseMetric(t)
           \/ AddToScope(t) \/ AddBreadcrumb(t) \/ Destroy(t)
           \/ InitSDK(t) \/ Close(t) \/ WriteGlobal(t)
           \/ CaptureEvent(t) \/ (\E k \in Kinds : CaptureNew(t, k))
           \/ HandlerReturns(t) \/ BeforeSendReturns(t)
    PROVE  Effect(t) /\ (Destroy(t) \/ Keeps(t))
  <1>1. CASE CreateEvent(t) \/ CreateBreadcrumb(t) \/ CreateScope(t) \/ CloneScope(t)
    BY <1>1, CreatesMake DEF Effect, Keeps
  <1>2. CASE \/ UseEvent(t) \/ UseBreadcrumb(t) \/ UseScope(t) \/ UseLog(t) \/ UseMetric(t)
             \/ AddToScope(t) \/ AddBreadcrumb(t) \/ InitSDK(t) \/ Close(t) \/ WriteGlobal(t)
    BY <1>2, UsesRest DEF Effect, Keeps
  <1>3. CASE Destroy(t)
    <2>1. \E w \in wrappers : Destroys(t, w)
      BY <1>3 DEF Destroy, Destroys, Usable
    <2> QED
      BY <1>3, <2>1 DEF Effect
  <1>4. CASE CaptureEvent(t)
    BY <1>4, CaptureEventAsks DEF Effect, Keeps
  <1>5. CASE \E k \in Kinds : CaptureNew(t, k)
    BY <1>5, CaptureNewAsks DEF Effect, Keeps
  <1>6. CASE HandlerReturns(t)
    BY <1>6, HandlerReturnsJudges DEF Effect, Keeps
  <1>7. CASE BeforeSendReturns(t)
    <2>1. Resumes(t)
      BY <1>7 DEF BeforeSendReturns, Resumes
    <2>2. Keeps(t)
      BY <2>1 DEF Keeps
    <2> QED
      BY <2>2 DEF Effect
  <1> QED
    BY <1>1, <1>2, <1>3, <1>4, <1>5, <1>6, <1>7

-----------------------------------------------------------------------------
(* The types of what the handles are made of, effect by effect.            *)
LEMMA DrawTyped ==
    ASSUME HandlesTyped, NEW h \in Handle, Draw(h)
    PROVE  drawn' \subseteq Handle /\ drawn \subseteq drawn' /\ (FreshHandles => h \in drawn')
  BY DEF HandlesTyped, Draw

LEMMA MakesTyped ==
    ASSUME AndroidAssumption, HandlesTyped, NEW t \in Thread, NEW k \in Kinds, NEW h \in Handle,
           NEW o \in Object, Makes(t, k, h, o)
    PROVE  HandlesTyped'
  <1> DEFINE w == Wrap(k, h, o, t, FALSE)
  <1>1. w \in Wrapper /\ w.kind = k /\ w.object # NoObject
    <2>1. w \in Wrapper /\ w.kind = k /\ w.object = o
      BY DEF Wrap, Wrapper, AndroidAssumption
    <2> QED
      BY <2>1 DEF AndroidAssumption
  <1>2. /\ h \in Free(k, t) /\ Draw(h) /\ tables' = Registered(k, t, h, o)
        /\ wrappers' = wrappers \cup {w} /\ UNCHANGED <<frames, stage>>
    BY DEF Makes
  <1> HIDE DEF w
  <1>3. /\ wrappers' \subseteq Wrapper
        /\ \A x \in wrappers' :
             x.kind \in Kinds /\ (x.object = NoObject => x.kind = "scope" /\ x.handle = Zero)
    BY <1>1, <1>2 DEF HandlesTyped
  <1> DEFINE T == tables'
  <1>4. T = Registered(k, t, h, o)
    BY <1>2
  <1> HIDE DEF T
  <1>5. /\ DOMAIN T = Kinds /\ \A l \in Kinds : DOMAIN T[l] = Thread
        /\ \A l \in Kinds, u \in Thread :
             /\ DOMAIN T[l][u] \subseteq Handle
             /\ \A x \in DOMAIN T[l][u] : T[l][u][x] \in Object
             /\ l = "scope" => Zero \notin DOMAIN T[l][u]
    <2>1. /\ DOMAIN T = Kinds /\ \A l \in Kinds : DOMAIN T[l] = Thread
          /\ \A l \in Kinds, u \in Thread : \A x : x \in DOMAIN T[l][u] <=>
               x \in DOMAIN tables[l][u] \/ (l = k /\ u = t /\ x = h)
          /\ \A l \in Kinds, u \in Thread : \A x \in DOMAIN tables[l][u] :
               T[l][u][x] = tables[l][u][x]
          /\ T[k][t][h] = o
          /\ k = "scope" => h # Zero
      BY <1>2, <1>4, RegisteredTables
    <2> QED
      BY <2>1 DEF HandlesTyped
  <1>6. drawn' \subseteq Handle
    BY <1>2, DrawTyped
  <1> QED
    BY <1>2, <1>3, <1>5, <1>6 DEF HandlesTyped, T

LEMMA ClonesTyped ==
    ASSUME AndroidAssumption, HandlesTyped, NEW t \in Thread, ClonesNothing(t)
    PROVE  HandlesTyped'
  <1> DEFINE w == Wrap("scope", Zero, NoObject, t, FALSE)
  <1>1. w \in Wrapper /\ w.kind = "scope" /\ w.handle = Zero /\ "scope" \in Kinds
    <2>1. "scope" \in Kinds /\ Zero \in Handle /\ NoObject \in Object \cup {NoObject}
      BY DEF ClonesNothing, AndroidAssumption
    <2> QED
      BY <2>1 DEF Wrap, Wrapper, AndroidAssumption
  <1>2. wrappers' = wrappers \cup {w} /\ UNCHANGED <<tables, frames, drawn, stage>>
    BY DEF ClonesNothing
  <1> HIDE DEF w
  <1> QED
    BY <1>1, <1>2 DEF HandlesTyped

LEMMA ReleasedTyped ==
    ASSUME HandlesTyped, NEW k \in Kinds, NEW t \in Thread, NEW h, NEW T,
           T = Released(k, t, h) \/ T = tables
    PROVE  /\ DOMAIN T = Kinds /\ \A l \in Kinds : DOMAIN T[l] = Thread
           /\ \A l \in Kinds, u \in Thread :
                /\ DOMAIN T[l][u] \subseteq Handle
                /\ \A x \in DOMAIN T[l][u] : T[l][u][x] \in Object
                /\ l = "scope" => Zero \notin DOMAIN T[l][u]
  <1>1. CASE T = tables
    BY <1>1 DEF HandlesTyped
  <1>2. CASE T = Released(k, t, h)
    BY <1>2, ReleasedTables DEF HandlesTyped
  <1> QED
    BY <1>1, <1>2

LEMMA DestroysTyped ==
    ASSUME HandlesTyped, NEW t \in Thread, NEW w \in wrappers, Destroys(t, w)
    PROVE  HandlesTyped'
  <1>1. /\ wrappers' = wrappers \ {w} /\ UNCHANGED <<frames, drawn, stage>>
        /\ tables' = Released(w.kind, t, w.handle) \/ tables' = tables
        /\ w.kind \in Kinds
    BY DEF Destroys, HandlesTyped
  <1> DEFINE T == tables'
  <1>2. T = Released(w.kind, t, w.handle) \/ T = tables
    BY <1>1
  <1> HIDE DEF T
  <1>3. /\ DOMAIN T = Kinds /\ \A l \in Kinds : DOMAIN T[l] = Thread
        /\ \A l \in Kinds, u \in Thread :
             /\ DOMAIN T[l][u] \subseteq Handle
             /\ \A x \in DOMAIN T[l][u] : T[l][u][x] \in Object
             /\ l = "scope" => Zero \notin DOMAIN T[l][u]
    BY <1>1, <1>2, ReleasedTyped
  <1> QED
    BY <1>1, <1>3 DEF HandlesTyped, T

(* While the program runs on a thread, none of its callbacks has returned. *)
LEMMA NoneReturned ==
    ASSUME HandlesTyped, NEW t \in Thread, Running(t)
    PROVE  \A i \in 1 .. Len(frames[t]) : ~ frames[t][i].returned
  <1> SUFFICES ASSUME NEW i \in 1 .. Len(frames[t]) PROVE ~ frames[t][i].returned
    OBVIOUS
  <1>1. CASE i # 1
    BY <1>1 DEF HandlesTyped
  <1>2. CASE i = 1
    <2>1. frames[t] # <<>>
      BY <1>2
    <2>2. Head(frames[t]) = frames[t][1]
      BY <1>2, <2>1 DEF HandlesTyped
    <2> QED
      BY <1>2, <2>1, <2>2 DEF Running
  <1> QED
    BY <1>1, <1>2

Asked(t, k, h, o, d, f) ==
    /\ f.kind = k /\ f.handle = h /\ f.object = o /\ f.delivery = d /\ ~ f.returned
    /\ frames' = [frames EXCEPT ![t] = <<f>> \o @]
    /\ k \in CallbackKinds /\ h \in Free(k, t) /\ Running(t) /\ Draw(h)
    /\ tables' = Registered(k, t, h, o)
    /\ wrappers' = wrappers \cup {Wrap(k, h, o, t, TRUE)}
    /\ stage[d] = "none" /\ stage' = [stage EXCEPT ![d] = "processing"]

LEMMA AsksFrame ==
    ASSUME AndroidAssumption, HandlesTyped, NEW t \in Thread, NEW k \in Kinds, NEW h \in Handle,
           NEW o \in Object, NEW d \in Delivery, Asks(t, k, h, o, d)
    PROVE  \E f \in Frame : Asked(t, k, h, o, d, f)
  <1> DEFINE f == [kind |-> k, handle |-> h, object |-> o, delivery |-> d, returned |-> FALSE]
  <1>1. f \in Frame /\ f.kind = k /\ f.handle = h /\ f.object = o /\ f.delivery = d /\ ~ f.returned
    BY DEF Frame, AndroidAssumption
  <1>2. /\ frames' = [frames EXCEPT ![t] = <<f>> \o @]
        /\ k \in CallbackKinds /\ h \in Free(k, t) /\ Running(t) /\ Draw(h)
        /\ tables' = Registered(k, t, h, o)
        /\ wrappers' = wrappers \cup {Wrap(k, h, o, t, TRUE)}
        /\ stage[d] = "none" /\ stage' = [stage EXCEPT ![d] = "processing"]
    BY DEF Asks, BeginCallback
  <1> HIDE DEF f
  <1>3. Asked(t, k, h, o, d, f)
    BY <1>1, <1>2 DEF Asked
  <1> QED
    BY <1>1, <1>3

LEMMA AsksTyped ==
    ASSUME AndroidAssumption, HandlesTyped, NEW t \in Thread, NEW k \in Kinds, NEW h \in Handle,
           NEW o \in Object, NEW d \in Delivery, Asks(t, k, h, o, d)
    PROVE  HandlesTyped'
  <1> DEFINE w == Wrap(k, h, o, t, TRUE)
  <1>0. PICK f \in Frame : Asked(t, k, h, o, d, f)
    BY AsksFrame
  <1>1. /\ f.kind = k /\ ~ f.returned
        /\ frames' = [frames EXCEPT ![t] = <<f>> \o @]
        /\ k \in CallbackKinds /\ h \in Free(k, t) /\ Running(t) /\ Draw(h)
        /\ tables' = Registered(k, t, h, o)
        /\ wrappers' = wrappers \cup {w}
        /\ stage' = [stage EXCEPT ![d] = "processing"]
    BY <1>0 DEF Asked
  <1>2. w \in Wrapper /\ w.kind = k /\ w.object # NoObject
    <2>1. w \in Wrapper /\ w.kind = k /\ w.object = o
      BY DEF Wrap, Wrapper, AndroidAssumption
    <2> QED
      BY <2>1 DEF AndroidAssumption
  <1> HIDE DEF w
  <1>3. /\ wrappers' \subseteq Wrapper
        /\ \A x \in wrappers' :
             x.kind \in Kinds /\ (x.object = NoObject => x.kind = "scope" /\ x.handle = Zero)
    BY <1>1, <1>2 DEF HandlesTyped
  <1> DEFINE T == tables'
  <1>4. T = Registered(k, t, h, o)
    BY <1>1
  <1> HIDE DEF T
  <1>5. /\ DOMAIN T = Kinds /\ \A l \in Kinds : DOMAIN T[l] = Thread
        /\ \A l \in Kinds, u \in Thread :
             /\ DOMAIN T[l][u] \subseteq Handle
             /\ \A x \in DOMAIN T[l][u] : T[l][u][x] \in Object
             /\ l = "scope" => Zero \notin DOMAIN T[l][u]
    <2>1. /\ DOMAIN T = Kinds /\ \A l \in Kinds : DOMAIN T[l] = Thread
          /\ \A l \in Kinds, u \in Thread : \A x : x \in DOMAIN T[l][u] <=>
               x \in DOMAIN tables[l][u] \/ (l = k /\ u = t /\ x = h)
          /\ \A l \in Kinds, u \in Thread : \A x \in DOMAIN tables[l][u] :
               T[l][u][x] = tables[l][u][x]
          /\ T[k][t][h] = o
          /\ k = "scope" => h # Zero
      BY <1>1, <1>4, RegisteredTables
    <2> QED
      BY <2>1 DEF HandlesTyped
  <1>6. drawn' \subseteq Handle
    BY <1>1, DrawTyped
  <1>7. stage' \in [Delivery -> Stage]
    BY <1>1 DEF HandlesTyped, Stage
  <1> DEFINE F == frames'
  <1>8. /\ F \in [Thread -> Seq(Frame)]
        /\ \A u \in Thread : u # t => F[u] = frames[u]
        /\ F[t][1] = f
        /\ \A i \in 1 .. Len(F[t]) : i # 1 =>
             i - 1 \in 1 .. Len(frames[t]) /\ F[t][i] = frames[t][i - 1]
    BY <1>1, FramesAsked
  <1>9. /\ \A i \in 1 .. Len(frames[t]) : ~ frames[t][i].returned
        /\ \A i \in 1 .. Len(frames[t]) : frames[t][i].kind \in Kinds \cap CallbackKinds
    BY <1>1, NoneReturned DEF HandlesTyped
  <1> HIDE DEF F
  <1>10. \A u \in Thread : \A i \in 1 .. Len(F[u]) :
         /\ F[u][i].kind \in Kinds \cap CallbackKinds
         /\ i # 1 => ~ F[u][i].returned
    <2> SUFFICES ASSUME NEW u \in Thread, NEW i \in 1 .. Len(F[u])
                 PROVE  /\ F[u][i].kind \in Kinds \cap CallbackKinds
                        /\ i # 1 => ~ F[u][i].returned
      OBVIOUS
    <2>1. CASE u # t
      BY <1>8, <2>1 DEF HandlesTyped
    <2>2. CASE u = t /\ i = 1
      BY <1>1, <1>8, <2>2
    <2>3. CASE u = t /\ i # 1
      <3>1. i - 1 \in 1 .. Len(frames[t]) /\ F[t][i] = frames[t][i - 1]
        BY <1>8, <2>3
      <3> QED
        BY <1>9, <2>3, <3>1
    <2> QED
      BY <2>1, <2>2, <2>3
  <1> QED
    BY <1>3, <1>5, <1>6, <1>7, <1>8, <1>10 DEF HandlesTyped, T, F

LEMMA JudgesTyped ==
    ASSUME HandlesTyped, NEW t \in Thread, NEW keep \in BOOLEAN, NEW w \in Wrapper,
           Judges(t, keep, w)
    PROVE  HandlesTyped'
  <1> DEFINE f == frames[t][1]
  <1>1. /\ frames[t] # <<>> /\ frames' = [frames EXCEPT ![t][1].returned = TRUE]
        /\ drawn' = drawn /\ wrappers' \in {wrappers, wrappers \ {w}}
    BY DEF Judges
  <1> DEFINE F == frames'
  <1>2. /\ F \in [Thread -> Seq(Frame)]
        /\ \A u \in Thread : u # t => F[u] = frames[u]
        /\ Len(F[t]) = Len(frames[t]) /\ 1 \in 1 .. Len(frames[t])
        /\ Head(frames[t]) = f /\ f \in Frame
        /\ F[t][1] = [f EXCEPT !.returned = TRUE]
        /\ \A i \in 1 .. Len(frames[t]) : i # 1 => F[t][i] = frames[t][i]
    BY <1>1, FramesJudged
  <1>3. /\ tables' = Released(f.kind, t, f.handle) \/ tables' = tables
        /\ stage' = [stage EXCEPT ![f.delivery] = IF keep THEN "kept" ELSE "discarded"]
    BY <1>2 DEF Judges
  <1>4. f.kind \in Kinds \cap CallbackKinds /\ F[t][1].kind = f.kind
    BY <1>2 DEF HandlesTyped, Frame
  <1>5. stage' \in [Delivery -> Stage]
    BY <1>2, <1>3 DEF HandlesTyped, Stage, Frame
  <1> DEFINE T == tables'
  <1>6. /\ DOMAIN T = Kinds /\ \A l \in Kinds : DOMAIN T[l] = Thread
        /\ \A l \in Kinds, u \in Thread :
             /\ DOMAIN T[l][u] \subseteq Handle
             /\ \A x \in DOMAIN T[l][u] : T[l][u][x] \in Object
             /\ l = "scope" => Zero \notin DOMAIN T[l][u]
    <2>1. T = Released(f.kind, t, f.handle) \/ T = tables
      BY <1>3
    <2>2. f.kind \in Kinds
      BY <1>4
    <2> HIDE DEF T, f
    <2> QED
      BY <2>1, <2>2, ReleasedTyped
  <1> HIDE DEF F
  <1>7. \A u \in Thread : \A i \in 1 .. Len(F[u]) :
         /\ F[u][i].kind \in Kinds \cap CallbackKinds
         /\ i # 1 => ~ F[u][i].returned
    <2> SUFFICES ASSUME NEW u \in Thread, NEW i \in 1 .. Len(F[u])
                 PROVE  /\ F[u][i].kind \in Kinds \cap CallbackKinds
                        /\ i # 1 => ~ F[u][i].returned
      OBVIOUS
    <2>1. CASE u = t /\ i = 1
      BY <1>4, <2>1
    <2>2. CASE u = t /\ i # 1
      BY <1>2, <2>2 DEF HandlesTyped
    <2>3. CASE u # t
      BY <1>2, <2>3 DEF HandlesTyped
    <2> QED
      BY <2>1, <2>2, <2>3
  <1> QED
    BY <1>1, <1>2, <1>5, <1>6, <1>7 DEF HandlesTyped, F

LEMMA ResumesTyped ==
    ASSUME HandlesTyped, NEW t \in Thread, Resumes(t)
    PROVE  HandlesTyped'
  <1> DEFINE f == frames[t][1]
  <1>1. /\ frames[t] # <<>> /\ frames' = [frames EXCEPT ![t] = Tail(@)]
        /\ UNCHANGED <<wrappers, drawn>>
    BY DEF Resumes
  <1> DEFINE F == frames'
  <1>2. /\ F \in [Thread -> Seq(Frame)]
        /\ \A u \in Thread : u # t => F[u] = frames[u]
        /\ Head(frames[t]) = f /\ f \in Frame /\ 1 \in 1 .. Len(frames[t])
        /\ \A i \in 1 .. Len(F[t]) :
             i + 1 \in 1 .. Len(frames[t]) /\ i + 1 # 1 /\ F[t][i] = frames[t][i + 1]
    BY <1>1, FramesResumed
  <1>3. /\ tables' = Released(f.kind, t, f.handle)
        /\ stage' = [stage EXCEPT ![f.delivery] =
                        IF Found(f.kind, t, f.handle) THEN "sent" ELSE "dropped"]
    BY <1>2 DEF Resumes
  <1>4. f.kind \in Kinds
    BY <1>2 DEF HandlesTyped
  <1>5. stage' \in [Delivery -> Stage]
    BY <1>2, <1>3 DEF HandlesTyped, Stage, Frame
  <1> DEFINE T == tables'
  <1>6. /\ DOMAIN T = Kinds /\ \A l \in Kinds : DOMAIN T[l] = Thread
        /\ \A l \in Kinds, u \in Thread :
             /\ DOMAIN T[l][u] \subseteq Handle
             /\ \A x \in DOMAIN T[l][u] : T[l][u][x] \in Object
             /\ l = "scope" => Zero \notin DOMAIN T[l][u]
    <2>1. T = Released(f.kind, t, f.handle) \/ T = tables
      BY <1>3
    <2> HIDE DEF T, f
    <2> QED
      BY <1>4, <2>1, ReleasedTyped
  <1> HIDE DEF F
  <1>7. \A u \in Thread : \A i \in 1 .. Len(F[u]) :
         /\ F[u][i].kind \in Kinds \cap CallbackKinds
         /\ i # 1 => ~ F[u][i].returned
    <2> SUFFICES ASSUME NEW u \in Thread, NEW i \in 1 .. Len(F[u])
                 PROVE  /\ F[u][i].kind \in Kinds \cap CallbackKinds
                        /\ i # 1 => ~ F[u][i].returned
      OBVIOUS
    <2>1. CASE u = t
      <3>1. i + 1 \in 1 .. Len(frames[t]) /\ i + 1 # 1 /\ F[t][i] = frames[t][i + 1]
        BY <1>2, <2>1
      <3> QED
        BY <2>1, <3>1 DEF HandlesTyped
    <2>2. CASE u # t
      BY <1>2, <2>2 DEF HandlesTyped
    <2> QED
      BY <2>1, <2>2
  <1> QED
    BY <1>1, <1>2, <1>5, <1>6, <1>7 DEF HandlesTyped, F

LEMMA EffectTyped ==
    ASSUME AndroidAssumption, HandlesTyped, NEW t \in Thread, Effect(t)
    PROVE  HandlesTyped'
  <1>1. CASE Rests
    BY <1>1 DEF Rests, HandlesTyped
  <1>2. CASE \E k \in Kinds, h \in Handle, o \in Object : Makes(t, k, h, o)
    BY <1>2, MakesTyped
  <1>3. CASE ClonesNothing(t)
    BY <1>3, ClonesTyped
  <1>4. CASE \E w \in wrappers : Destroys(t, w)
    BY <1>4, DestroysTyped
  <1>5. CASE \E k \in Kinds, h \in Handle, o \in Object, d \in Delivery : Asks(t, k, h, o, d)
    BY <1>5, AsksTyped
  <1>6. CASE \E keep \in BOOLEAN, w \in Wrapper : Judges(t, keep, w)
    BY <1>6, JudgesTyped
  <1>7. CASE Resumes(t)
    BY <1>7, ResumesTyped
  <1> QED
    BY <1>1, <1>2, <1>3, <1>4, <1>5, <1>6, <1>7 DEF Effect, Keeps

-----------------------------------------------------------------------------
(* What keeps handles apart.  A handle of a callback is released by the    *)
(* callback alone, since no wrapper that owns its object can be used on    *)
(* its thread and has the same kind and handle.  Either of two things      *)
(* ensures that: random numbers do not repeat, or wrappers that are used   *)
(* on a thread were made there, so that their handles are taken there.     *)
WrappersApart ==
    \A w \in wrappers, t \in Thread : \A i \in 1 .. Len(frames[t]) :
        ~ w.borrowed /\ w.kind = frames[t][i].kind /\ (CrossThread \/ w.home = t) =>
            w.handle # frames[t][i].handle

FramesApart ==
    \A t \in Thread : \A i, j \in 1 .. Len(frames[t]) :
        i # j /\ frames[t][i].kind = frames[t][j].kind => frames[t][i].handle # frames[t][j].handle

Needed ==
    \A k \in Kinds, t \in Thread : \A h \in DOMAIN tables[k][t] :
        \/ \E w \in wrappers : w.kind = k /\ w.home = t /\ w.handle = h /\ ~ w.borrowed
        \/ \E i \in 1 .. Len(frames[t]) : frames[t][i].kind = k /\ frames[t][i].handle = h

AllDrawn ==
    /\ \A w \in wrappers : w.object # NoObject => w.handle \in drawn
    /\ \A k \in Kinds, t \in Thread : DOMAIN tables[k][t] \subseteq drawn
    /\ \A t \in Thread : \A i \in 1 .. Len(frames[t]) : frames[t][i].handle \in drawn

HandleInv ==
    /\ WrappersApart /\ FramesApart /\ CallbackFinds
    /\ ~ CrossThread => OwnedResolves /\ Needed
    /\ FreshHandles => AllDrawn /\ NeverAnother

Safe == FreshHandles \/ ~ CrossThread

(* A handle that is drawn is none that can be used on the thread.          *)
LEMMA NewIsNew ==
    ASSUME AndroidAssumption, HandlesTyped, HandleInv, Safe, NEW t \in Thread, NEW k \in Kinds,
           NEW h \in Handle, h \in Free(k, t), Running(t)
    PROVE  /\ \A w \in wrappers : ~ w.borrowed /\ w.kind = k /\ (CrossThread \/ w.home = t) =>
                w.handle # h
           /\ \A i \in 1 .. Len(frames[t]) : frames[t][i].kind = k => frames[t][i].handle # h
           /\ FreshHandles => \A w \in wrappers : w.kind = k => w.handle # h
           /\ FreshHandles => \A u \in Thread : h \notin DOMAIN tables[k][u]
  <1>1. h \notin DOMAIN tables[k][t] /\ h \notin drawn /\ (k = "scope" => h # Zero)
    BY DEF Free
  <1>2. FreshHandles => \A w \in wrappers : w.kind = k => w.handle # h
    BY <1>1 DEF HandleInv, AllDrawn, HandlesTyped
  <1>3. FreshHandles => \A u \in Thread : h \notin DOMAIN tables[k][u]
    BY <1>1 DEF HandleInv, AllDrawn
  <1>4. ASSUME NEW w \in wrappers, ~ w.borrowed, w.kind = k, ~ CrossThread, w.home = t
        PROVE  w.handle # h
    <2>1. CASE w.object = NoObject
      BY <1>1, <1>4, <2>1 DEF HandlesTyped
    <2>2. CASE w.object # NoObject
      BY <1>1, <1>4, <2>2 DEF HandleInv, OwnedResolves, Found
    <2> QED
      BY <2>1, <2>2
  <1>5. ASSUME NEW i \in 1 .. Len(frames[t]), frames[t][i].kind = k
        PROVE  frames[t][i].handle # h
    <2>1. CASE FreshHandles
      BY <1>1, <2>1 DEF HandleInv, AllDrawn
    <2>2. CASE ~ CrossThread
      <3>1. ~ frames[t][i].returned
        BY NoneReturned
      <3>2. Found(frames[t][i].kind, t, frames[t][i].handle)
        BY <3>1 DEF HandleInv, CallbackFinds
      <3> QED
        BY <1>1, <1>5, <3>2 DEF Found
    <2> QED
      BY <2>1, <2>2 DEF Safe
  <1> QED
    BY <1>2, <1>3, <1>4, <1>5 DEF Safe

LEMMA MakesKeeps ==
    ASSUME AndroidAssumption, HandlesTyped, HandleInv, Safe, NEW t \in Thread, NEW k \in Kinds,
           NEW h \in Handle, NEW o \in Object, Makes(t, k, h, o)
    PROVE  HandleInv'
  <1> DEFINE w == Wrap(k, h, o, t, FALSE)
             T == tables'
             W == wrappers'
             D == drawn'
  <1>1. /\ w.kind = k /\ w.handle = h /\ w.object = o /\ w.home = t /\ ~ w.borrowed
        /\ o # NoObject
    BY DEF Wrap, AndroidAssumption
  <1>2. /\ h \in Free(k, t) /\ Draw(h) /\ Running(t)
        /\ T = Registered(k, t, h, o) /\ W = wrappers \cup {w} /\ UNCHANGED frames
    BY DEF Makes
  <1> HIDE DEF w, T, W, D
  <1>3. /\ \A l \in Kinds, u \in Thread : \A x : x \in DOMAIN T[l][u] <=>
              x \in DOMAIN tables[l][u] \/ (l = k /\ u = t /\ x = h)
        /\ \A l \in Kinds, u \in Thread : \A x \in DOMAIN tables[l][u] : T[l][u][x] = tables[l][u][x]
        /\ T[k][t][h] = o
    BY <1>2, RegisteredTables
  <1>4. drawn \subseteq D /\ (FreshHandles => h \in D)
    BY <1>2, DrawTyped DEF D
  <1>5. /\ \A i \in 1 .. Len(frames[t]) : frames[t][i].kind = k => frames[t][i].handle # h
        /\ FreshHandles => \A x \in wrappers : x.kind = k => x.handle # h
        /\ FreshHandles => \A u \in Thread : h \notin DOMAIN tables[k][u]
    BY <1>2, NewIsNew
  <1>6. WrappersApart'
    <2> SUFFICES ASSUME NEW x \in W, NEW u \in Thread, NEW i \in 1 .. Len(frames[u]),
                        ~ x.borrowed, x.kind = frames[u][i].kind, CrossThread \/ x.home = u
                 PROVE  x.handle # frames[u][i].handle
      BY <1>2 DEF WrappersApart, W
    <2>1. CASE x \in wrappers
      BY <2>1 DEF HandleInv, WrappersApart
    <2>2. CASE x = w /\ u = t
      BY <1>1, <1>5, <2>2
    <2>3. CASE x = w /\ u # t
      <3>1. CrossThread /\ FreshHandles
        BY <1>1, <2>3 DEF Safe
      <3>2. h \notin drawn /\ frames[u][i].handle \in drawn
        BY <1>2, <3>1 DEF Free, HandleInv, AllDrawn
      <3> QED
        BY <1>1, <2>3, <3>2
    <2> QED
      BY <1>2, <2>1, <2>2, <2>3
  <1>7. FramesApart'
    BY <1>2 DEF HandleInv, FramesApart
  <1>8. CallbackFinds'
    <2> SUFFICES ASSUME NEW u \in Thread, NEW i \in 1 .. Len(frames[u]), ~ frames[u][i].returned
                 PROVE  /\ frames[u][i].handle \in DOMAIN T[frames[u][i].kind][u]
                        /\ T[frames[u][i].kind][u][frames[u][i].handle] = frames[u][i].object
      BY <1>2 DEF CallbackFinds, Found, T
    <2>1. /\ frames[u][i].handle \in DOMAIN tables[frames[u][i].kind][u]
          /\ tables[frames[u][i].kind][u][frames[u][i].handle] = frames[u][i].object
          /\ frames[u][i].kind \in Kinds
      BY DEF HandleInv, CallbackFinds, Found, HandlesTyped
    <2> QED
      BY <1>3, <2>1
  <1>9. ASSUME ~ CrossThread PROVE OwnedResolves' /\ Needed'
    <2>1. ASSUME NEW x \in W, ~ x.borrowed, x.object # NoObject
          PROVE  /\ x.handle \in DOMAIN T[x.kind][x.home]
                 /\ T[x.kind][x.home][x.handle] = x.object
      <3>1. CASE x = w
        BY <1>1, <1>3, <3>1
      <3>2. CASE x \in wrappers
        <4>1. x.kind \in Kinds /\ x.home \in Thread
          BY <3>2 DEF HandlesTyped, Wrapper
        <4>2. /\ x.handle \in DOMAIN tables[x.kind][x.home]
              /\ tables[x.kind][x.home][x.handle] = x.object
          BY <1>9, <2>1, <3>2 DEF HandleInv, OwnedResolves, Found
        <4> QED
          BY <1>3, <4>1, <4>2
      <3> QED
        BY <1>2, <3>1, <3>2
    <2>2. ASSUME NEW l \in Kinds, NEW u \in Thread, NEW x \in DOMAIN T[l][u]
          PROVE  \/ \E y \in W : y.kind = l /\ y.home = u /\ y.handle = x /\ ~ y.borrowed
                 \/ \E i \in 1 .. Len(frames[u]) : frames[u][i].kind = l /\ frames[u][i].handle = x
      <3>1. CASE l = k /\ u = t /\ x = h
        BY <1>1, <1>2, <3>1
      <3>2. CASE x \in DOMAIN tables[l][u]
        BY <1>2, <1>9, <3>2 DEF HandleInv, Needed
      <3> QED
        BY <1>3, <3>1, <3>2
    <2> QED
      BY <1>2, <2>1, <2>2 DEF OwnedResolves, Found, Needed, T, W
  <1>10. ASSUME FreshHandles PROVE AllDrawn' /\ NeverAnother'
    <2>1. /\ \A x \in W : x.object # NoObject => x.handle \in D
          /\ \A l \in Kinds, u \in Thread : DOMAIN T[l][u] \subseteq D
          /\ \A u \in Thread : \A i \in 1 .. Len(frames[u]) : frames[u][i].handle \in D
      BY <1>1, <1>2, <1>3, <1>4, <1>10 DEF HandleInv, AllDrawn
    <2>2. ASSUME NEW x \in W, NEW u \in Thread, x.handle \in DOMAIN T[x.kind][u]
          PROVE  T[x.kind][u][x.handle] = x.object
      <3>1. CASE x = w
        <4>1. u = t
          BY <1>1, <1>3, <1>5, <1>10, <2>2, <3>1
        <4> QED
          BY <1>1, <1>3, <3>1, <4>1
      <3>2. CASE x \in wrappers
        <4>1. x.kind \in Kinds
          BY <3>2 DEF HandlesTyped
        <4>2. x.handle \in DOMAIN tables[x.kind][u]
          BY <1>3, <1>5, <1>10, <2>2, <3>2, <4>1
        <4>3. tables[x.kind][u][x.handle] = x.object
          BY <1>10, <3>2, <4>2 DEF HandleInv, NeverAnother, Found
        <4> QED
          BY <1>3, <4>1, <4>2, <4>3
      <3> QED
        BY <1>2, <3>1, <3>2
    <2> QED
      BY <1>2, <2>1, <2>2 DEF AllDrawn, NeverAnother, Found, T, W, D
  <1> QED
    BY <1>6, <1>7, <1>8, <1>9, <1>10 DEF HandleInv

LEMMA ClonesKeep ==
    ASSUME AndroidAssumption, HandlesTyped, HandleInv, NEW t \in Thread, ClonesNothing(t)
    PROVE  HandleInv'
  <1> DEFINE w == Wrap("scope", Zero, NoObject, t, FALSE)
             W == wrappers'
  <1>1. /\ w.kind = "scope" /\ w.handle = Zero /\ w.object = NoObject /\ w.home = t
        /\ ~ w.borrowed /\ "scope" \in Kinds
    BY DEF Wrap, ClonesNothing
  <1>2. W = wrappers \cup {w} /\ UNCHANGED <<tables, frames, drawn>>
    BY DEF ClonesNothing
  <1> HIDE DEF w, W
  <1>3. /\ \A u \in Thread : Zero \notin DOMAIN tables["scope"][u]
        /\ \A u \in Thread : \A i \in 1 .. Len(frames[u]) : frames[u][i].kind # "scope"
    BY <1>1 DEF HandlesTyped, CallbackKinds
  <1>4. WrappersApart'
    <2> SUFFICES ASSUME NEW x \in W, NEW u \in Thread, NEW i \in 1 .. Len(frames[u]),
                        ~ x.borrowed, x.kind = frames[u][i].kind, CrossThread \/ x.home = u
                 PROVE  x.handle # frames[u][i].handle
      BY <1>2 DEF WrappersApart, W
    <2>1. x \in wrappers
      BY <1>1, <1>2, <1>3
    <2> QED
      BY <2>1 DEF HandleInv, WrappersApart
  <1>5. FramesApart' /\ CallbackFinds'
    BY <1>2 DEF HandleInv, FramesApart, CallbackFinds, Found
  <1>6. ASSUME ~ CrossThread PROVE OwnedResolves' /\ Needed'
    <2>1. \A x \in W : ~ x.borrowed /\ x.object # NoObject =>
            Found(x.kind, x.home, x.handle) /\ tables[x.kind][x.home][x.handle] = x.object
      BY <1>1, <1>2, <1>6 DEF HandleInv, OwnedResolves
    <2>2. Needed'
      BY <1>2, <1>6 DEF HandleInv, Needed, W
    <2> QED
      BY <1>2, <2>1, <2>2 DEF OwnedResolves, Found, W
  <1>7. ASSUME FreshHandles PROVE AllDrawn' /\ NeverAnother'
    <2>1. \A x \in W, u \in Thread : Found(x.kind, u, x.handle) =>
             tables[x.kind][u][x.handle] = x.object
      BY <1>1, <1>2, <1>3, <1>7 DEF HandleInv, NeverAnother, Found
    <2>2. \A x \in W : x.object # NoObject => x.handle \in drawn
      BY <1>1, <1>2, <1>7 DEF HandleInv, AllDrawn
    <2> QED
      BY <1>2, <1>7, <2>1, <2>2 DEF HandleInv, AllDrawn, NeverAnother, Found, W
  <1> QED
    BY <1>4, <1>5, <1>6, <1>7 DEF HandleInv

LEMMA DestroysKeeps ==
    ASSUME HandlesTyped, HandleInv, NEW t \in Thread, NEW w \in wrappers, Destroys(t, w)
    PROVE  HandleInv'
  <1> DEFINE T == tables'
             W == wrappers'
  <1>1. /\ W = wrappers \ {w} /\ UNCHANGED <<frames, drawn>>
        /\ w.kind \in Kinds /\ (CrossThread \/ w.home = t)
        /\ T = IF w.borrowed THEN tables ELSE Released(w.kind, t, w.handle)
    BY DEF Destroys, Usable, HandlesTyped
  <1> HIDE DEF T, W
  <1>2. /\ \A l \in Kinds, u \in Thread : \A x : x \in DOMAIN T[l][u] <=>
              x \in DOMAIN tables[l][u] /\ ~ (~ w.borrowed /\ l = w.kind /\ u = t /\ x = w.handle)
        /\ \A l \in Kinds, u \in Thread : \A x \in DOMAIN T[l][u] : T[l][u][x] = tables[l][u][x]
    <2>1. CASE w.borrowed
      BY <1>1, <2>1
    <2>2. CASE ~ w.borrowed
      <3>1. T = Released(w.kind, t, w.handle)
        BY <1>1, <2>2
      <3> QED
        BY <1>1, <2>2, <3>1, ReleasedTables
    <2> QED
      BY <2>1, <2>2
  <1>3. WrappersApart' /\ FramesApart'
    BY <1>1 DEF HandleInv, WrappersApart, FramesApart, W
  <1>4. CallbackFinds'
    <2> SUFFICES ASSUME NEW u \in Thread, NEW i \in 1 .. Len(frames[u]), ~ frames[u][i].returned
                 PROVE  /\ frames[u][i].handle \in DOMAIN T[frames[u][i].kind][u]
                        /\ T[frames[u][i].kind][u][frames[u][i].handle] = frames[u][i].object
      BY <1>1 DEF CallbackFinds, Found, T
    <2>1. /\ frames[u][i].handle \in DOMAIN tables[frames[u][i].kind][u]
          /\ tables[frames[u][i].kind][u][frames[u][i].handle] = frames[u][i].object
          /\ frames[u][i].kind \in Kinds
      BY DEF HandleInv, CallbackFinds, Found, HandlesTyped
    <2>2. ~ (~ w.borrowed /\ frames[u][i].kind = w.kind /\ u = t /\ frames[u][i].handle = w.handle)
      BY <1>1 DEF HandleInv, WrappersApart
    <2> QED
      BY <1>2, <2>1, <2>2
  <1>5. ASSUME ~ CrossThread PROVE OwnedResolves' /\ Needed'
    <2>1. ASSUME NEW x \in W, ~ x.borrowed, x.object # NoObject
          PROVE  /\ x.handle \in DOMAIN T[x.kind][x.home]
                 /\ T[x.kind][x.home][x.handle] = x.object
      <3>1. /\ x \in wrappers /\ x # w /\ x \in Wrapper /\ w \in Wrapper
            /\ x.kind \in Kinds /\ x.home \in Thread
        BY <1>1, <2>1 DEF HandlesTyped, Wrapper
      <3>2. /\ x.handle \in DOMAIN tables[x.kind][x.home]
            /\ tables[x.kind][x.home][x.handle] = x.object
        BY <1>5, <2>1, <3>1 DEF HandleInv, OwnedResolves, Found
      <3>3. ~ (~ w.borrowed /\ x.kind = w.kind /\ x.home = t /\ x.handle = w.handle)
        <4> SUFFICES ASSUME ~ w.borrowed, x.kind = w.kind, x.home = t, x.handle = w.handle
                     PROVE  FALSE
          OBVIOUS
        <4>1. CASE w.object = NoObject
          BY <3>1, <3>2, <4>1 DEF HandlesTyped
        <4>2. CASE w.object # NoObject
          <5>1. tables[w.kind][w.home][w.handle] = w.object /\ w.home = t
            BY <1>1, <1>5, <4>2 DEF HandleInv, OwnedResolves
          <5>2. x.object = w.object /\ x.home = w.home /\ x.borrowed = w.borrowed
            <6>1. x.borrowed \in BOOLEAN /\ w.borrowed \in BOOLEAN
              BY <3>1 DEF Wrapper
            <6> QED
              BY <2>1, <3>2, <5>1, <6>1
          <5>3. x = w
            BY <3>1, <5>2 DEF Wrapper
          <5> QED
            BY <3>1, <5>3
        <4> QED
          BY <4>1, <4>2
      <3> QED
        BY <1>2, <3>1, <3>2, <3>3
    <2>2. ASSUME NEW l \in Kinds, NEW u \in Thread, NEW x \in DOMAIN T[l][u]
          PROVE  \/ \E y \in W : y.kind = l /\ y.home = u /\ y.handle = x /\ ~ y.borrowed
                 \/ \E i \in 1 .. Len(frames[u]) : frames[u][i].kind = l /\ frames[u][i].handle = x
      <3>1. /\ x \in DOMAIN tables[l][u]
            /\ ~ (~ w.borrowed /\ l = w.kind /\ u = t /\ x = w.handle)
        BY <1>2
      <3>2. \/ \E y \in wrappers : y.kind = l /\ y.home = u /\ y.handle = x /\ ~ y.borrowed
            \/ \E i \in 1 .. Len(frames[u]) : frames[u][i].kind = l /\ frames[u][i].handle = x
        BY <1>5, <3>1 DEF HandleInv, Needed
      <3> QED
        BY <1>1, <1>5, <3>1, <3>2
    <2> QED
      BY <1>1, <2>1, <2>2 DEF OwnedResolves, Found, Needed, T, W
  <1>6. ASSUME FreshHandles PROVE AllDrawn' /\ NeverAnother'
    <2>1. /\ \A x \in W : x.object # NoObject => x.handle \in drawn
          /\ \A l \in Kinds, u \in Thread : DOMAIN T[l][u] \subseteq drawn
      BY <1>1, <1>2, <1>6 DEF HandleInv, AllDrawn
    <2>2. \A x \in W, u \in Thread : x.handle \in DOMAIN T[x.kind][u] =>
             T[x.kind][u][x.handle] = x.object
      BY <1>1, <1>2, <1>6 DEF HandleInv, NeverAnother, Found, HandlesTyped
    <2> QED
      BY <1>1, <1>6, <2>1, <2>2 DEF HandleInv, AllDrawn, NeverAnother, Found, T, W
  <1> QED
    BY <1>3, <1>4, <1>5, <1>6 DEF HandleInv

LEMMA AsksKeeps ==
    ASSUME AndroidAssumption, HandlesTyped, HandleInv, Safe, NEW t \in Thread, NEW k \in Kinds,
           NEW h \in Handle, NEW o \in Object, NEW d \in Delivery, Asks(t, k, h, o, d)
    PROVE  HandleInv'
  <1> DEFINE w == Wrap(k, h, o, t, TRUE)
             T == tables'
             W == wrappers'
             D == drawn'
             F == frames'
  <1>0. PICK f \in Frame : Asked(t, k, h, o, d, f)
    BY AsksFrame
  <1>1. w.kind = k /\ w.handle = h /\ w.object = o /\ w.home = t /\ w.borrowed
    BY DEF Wrap
  <1>2. /\ h \in Free(k, t) /\ Draw(h) /\ Running(t)
        /\ T = Registered(k, t, h, o) /\ W = wrappers \cup {w}
        /\ F = [frames EXCEPT ![t] = <<f>> \o @]
        /\ f.kind = k /\ f.handle = h /\ f.object = o
    BY <1>0 DEF Asked
  <1>3. /\ \A u \in Thread : u # t => F[u] = frames[u]
        /\ F[t][1] = f
        /\ \A i \in 1 .. Len(frames[t]) : i + 1 \in 1 .. Len(F[t]) /\ F[t][i + 1] = frames[t][i]
        /\ 1 \in 1 .. Len(F[t])
        /\ \A i \in 1 .. Len(F[t]) : i # 1 =>
             i - 1 \in 1 .. Len(frames[t]) /\ F[t][i] = frames[t][i - 1]
    <2>1. /\ \A u \in Thread : u # t => F[u] = frames[u]
          /\ Len(F[t]) = Len(frames[t]) + 1 /\ F[t][1] = f
          /\ Len(frames[t]) \in Nat
          /\ \A i \in 1 .. Len(frames[t]) : F[t][i + 1] = frames[t][i]
          /\ \A i \in 1 .. Len(F[t]) : i # 1 =>
               i - 1 \in 1 .. Len(frames[t]) /\ F[t][i] = frames[t][i - 1]
      BY <1>2, FramesAsked
    <2> HIDE DEF F
    <2> QED
      BY <2>1
  <1> HIDE DEF w, T, W, D, F
  <1>4. /\ \A l \in Kinds, u \in Thread : \A x : x \in DOMAIN T[l][u] <=>
              x \in DOMAIN tables[l][u] \/ (l = k /\ u = t /\ x = h)
        /\ \A l \in Kinds, u \in Thread : \A x \in DOMAIN tables[l][u] : T[l][u][x] = tables[l][u][x]
        /\ T[k][t][h] = o
    BY <1>2, RegisteredTables
  <1>5. drawn \subseteq D /\ (FreshHandles => h \in D)
    BY <1>2, DrawTyped DEF D
  <1>6. /\ \A x \in wrappers : ~ x.borrowed /\ x.kind = k /\ (CrossThread \/ x.home = t) =>
             x.handle # h
        /\ \A i \in 1 .. Len(frames[t]) : frames[t][i].kind = k => frames[t][i].handle # h
        /\ FreshHandles => \A x \in wrappers : x.kind = k => x.handle # h
        /\ FreshHandles => \A u \in Thread : h \notin DOMAIN tables[k][u]
    BY <1>2, NewIsNew
  <1>7. WrappersApart'
    <2> SUFFICES ASSUME NEW x \in W, NEW u \in Thread, NEW i \in 1 .. Len(F[u]),
                        ~ x.borrowed, x.kind = F[u][i].kind, CrossThread \/ x.home = u
                 PROVE  x.handle # F[u][i].handle
      BY DEF WrappersApart, W, F
    <2>0. x \in wrappers
      BY <1>1, <1>2
    <2>1. CASE u # t
      BY <1>3, <2>0, <2>1 DEF HandleInv, WrappersApart
    <2>2. CASE u = t /\ i = 1
      BY <1>2, <1>3, <1>6, <2>0, <2>2
    <2>3. CASE u = t /\ i # 1
      <3>1. i - 1 \in 1 .. Len(frames[t]) /\ F[t][i] = frames[t][i - 1]
        BY <1>3, <2>3
      <3> QED
        BY <2>0, <2>3, <3>1 DEF HandleInv, WrappersApart
    <2> QED
      BY <2>1, <2>2, <2>3
  <1>8. FramesApart'
    <2> SUFFICES ASSUME NEW u \in Thread, NEW i \in 1 .. Len(F[u]), NEW j \in 1 .. Len(F[u]),
                        i # j, F[u][i].kind = F[u][j].kind
                 PROVE  F[u][i].handle # F[u][j].handle
      BY DEF FramesApart, F
    <2>1. CASE u # t
      BY <1>3, <2>1 DEF HandleInv, FramesApart
    <2>2. CASE u = t /\ i # 1 /\ j # 1
      <3>1. /\ i - 1 \in 1 .. Len(frames[t]) /\ F[t][i] = frames[t][i - 1]
            /\ j - 1 \in 1 .. Len(frames[t]) /\ F[t][j] = frames[t][j - 1]
            /\ i - 1 # j - 1
        BY <1>3, <2>2
      <3> QED
        BY <2>2, <3>1 DEF HandleInv, FramesApart
    <2>3. CASE u = t /\ i = 1
      <3>1. j - 1 \in 1 .. Len(frames[t]) /\ F[t][j] = frames[t][j - 1]
        BY <1>3, <2>3
      <3>2. F[t][1].kind = k /\ F[t][1].handle = h
        BY <1>2, <1>3
      <3>3. frames[t][j - 1].handle # h
        BY <1>6, <2>3, <3>1, <3>2
      <3> QED
        BY <2>3, <3>1, <3>2, <3>3
    <2>4. CASE u = t /\ j = 1
      <3>1. i # 1 /\ F[t][j].kind = k /\ F[t][j].handle = h
        BY <1>2, <1>3, <2>4
      <3>2. i - 1 \in 1 .. Len(frames[t]) /\ F[t][i] = frames[t][i - 1]
        BY <1>3, <2>4, <3>1
      <3>3. frames[t][i - 1].handle # h
        BY <1>6, <2>4, <3>1, <3>2
      <3> QED
        BY <2>4, <3>1, <3>2, <3>3
    <2> QED
      BY <2>1, <2>2, <2>3, <2>4
  <1>9. CallbackFinds'
    <2> SUFFICES ASSUME NEW u \in Thread, NEW i \in 1 .. Len(F[u]), ~ F[u][i].returned
                 PROVE  /\ F[u][i].handle \in DOMAIN T[F[u][i].kind][u]
                        /\ T[F[u][i].kind][u][F[u][i].handle] = F[u][i].object
      BY DEF CallbackFinds, Found, T, F
    <2>1. CASE u = t /\ i = 1
      BY <1>2, <1>3, <1>4, <2>1
    <2>2. ASSUME NEW j \in 1 .. Len(frames[u]), F[u][i] = frames[u][j]
          PROVE  /\ F[u][i].handle \in DOMAIN T[F[u][i].kind][u]
                 /\ T[F[u][i].kind][u][F[u][i].handle] = F[u][i].object
      <3>1. /\ frames[u][j].handle \in DOMAIN tables[frames[u][j].kind][u]
            /\ tables[frames[u][j].kind][u][frames[u][j].handle] = frames[u][j].object
            /\ frames[u][j].kind \in Kinds
        BY <2>2 DEF HandleInv, CallbackFinds, Found, HandlesTyped
      <3> QED
        BY <1>4, <2>2, <3>1
    <2>3. CASE ~ (u = t /\ i = 1)
      <3>1. \E j \in 1 .. Len(frames[u]) : F[u][i] = frames[u][j]
        <4>1. CASE u # t
          BY <1>3, <4>1
        <4>2. CASE u = t
          BY <1>3, <2>3, <4>2
        <4> QED
          BY <4>1, <4>2
      <3> QED
        BY <2>2, <3>1
    <2> QED
      BY <2>1, <2>3
  <1>10. ASSUME ~ CrossThread PROVE OwnedResolves' /\ Needed'
    <2>1. ASSUME NEW x \in W, ~ x.borrowed, x.object # NoObject
          PROVE  /\ x.handle \in DOMAIN T[x.kind][x.home]
                 /\ T[x.kind][x.home][x.handle] = x.object
      <3>1. x \in wrappers /\ x.kind \in Kinds /\ x.home \in Thread
        BY <1>1, <1>2, <2>1 DEF HandlesTyped, Wrapper
      <3>2. /\ x.handle \in DOMAIN tables[x.kind][x.home]
            /\ tables[x.kind][x.home][x.handle] = x.object
        BY <1>10, <2>1, <3>1 DEF HandleInv, OwnedResolves, Found
      <3> QED
        BY <1>4, <3>1, <3>2
    <2>2. ASSUME NEW l \in Kinds, NEW u \in Thread, NEW x \in DOMAIN T[l][u]
          PROVE  \/ \E y \in W : y.kind = l /\ y.home = u /\ y.handle = x /\ ~ y.borrowed
                 \/ \E i \in 1 .. Len(F[u]) : F[u][i].kind = l /\ F[u][i].handle = x
      <3>1. CASE l = k /\ u = t /\ x = h
        BY <1>2, <1>3, <3>1
      <3>2. CASE x \in DOMAIN tables[l][u]
        <4>1. \/ \E y \in wrappers : y.kind = l /\ y.home = u /\ y.handle = x /\ ~ y.borrowed
              \/ \E i \in 1 .. Len(frames[u]) : frames[u][i].kind = l /\ frames[u][i].handle = x
          BY <1>10, <3>2 DEF HandleInv, Needed
        <4>2. CASE \E y \in wrappers : y.kind = l /\ y.home = u /\ y.handle = x /\ ~ y.borrowed
          BY <1>2, <4>2
        <4>3. ASSUME NEW i \in 1 .. Len(frames[u]), frames[u][i].kind = l, frames[u][i].handle = x
              PROVE  \E j \in 1 .. Len(F[u]) : F[u][j].kind = l /\ F[u][j].handle = x
          <5>1. CASE u # t
            BY <1>3, <4>3, <5>1
          <5>2. CASE u = t
            <6>1. i + 1 \in 1 .. Len(F[u]) /\ F[u][i + 1] = frames[u][i]
              BY <1>3, <5>2
            <6> QED
              BY <4>3, <6>1
          <5> QED
            BY <5>1, <5>2
        <4> QED
          BY <4>1, <4>2, <4>3
      <3> QED
        BY <1>4, <3>1, <3>2
    <2> QED
      BY <2>1, <2>2 DEF OwnedResolves, Found, Needed, T, W, F
  <1>11. ASSUME FreshHandles PROVE AllDrawn' /\ NeverAnother'
    <2>1. /\ \A x \in W : x.object # NoObject => x.handle \in D
          /\ \A l \in Kinds, u \in Thread : DOMAIN T[l][u] \subseteq D
      BY <1>1, <1>2, <1>4, <1>5, <1>11 DEF HandleInv, AllDrawn
    <2>2. ASSUME NEW u \in Thread, NEW i \in 1 .. Len(F[u])
          PROVE  F[u][i].handle \in D
      <3>1. CASE u # t
        BY <1>3, <1>5, <1>11, <3>1 DEF HandleInv, AllDrawn
      <3>2. CASE u = t /\ i = 1
        BY <1>2, <1>3, <1>5, <1>11, <3>2
      <3>3. CASE u = t /\ i # 1
        <4>1. i - 1 \in 1 .. Len(frames[t]) /\ F[t][i] = frames[t][i - 1]
          BY <1>3, <3>3
        <4> QED
          BY <1>5, <1>11, <3>3, <4>1 DEF HandleInv, AllDrawn
      <3> QED
        BY <3>1, <3>2, <3>3
    <2>3. ASSUME NEW x \in W, NEW u \in Thread, x.handle \in DOMAIN T[x.kind][u]
          PROVE  T[x.kind][u][x.handle] = x.object
      <3>1. CASE x = w
        <4>1. u = t
          BY <1>1, <1>4, <1>6, <1>11, <2>3, <3>1
        <4> QED
          BY <1>1, <1>4, <3>1, <4>1
      <3>2. CASE x \in wrappers
        <4>1. x.kind \in Kinds
          BY <3>2 DEF HandlesTyped
        <4>2. x.handle \in DOMAIN tables[x.kind][u]
          BY <1>4, <1>6, <1>11, <2>3, <3>2, <4>1
        <4>3. tables[x.kind][u][x.handle] = x.object
          BY <1>11, <3>2, <4>2 DEF HandleInv, NeverAnother, Found
        <4> QED
          BY <1>4, <4>1, <4>2, <4>3
      <3> QED
        BY <1>2, <3>1, <3>2
    <2> QED
      BY <2>1, <2>2, <2>3 DEF AllDrawn, NeverAnother, Found, T, W, D, F
  <1> QED
    BY <1>7, <1>8, <1>9, <1>10, <1>11 DEF HandleInv

LEMMA JudgesKeeps ==
    ASSUME HandlesTyped, HandleInv, NEW t \in Thread, NEW keep \in BOOLEAN, NEW w \in Wrapper,
           Judges(t, keep, w)
    PROVE  HandleInv'
  <1> DEFINE f == frames[t][1]
             T == tables'
             W == wrappers'
             F == frames'
  <1>1. /\ frames[t] # <<>> /\ F = [frames EXCEPT ![t][1].returned = TRUE]
        /\ drawn' = drawn /\ W \in {wrappers, wrappers \ {w}} /\ w.borrowed
    BY DEF Judges
  <1>2. /\ \A u \in Thread : u # t => F[u] = frames[u]
        /\ Len(F[t]) = Len(frames[t]) /\ 1 \in 1 .. Len(frames[t])
        /\ Head(frames[t]) = f /\ f \in Frame
        /\ F[t][1] = [f EXCEPT !.returned = TRUE]
        /\ \A i \in 1 .. Len(frames[t]) : i # 1 => F[t][i] = frames[t][i]
    BY <1>1, FramesJudged
  <1>3. /\ T = IF keep THEN tables ELSE Released(f.kind, t, f.handle)
        /\ f.kind \in Kinds
    BY <1>2 DEF Judges, HandlesTyped
  <1> HIDE DEF f, T, W, F
  <1>4. /\ \A l \in Kinds, u \in Thread : \A x : x \in DOMAIN T[l][u] =>
              x \in DOMAIN tables[l][u]
        /\ \A l \in Kinds, u \in Thread : \A x : x \in DOMAIN tables[l][u] /\ x \notin DOMAIN T[l][u] =>
              l = f.kind /\ u = t /\ x = f.handle
        /\ \A l \in Kinds, u \in Thread : \A x \in DOMAIN T[l][u] : T[l][u][x] = tables[l][u][x]
    <2>1. CASE keep
      BY <1>3, <2>1
    <2>2. CASE ~ keep
      <3>1. T = Released(f.kind, t, f.handle)
        BY <1>3, <2>2
      <3> QED
        BY <1>3, <3>1, ReleasedTables
    <2> QED
      BY <2>1, <2>2
  <1>5. F[t][1].kind = f.kind /\ F[t][1].handle = f.handle /\ F[t][1].returned
    BY <1>2 DEF Frame
  <1>6. \A u \in Thread : \A i \in 1 .. Len(F[u]) :
          /\ i \in 1 .. Len(frames[u])
          /\ F[u][i].kind = frames[u][i].kind /\ F[u][i].handle = frames[u][i].handle
          /\ ~ (u = t /\ i = 1) => F[u][i] = frames[u][i]
    BY <1>2, <1>5 DEF f
  <1>7. WrappersApart' /\ FramesApart'
    <2>1. \A x \in W, u \in Thread : \A i \in 1 .. Len(F[u]) :
            ~ x.borrowed /\ x.kind = F[u][i].kind /\ (CrossThread \/ x.home = u) =>
              x.handle # F[u][i].handle
      BY <1>1, <1>6 DEF HandleInv, WrappersApart
    <2>2. \A u \in Thread : \A i, j \in 1 .. Len(F[u]) :
            i # j /\ F[u][i].kind = F[u][j].kind => F[u][i].handle # F[u][j].handle
      BY <1>6 DEF HandleInv, FramesApart
    <2> QED
      BY <2>1, <2>2 DEF WrappersApart, FramesApart, W, F
  <1>8. CallbackFinds'
    <2> SUFFICES ASSUME NEW u \in Thread, NEW i \in 1 .. Len(F[u]), ~ F[u][i].returned
                 PROVE  /\ F[u][i].handle \in DOMAIN T[F[u][i].kind][u]
                        /\ T[F[u][i].kind][u][F[u][i].handle] = F[u][i].object
      BY DEF CallbackFinds, Found, T, F
    <2>1. ~ (u = t /\ i = 1) /\ i \in 1 .. Len(frames[u]) /\ F[u][i] = frames[u][i]
      BY <1>5, <1>6
    <2>2. /\ frames[u][i].handle \in DOMAIN tables[frames[u][i].kind][u]
          /\ tables[frames[u][i].kind][u][frames[u][i].handle] = frames[u][i].object
          /\ frames[u][i].kind \in Kinds
      BY <2>1 DEF HandleInv, CallbackFinds, Found, HandlesTyped
    <2>3. ~ (frames[u][i].kind = f.kind /\ u = t /\ frames[u][i].handle = f.handle)
      BY <1>2, <2>1 DEF HandleInv, FramesApart, f
    <2> QED
      BY <1>4, <2>1, <2>2, <2>3
  <1>9. ASSUME ~ CrossThread PROVE OwnedResolves' /\ Needed'
    <2>1. ASSUME NEW x \in W, ~ x.borrowed, x.object # NoObject
          PROVE  /\ x.handle \in DOMAIN T[x.kind][x.home]
                 /\ T[x.kind][x.home][x.handle] = x.object
      <3>1. x \in wrappers /\ x.kind \in Kinds /\ x.home \in Thread
        BY <1>1, <2>1 DEF HandlesTyped, Wrapper
      <3>2. /\ x.handle \in DOMAIN tables[x.kind][x.home]
            /\ tables[x.kind][x.home][x.handle] = x.object
        BY <1>9, <2>1, <3>1 DEF HandleInv, OwnedResolves, Found
      <3>3. ~ (x.kind = f.kind /\ x.home = t /\ x.handle = f.handle)
        BY <1>2, <2>1, <3>1 DEF HandleInv, WrappersApart, f
      <3> QED
        BY <1>4, <3>1, <3>2, <3>3
    <2>2. ASSUME NEW l \in Kinds, NEW u \in Thread, NEW x \in DOMAIN T[l][u]
          PROVE  \/ \E y \in W : y.kind = l /\ y.home = u /\ y.handle = x /\ ~ y.borrowed
                 \/ \E i \in 1 .. Len(F[u]) : F[u][i].kind = l /\ F[u][i].handle = x
      <3>1. \/ \E y \in wrappers : y.kind = l /\ y.home = u /\ y.handle = x /\ ~ y.borrowed
            \/ \E i \in 1 .. Len(frames[u]) : frames[u][i].kind = l /\ frames[u][i].handle = x
        BY <1>4, <1>9 DEF HandleInv, Needed
      <3>2. CASE \E y \in wrappers : y.kind = l /\ y.home = u /\ y.handle = x /\ ~ y.borrowed
        BY <1>1, <3>2
      <3>3. ASSUME NEW i \in 1 .. Len(frames[u]), frames[u][i].kind = l, frames[u][i].handle = x
            PROVE  \E j \in 1 .. Len(F[u]) : F[u][j].kind = l /\ F[u][j].handle = x
        <4>1. i \in 1 .. Len(F[u])
          BY <1>2
        <4> QED
          BY <1>6, <3>3, <4>1
      <3> QED
        BY <3>1, <3>2, <3>3
    <2> QED
      BY <2>1, <2>2 DEF OwnedResolves, Found, Needed, T, W, F
  <1>10. ASSUME FreshHandles PROVE AllDrawn' /\ NeverAnother'
    <2>1. /\ \A x \in W : x \in wrappers /\ (x.object # NoObject => x.handle \in drawn)
          /\ \A l \in Kinds, u \in Thread : DOMAIN T[l][u] \subseteq drawn
          /\ \A u \in Thread : \A i \in 1 .. Len(F[u]) : F[u][i].handle \in drawn
      BY <1>1, <1>4, <1>6, <1>10 DEF HandleInv, AllDrawn
    <2>2. \A x \in W, u \in Thread : x.handle \in DOMAIN T[x.kind][u] =>
             T[x.kind][u][x.handle] = x.object
      BY <1>4, <1>10, <2>1 DEF HandleInv, NeverAnother, Found, HandlesTyped
    <2> QED
      BY <1>1, <2>1, <2>2 DEF AllDrawn, NeverAnother, Found, T, W, F
  <1> QED
    BY <1>7, <1>8, <1>9, <1>10 DEF HandleInv

LEMMA ResumesKeeps ==
    ASSUME HandlesTyped, HandleInv, NEW t \in Thread, Resumes(t)
    PROVE  HandleInv'
  <1> DEFINE f == frames[t][1]
             T == tables'
             F == frames'
  <1>1. /\ frames[t] # <<>> /\ F = [frames EXCEPT ![t] = Tail(@)]
        /\ wrappers' = wrappers /\ drawn' = drawn
    BY DEF Resumes
  <1>2. /\ \A u \in Thread : u # t => F[u] = frames[u]
        /\ Head(frames[t]) = f /\ 1 \in 1 .. Len(frames[t])
        /\ \A i \in 1 .. Len(F[t]) :
             i + 1 \in 1 .. Len(frames[t]) /\ i + 1 # 1 /\ F[t][i] = frames[t][i + 1]
        /\ \A i \in 1 .. Len(frames[t]) : i # 1 =>
             i - 1 \in 1 .. Len(F[t]) /\ F[t][i - 1] = frames[t][i]
    BY <1>1, FramesResumed
  <1>3. T = Released(f.kind, t, f.handle) /\ f.kind \in Kinds
    BY <1>2 DEF Resumes, HandlesTyped
  <1> HIDE DEF f, T, F
  <1>4. /\ \A l \in Kinds, u \in Thread : \A x : x \in DOMAIN T[l][u] <=>
              x \in DOMAIN tables[l][u] /\ ~ (l = f.kind /\ u = t /\ x = f.handle)
        /\ \A l \in Kinds, u \in Thread : \A x \in DOMAIN T[l][u] : T[l][u][x] = tables[l][u][x]
    BY <1>3, ReleasedTables
  <1>5. ASSUME NEW u \in Thread, NEW i \in 1 .. Len(F[u])
        PROVE  \E j \in 1 .. Len(frames[u]) :
                 j = (IF u = t THEN i + 1 ELSE i) /\ ~ (u = t /\ j = 1) /\ F[u][i] = frames[u][j]
    <2>1. CASE u = t
      BY <1>2, <2>1
    <2>2. CASE u # t
      BY <1>2, <2>2
    <2> QED
      BY <2>1, <2>2
  <1>6. WrappersApart'
    <2>0. wrappers' = wrappers
      BY <1>1
    <2> SUFFICES ASSUME NEW x \in wrappers, NEW u \in Thread, NEW i \in 1 .. Len(F[u]),
                        ~ x.borrowed, x.kind = F[u][i].kind, CrossThread \/ x.home = u
                 PROVE  x.handle # F[u][i].handle
      BY <2>0 DEF WrappersApart, F
    <2>1. PICK j \in 1 .. Len(frames[u]) : F[u][i] = frames[u][j]
      BY <1>5
    <2> QED
      BY <2>1 DEF HandleInv, WrappersApart
  <1>7. FramesApart'
    <2> SUFFICES ASSUME NEW u \in Thread, NEW i \in 1 .. Len(F[u]), NEW j \in 1 .. Len(F[u]),
                        i # j, F[u][i].kind = F[u][j].kind
                 PROVE  F[u][i].handle # F[u][j].handle
      BY DEF FramesApart, F
    <2>1. PICK m \in 1 .. Len(frames[u]) :
            m = (IF u = t THEN i + 1 ELSE i) /\ F[u][i] = frames[u][m]
      BY <1>5
    <2>2. PICK n \in 1 .. Len(frames[u]) :
            n = (IF u = t THEN j + 1 ELSE j) /\ F[u][j] = frames[u][n]
      BY <1>5
    <2>3. m # n
      BY <2>1, <2>2
    <2> QED
      BY <2>1, <2>2, <2>3 DEF HandleInv, FramesApart
  <1>8. CallbackFinds'
    <2> SUFFICES ASSUME NEW u \in Thread, NEW i \in 1 .. Len(F[u]), ~ F[u][i].returned
                 PROVE  /\ F[u][i].handle \in DOMAIN T[F[u][i].kind][u]
                        /\ T[F[u][i].kind][u][F[u][i].handle] = F[u][i].object
      BY DEF CallbackFinds, Found, T, F
    <2>1. PICK j \in 1 .. Len(frames[u]) : ~ (u = t /\ j = 1) /\ F[u][i] = frames[u][j]
      BY <1>5
    <2>2. /\ frames[u][j].handle \in DOMAIN tables[frames[u][j].kind][u]
          /\ tables[frames[u][j].kind][u][frames[u][j].handle] = frames[u][j].object
          /\ frames[u][j].kind \in Kinds
      BY <2>1 DEF HandleInv, CallbackFinds, Found, HandlesTyped
    <2>3. ~ (frames[u][j].kind = f.kind /\ u = t /\ frames[u][j].handle = f.handle)
      <3> SUFFICES ASSUME u = t, frames[t][j].kind = frames[t][1].kind
                   PROVE  frames[t][j].handle # frames[t][1].handle
        BY DEF f
      <3>1. j # 1 /\ j \in 1 .. Len(frames[t])
        BY <2>1
      <3> QED
        BY <1>2, <3>1 DEF HandleInv, FramesApart
    <2> QED
      BY <1>4, <2>1, <2>2, <2>3
  <1>9. ASSUME ~ CrossThread PROVE OwnedResolves' /\ Needed'
    <2>1. ASSUME NEW x \in wrappers, ~ x.borrowed, x.object # NoObject
          PROVE  /\ x.handle \in DOMAIN T[x.kind][x.home]
                 /\ T[x.kind][x.home][x.handle] = x.object
      <3>1. x.kind \in Kinds /\ x.home \in Thread
        BY DEF HandlesTyped, Wrapper
      <3>2. /\ x.handle \in DOMAIN tables[x.kind][x.home]
            /\ tables[x.kind][x.home][x.handle] = x.object
        BY <1>9, <2>1 DEF HandleInv, OwnedResolves, Found
      <3>3. ~ (x.kind = f.kind /\ x.home = t /\ x.handle = f.handle)
        BY <1>2, <2>1 DEF HandleInv, WrappersApart, f
      <3> QED
        BY <1>4, <3>1, <3>2, <3>3
    <2>2. ASSUME NEW l \in Kinds, NEW u \in Thread, NEW x \in DOMAIN T[l][u]
          PROVE  \/ \E y \in wrappers : y.kind = l /\ y.home = u /\ y.handle = x /\ ~ y.borrowed
                 \/ \E i \in 1 .. Len(F[u]) : F[u][i].kind = l /\ F[u][i].handle = x
      <3>1. /\ \/ \E y \in wrappers : y.kind = l /\ y.home = u /\ y.handle = x /\ ~ y.borrowed
               \/ \E i \in 1 .. Len(frames[u]) : frames[u][i].kind = l /\ frames[u][i].handle = x
            /\ ~ (l = f.kind /\ u = t /\ x = f.handle)
        BY <1>4, <1>9 DEF HandleInv, Needed
      <3>2. ASSUME NEW i \in 1 .. Len(frames[u]), frames[u][i].kind = l, frames[u][i].handle = x
            PROVE  \E j \in 1 .. Len(F[u]) : F[u][j].kind = l /\ F[u][j].handle = x
        <4>1. CASE u # t
          BY <1>2, <3>2, <4>1
        <4>2. CASE u = t
          <5>1. i # 1
            BY <3>1, <3>2, <4>2 DEF f
          <5>2. i - 1 \in 1 .. Len(F[t]) /\ F[t][i - 1] = frames[t][i]
            BY <1>2, <4>2, <5>1
          <5> QED
            BY <3>2, <4>2, <5>2
        <4> QED
          BY <4>1, <4>2
      <3> QED
        BY <3>1, <3>2
    <2> QED
      BY <1>1, <2>1, <2>2 DEF OwnedResolves, Found, Needed, T, F
  <1>10. ASSUME FreshHandles PROVE AllDrawn' /\ NeverAnother'
    <2>1. \A l \in Kinds, u \in Thread : DOMAIN T[l][u] \subseteq drawn
      BY <1>4, <1>10 DEF HandleInv, AllDrawn
    <2>2. ASSUME NEW u \in Thread, NEW i \in 1 .. Len(F[u])
          PROVE  F[u][i].handle \in drawn
      <3>1. PICK j \in 1 .. Len(frames[u]) : F[u][i] = frames[u][j]
        BY <1>5
      <3> QED
        BY <1>10, <3>1 DEF HandleInv, AllDrawn
    <2>3. \A x \in wrappers, u \in Thread : x.handle \in DOMAIN T[x.kind][u] =>
             T[x.kind][u][x.handle] = x.object
      BY <1>4, <1>10 DEF HandleInv, NeverAnother, Found, HandlesTyped
    <2> QED
      BY <1>1, <1>10, <2>1, <2>2, <2>3 DEF HandleInv, AllDrawn, NeverAnother, Found, T, F
  <1> QED
    BY <1>6, <1>7, <1>8, <1>9, <1>10 DEF HandleInv

LEMMA EffectKeeps ==
    ASSUME AndroidAssumption, HandlesTyped, HandleInv, Safe, NEW t \in Thread, Effect(t)
    PROVE  HandleInv'
  <1>1. CASE Rests
    BY <1>1 DEF Rests, HandleInv, WrappersApart, FramesApart, CallbackFinds, OwnedResolves,
                Needed, AllDrawn, NeverAnother, Found
  <1>2. CASE \E k \in Kinds, h \in Handle, o \in Object : Makes(t, k, h, o)
    BY <1>2, MakesKeeps
  <1>3. CASE ClonesNothing(t)
    BY <1>3, ClonesKeep
  <1>4. CASE \E w \in wrappers : Destroys(t, w)
    BY <1>4, DestroysKeeps
  <1>5. CASE \E k \in Kinds, h \in Handle, o \in Object, d \in Delivery : Asks(t, k, h, o, d)
    BY <1>5, AsksKeeps
  <1>6. CASE \E keep \in BOOLEAN, w \in Wrapper : Judges(t, keep, w)
    BY <1>6, JudgesKeeps
  <1>7. CASE Resumes(t)
    BY <1>7, ResumesKeeps
  <1> QED
    BY <1>1, <1>2, <1>3, <1>4, <1>5, <1>6, <1>7 DEF Effect, Keeps

-----------------------------------------------------------------------------
(* What objects hold stays data, whatever is called.                       *)
LEMMA OutcomesTyped ==
    ASSUME NEW d \in Data
    PROVE  /\ Blank \in Data
           /\ SetOrUnset(d) \subseteq Data /\ Adding(d) \subseteq Data /\ Removing(d) \subseteq Data
           /\ EventOutcomes(d) \subseteq Data /\ BreadcrumbOutcomes(d) \subseteq Data
           /\ ScopeOutcomes(d) \subseteq Data /\ LogOutcomes(d) \subseteq Data
           /\ MetricOutcomes(d) \subseteq Data
  <1>1. Blank \in Data
    BY DEF Blank, Data
  <1>2. SetOrUnset(d) \subseteq Data
    BY DEF SetOrUnset, Data
  <1>3. Adding(d) \subseteq Data
    BY DEF Adding, Data
  <1>4. Removing(d) \subseteq Data
    BY DEF Removing, Data
  <1>5. BreadcrumbOutcomes(d) \subseteq Data
    BY <1>2 DEF BreadcrumbOutcomes, Data
  <1> QED
    BY <1>1, <1>2, <1>3, <1>4, <1>5
    DEF EventOutcomes, ScopeOutcomes, LogOutcomes, MetricOutcomes

LEMMA ContentTyped ==
    ASSUME Typed, NEW t \in Thread, NEW w \in Usable(t) PROVE Content(t, w) \in Data
  <1>1. Blank \in Data
    BY DEF Blank, Data
  <1> QED
    BY <1>1 DEF Typed, HandlesTyped, DataTyped, Content, Found, Usable

LEMMA CallTyped ==
    ASSUME Typed, NEW t \in Thread, NEW w \in Usable(t), NEW outcomes, outcomes \subseteq Data,
           Call(t, w, outcomes)
    PROVE  DataTyped'
  <1>1. data' \in [Object -> Data]
    <2>1. CASE Found(w.kind, t, w.handle)
      <3>1. tables[w.kind][t][w.handle] \in Object
        BY <2>1 DEF Typed, HandlesTyped, Usable, Found
      <3>2. PICK d \in outcomes : data' = [data EXCEPT ![tables[w.kind][t][w.handle]] = d]
        BY <2>1 DEF Call
      <3> QED
        BY <3>1, <3>2 DEF Typed, DataTyped
    <2>2. CASE ~ Found(w.kind, t, w.handle)
      BY <2>2 DEF Call, Typed, DataTyped
    <2> QED
      BY <2>1, <2>2
  <1> QED
    BY <1>1 DEF Call, Typed, DataTyped

LEMMA UsesDataTyped ==
    ASSUME Typed, NEW t \in Thread,
           UseEvent(t) \/ UseBreadcrumb(t) \/ UseScope(t) \/ UseLog(t) \/ UseMetric(t) \/ AddToScope(t)
    PROVE  DataTyped'
  <1>1. CASE UseEvent(t)
    BY <1>1, ContentTyped, OutcomesTyped, CallTyped DEF UseEvent
  <1>2. CASE UseBreadcrumb(t)
    BY <1>2, ContentTyped, OutcomesTyped, CallTyped DEF UseBreadcrumb
  <1>3. CASE UseScope(t)
    BY <1>3, ContentTyped, OutcomesTyped, CallTyped DEF UseScope
  <1>4. CASE UseLog(t)
    BY <1>4, ContentTyped, OutcomesTyped, CallTyped DEF UseLog
  <1>5. CASE UseMetric(t)
    BY <1>5, ContentTyped, OutcomesTyped, CallTyped DEF UseMetric
  <1>6. CASE AddToScope(t)
    <2>1. PICK s \in Usable(t), c \in Usable(t) :
            IF Found("breadcrumb", t, c.handle)
            THEN Call(t, s, {[Content(t, s) EXCEPT !.parts = @ \cup Content(t, c).parts]})
            ELSE Call(t, c, {})
      BY <1>6 DEF AddToScope
    <2>2. Content(t, s) \in Data /\ Content(t, c) \in Data
      BY ContentTyped
    <2>3. {[Content(t, s) EXCEPT !.parts = @ \cup Content(t, c).parts]} \subseteq Data
      BY <2>2 DEF Data
    <2> DEFINE more == {[Content(t, s) EXCEPT !.parts = @ \cup Content(t, c).parts]}
    <2>4. CASE Call(t, s, more)
      <3> HIDE DEF more
      <3> QED
        BY <2>3, <2>4, CallTyped DEF more
    <2>5. CASE Call(t, c, {})
      BY <2>5, CallTyped
    <2> QED
      BY <2>1, <2>4, <2>5
  <1> QED
    BY <1>1, <1>2, <1>3, <1>4, <1>5, <1>6

LEMMA NewDataTyped ==
    ASSUME Typed, NEW t, NEW k, NEW content \in Data, New(t, k, content) PROVE DataTyped'
  <1>1. PICK o \in Object \ Held, h \in Free(k, t) :
          data' = [data EXCEPT ![o] = content] /\ UNCHANGED <<enabled, handlers, global>>
    BY DEF New
  <1> QED
    BY <1>1 DEF Typed, DataTyped

LEMMA CreatesDataTyped ==
    ASSUME Typed, NEW t \in Thread, CreateEvent(t) \/ CreateBreadcrumb(t) \/ CreateScope(t) \/ CloneScope(t)
    PROVE  DataTyped'
  <1>1. Blank \in Data
    BY DEF Blank, Data
  <1>2. CASE CreateEvent(t) \/ CreateBreadcrumb(t) \/ CreateScope(t)
    BY <1>1, <1>2, NewDataTyped DEF CreateEvent, CreateBreadcrumb, CreateScope
  <1>3. CASE CloneScope(t)
    <2>1. PICK w \in Usable(t) :
            /\ w.kind = "scope"
            /\ Found("scope", t, w.handle) => New(t, "scope", data[tables["scope"][t][w.handle]])
            /\ ~ Found("scope", t, w.handle) => UNCHANGED <<data, enabled, handlers, global>>
      BY <1>3 DEF CloneScope
    <2>2. CASE Found("scope", t, w.handle)
      <3>1. data[tables["scope"][t][w.handle]] \in Data
        BY <2>1, <2>2 DEF Typed, HandlesTyped, DataTyped, Usable, Found
      <3> QED
        BY <2>1, <2>2, <3>1, NewDataTyped
    <2>3. CASE ~ Found("scope", t, w.handle)
      BY <2>1, <2>3 DEF Typed, DataTyped
    <2> QED
      BY <2>2, <2>3
  <1> QED
    BY <1>2, <1>3

(* The layered scopes after a capture.                                     *)
LEMMA CombinedLayered ==
    ASSUME Typed, Layered, "scope" \in Kinds, NEW t \in Thread, NEW h, NEW C, C = CombinedAfter(t, h)
    PROVE  /\ DOMAIN C = Thread
           /\ \A u \in Thread : \A x \in DOMAIN C[u] :
                Found("scope", u, x) /\ C[u][x] = tables["scope"][u][x]
           /\ enabled /\ Found("scope", t, h) => h \in DOMAIN C[t]
  <1>1. CASE enabled /\ Found("scope", t, h) /\ h \notin DOMAIN combined[t]
    <2> DEFINE F == With(combined[t], h, tables["scope"][t][h])
    <2>1. C = [combined EXCEPT ![t] = F]
      BY <1>1 DEF CombinedAfter
    <2>2. DOMAIN F = DOMAIN combined[t] \cup {h} /\ F[h] = tables["scope"][t][h]
          /\ \A x \in DOMAIN combined[t] : x # h => F[x] = combined[t][x]
      BY DEF With
    <2> HIDE DEF F
    <2>3. DOMAIN C = Thread /\ C[t] = F /\ \A u \in Thread : u # t => C[u] = combined[u]
      BY <2>1 DEF Layered
    <2> QED
      BY <1>1, <2>2, <2>3 DEF Layered
  <1>2. CASE ~ (enabled /\ Found("scope", t, h) /\ h \notin DOMAIN combined[t])
    BY <1>2 DEF CombinedAfter, Layered
  <1> QED
    BY <1>1, <1>2

LEMMA LocalDataTyped ==
    ASSUME Typed, Layered, "scope" \in Kinds, NEW t \in Thread, NEW h
    PROVE  LocalData(t, h) \in SUBSET (Mark \cup {"default", "user"})
  <1>1. CASE enabled /\ Found("scope", t, h)
    <2> DEFINE C == CombinedAfter(t, h)
    <2>1. h \in DOMAIN C[t] /\ C[t][h] = tables["scope"][t][h]
      BY <1>1, CombinedLayered
    <2>2. C[t][h] \in Object
      BY <1>1, <2>1 DEF Typed, HandlesTyped, Found
    <2>3. LocalData(t, h) = data[C[t][h]].parts
      BY <1>1 DEF LocalData
    <2> HIDE DEF C
    <2> QED
      BY <2>2, <2>3 DEF Typed, DataTyped, Data
  <1>2. CASE ~ (enabled /\ Found("scope", t, h))
    BY <1>2 DEF LocalData
  <1> QED
    BY <1>1, <1>2

LEMMA CapturesDataTyped ==
    ASSUME Typed, Layered, NEW t \in Thread, CaptureEvent(t) \/ \E k \in Kinds : CaptureNew(t, k)
    PROVE  DataTyped'
  <1> DEFINE Parts == SUBSET (Mark \cup {"default", "user"})
  <1>1. CASE CaptureEvent(t)
    <2>1. PICK w \in Usable(t), s \in ScopeHandles(t) :
            /\ w.kind = "event"
            /\ IF ~ Found("event", t, w.handle) \/ ~ enabled
               THEN data' = data
               ELSE data' = [data EXCEPT ![tables["event"][t][w.handle]].parts =
                       @ \cup global \cup (IF "scope" \in Kinds THEN LocalData(t, s) ELSE {})]
      BY <1>1 DEF CaptureEvent
    <2>2. UNCHANGED <<enabled, handlers, global>>
      BY <1>1 DEF CaptureEvent
    <2> DEFINE more == IF "scope" \in Kinds THEN LocalData(t, s) ELSE {}
    <2>3. more \in Parts
      BY LocalDataTyped
    <2>4. CASE Found("event", t, w.handle) /\ enabled
      <3> DEFINE o == tables["event"][t][w.handle]
      <3>1. o \in Object
        BY <2>1, <2>4 DEF Typed, HandlesTyped, Usable, Found
      <3>2. global \in Parts /\ data \in [Object -> Data]
        BY DEF Typed, DataTyped
      <3> DEFINE all == data[o].parts \cup global \cup more
      <3>3. data' = [data EXCEPT ![o].parts = all]
        BY <2>1, <2>4
      <3>4. all \in Parts
        <4> HIDE DEF o, more
        <4> QED
          BY <2>3, <3>1, <3>2 DEF Data
      <3> HIDE DEF o, all
      <3>5. data' \in [Object -> Data]
        BY <3>1, <3>2, <3>3, <3>4 DEF Data
      <3> QED
        BY <2>2, <3>5 DEF Typed, DataTyped
    <2>5. CASE ~ Found("event", t, w.handle) \/ ~ enabled
      BY <2>1, <2>2, <2>5 DEF Typed, DataTyped
    <2> QED
      BY <2>4, <2>5
  <1>2. ASSUME NEW k \in Kinds, CaptureNew(t, k) PROVE DataTyped'
    <2>1. PICK s \in ScopeHandles(t), o \in Object \ Held :
            data' = [data EXCEPT ![o] = [field |-> "unset", parts |->
                       global \cup (IF "scope" \in Kinds THEN LocalData(t, s) ELSE {})]]
      BY <1>2 DEF CaptureNew
    <2> DEFINE more == IF "scope" \in Kinds THEN LocalData(t, s) ELSE {}
    <2>2. more \in Parts /\ global \in Parts
      BY LocalDataTyped DEF Typed, DataTyped
    <2>3. [field |-> "unset", parts |-> global \cup more] \in Data
      BY <2>2 DEF Data
    <2> QED
      BY <1>2, <2>1, <2>3 DEF CaptureNew, Typed, DataTyped
  <1> QED
    BY <1>1, <1>2

LEMMA SessionsDataTyped ==
    ASSUME Typed, NEW t \in Thread,
           AddBreadcrumb(t) \/ InitSDK(t) \/ Close(t) \/ WriteGlobal(t)
    PROVE  DataTyped'
  <1>1. CASE AddBreadcrumb(t)
    <2>1. PICK c \in Usable(t) :
            /\ c.kind = "breadcrumb" /\ UNCHANGED <<data, enabled, handlers>>
            /\ \/ global' = global
               \/ /\ Found("breadcrumb", t, c.handle)
                  /\ global' = global \cup data[tables["breadcrumb"][t][c.handle]].parts
      BY <1>1 DEF AddBreadcrumb
    <2>2. CASE global' = global
      BY <2>1, <2>2 DEF Typed, DataTyped
    <2>3. CASE Found("breadcrumb", t, c.handle)
               /\ global' = global \cup data[tables["breadcrumb"][t][c.handle]].parts
      <3>1. data[tables["breadcrumb"][t][c.handle]] \in Data
        BY <2>1, <2>3 DEF Typed, HandlesTyped, DataTyped, Usable, Found
      <3> QED
        BY <2>1, <2>3, <3>1 DEF Typed, DataTyped, Data
    <2> QED
      BY <2>1, <2>2, <2>3
  <1>2. CASE InitSDK(t)
    <2>1. PICK started \in BOOLEAN, chosen \in SUBSET (Kinds \cap {"log", "metric"}) :
            /\ enabled' = started
            /\ handlers' = (Kinds \cap {"event"}) \cup chosen
            /\ global' = global \cup DefaultAttachments \cup (IF started THEN {"user"} ELSE {})
            /\ data' = data
      BY <1>2 DEF InitSDK
    <2> QED
      BY <2>1 DEF Typed, DataTyped, CallbackKinds, DefaultAttachments
  <1>3. CASE Close(t)
    BY <1>3 DEF Close, Typed, DataTyped
  <1>4. CASE WriteGlobal(t)
    BY <1>4 DEF WriteGlobal, GlobalOutcomes, DefaultAttachments, Typed, DataTyped
  <1> QED
    BY <1>1, <1>2, <1>3, <1>4

-----------------------------------------------------------------------------
(* The layered scopes stay those of scopes that are found.                 *)
Persists ==
    "scope" \in Kinds => \A u \in Thread : \A x \in DOMAIN tables["scope"][u] :
        x \in DOMAIN tables'["scope"][u] /\ tables'["scope"][u][x] = tables["scope"][u][x]

LEMMA RegisteredPersists ==
    ASSUME HandlesTyped, NEW t \in Thread, NEW k \in Kinds, NEW h \in Handle, NEW o \in Object,
           h \in Free(k, t), tables' = Registered(k, t, h, o)
    PROVE  Persists
  <1> DEFINE T == tables'
  <1>1. T = Registered(k, t, h, o)
    OBVIOUS
  <1> HIDE DEF T
  <1>2. \A l \in Kinds, u \in Thread : \A x \in DOMAIN tables[l][u] :
          x \in DOMAIN T[l][u] /\ T[l][u][x] = tables[l][u][x]
    BY <1>1, RegisteredTables
  <1> QED
    BY <1>2 DEF Persists, T

LEMMA ReleasedPersists ==
    ASSUME HandlesTyped, NEW t \in Thread, NEW k \in Kinds, NEW h, k # "scope",
           tables' = Released(k, t, h)
    PROVE  Persists
  <1> DEFINE T == tables'
  <1>1. T = Released(k, t, h)
    OBVIOUS
  <1> HIDE DEF T
  <1>2. \A l \in Kinds, u \in Thread : \A x \in DOMAIN tables[l][u] :
          l # k => x \in DOMAIN T[l][u] /\ T[l][u][x] = tables[l][u][x]
    BY <1>1, ReleasedTables
  <1> QED
    BY <1>2 DEF Persists, T

LEMMA KeepsPersists ==
    ASSUME AndroidAssumption, HandlesTyped, NEW t \in Thread, Keeps(t)
    PROVE  Persists
  <1>1. CASE Rests \/ ClonesNothing(t)
    BY <1>1 DEF Rests, ClonesNothing, Persists
  <1>2. ASSUME NEW k \in Kinds, NEW h \in Handle, NEW o \in Object, Makes(t, k, h, o)
        PROVE  Persists
    BY <1>2, RegisteredPersists DEF Makes
  <1>3. ASSUME NEW k \in Kinds, NEW h \in Handle, NEW o \in Object, NEW d \in Delivery,
               Asks(t, k, h, o, d)
        PROVE  Persists
    BY <1>3, RegisteredPersists DEF Asks, BeginCallback
  <1>4. ASSUME NEW keep \in BOOLEAN, NEW w \in Wrapper, Judges(t, keep, w) PROVE Persists
    <2> DEFINE f == Head(frames[t])
    <2>1. /\ frames[t] # <<>>
          /\ tables' = IF keep THEN tables ELSE Released(f.kind, t, f.handle)
      BY <1>4 DEF Judges
    <2>2. f.kind \in Kinds /\ f.kind # "scope"
      BY <2>1 DEF HandlesTyped, CallbackKinds
    <2>3. CASE keep
      BY <2>1, <2>3 DEF Persists
    <2>4. CASE ~ keep
      <3> HIDE DEF f
      <3> QED
        BY <2>1, <2>2, <2>4, ReleasedPersists
    <2> QED
      BY <2>3, <2>4
  <1>5. CASE Resumes(t)
    <2> DEFINE f == Head(frames[t])
    <2>1. frames[t] # <<>> /\ tables' = Released(f.kind, t, f.handle)
      BY <1>5 DEF Resumes
    <2>2. f.kind \in Kinds /\ f.kind # "scope"
      BY <2>1 DEF HandlesTyped, CallbackKinds
    <2> HIDE DEF f
    <2> QED
      BY <2>1, <2>2, ReleasedPersists
  <1> QED
    BY <1>1, <1>2, <1>3, <1>4, <1>5 DEF Keeps

LEMMA PersistsLayered ==
    ASSUME Persists, Layered, combined' = combined PROVE Layered'
  BY DEF Persists, Layered, Found

LEMMA CapturesLayered ==
    ASSUME Typed, Layered, Persists, NEW t \in Thread, NEW h,
           combined' = IF "scope" \in Kinds THEN CombinedAfter(t, h) ELSE combined
    PROVE  Layered'
  <1>1. CASE "scope" \in Kinds
    <2> DEFINE C == combined'
    <2>1. C = CombinedAfter(t, h)
      BY <1>1
    <2> HIDE DEF C
    <2>2. DOMAIN C = Thread
          /\ \A u \in Thread : \A x \in DOMAIN C[u] :
               Found("scope", u, x) /\ C[u][x] = tables["scope"][u][x]
      BY <1>1, <2>1, CombinedLayered
    <2> QED
      BY <1>1, <2>2 DEF C, Persists, Layered, Found
  <1>2. CASE "scope" \notin Kinds
    BY <1>2, PersistsLayered
  <1> QED
    BY <1>1, <1>2

LEMMA DestroyLayered ==
    ASSUME Typed, Layered, NEW t \in Thread, Destroy(t)
    PROVE  Layered'
  <1>1. PICK w \in Usable(t) :
          /\ tables' = IF w.borrowed THEN tables ELSE Released(w.kind, t, w.handle)
          /\ combined' = IF w.kind = "scope" THEN [combined EXCEPT ![t] = Without(@, w.handle)]
                         ELSE combined
    BY DEF Destroy
  <1>2. w.kind \in Kinds
    BY DEF Typed, HandlesTyped, Usable
  <1> DEFINE T == tables'
             C == combined'
  <1>3. T = IF w.borrowed THEN tables ELSE Released(w.kind, t, w.handle)
    BY <1>1
  <1>4. C = IF w.kind = "scope" THEN [combined EXCEPT ![t] = Without(@, w.handle)] ELSE combined
    BY <1>1
  <1> HIDE DEF T, C
  <1>5. \A l \in Kinds, u \in Thread : \A x \in DOMAIN tables[l][u] :
          ~ (l = w.kind /\ u = t /\ x = w.handle) =>
            x \in DOMAIN T[l][u] /\ T[l][u][x] = tables[l][u][x]
    <2>1. CASE w.borrowed
      BY <1>3, <2>1
    <2>2. CASE ~ w.borrowed
      <3>1. T = Released(w.kind, t, w.handle)
        BY <1>3, <2>2
      <3> QED
        BY <1>2, <3>1, ReleasedTables DEF Typed
    <2> QED
      BY <2>1, <2>2
  <1>6. CASE w.kind # "scope"
    BY <1>4, <1>5, <1>6 DEF T, C, Layered, Found
  <1>7. CASE w.kind = "scope"
    <2> DEFINE F == Without(combined[t], w.handle)
    <2>1. C = [combined EXCEPT ![t] = F]
      BY <1>4, <1>7
    <2>2. DOMAIN F = DOMAIN combined[t] \ {w.handle} /\ \A x \in DOMAIN F : F[x] = combined[t][x]
      BY DEF Without
    <2> HIDE DEF F
    <2>3. DOMAIN C = Thread /\ C[t] = F /\ \A u \in Thread : u # t => C[u] = combined[u]
      BY <2>1 DEF Layered
    <2>4. \A u \in Thread : \A x \in DOMAIN C[u] :
            x \in DOMAIN combined[u] /\ C[u][x] = combined[u][x] /\ ~ (u = t /\ x = w.handle)
      BY <2>2, <2>3
    <2>5. \A u \in Thread : \A x \in DOMAIN C[u] :
            x \in DOMAIN T["scope"][u] /\ C[u][x] = T["scope"][u][x]
      BY <1>2, <1>5, <1>7, <2>4 DEF Layered, Found
    <2> QED
      BY <1>2, <1>7, <2>3, <2>5 DEF T, C, Layered, Found
  <1> QED
    BY <1>6, <1>7

-----------------------------------------------------------------------------
(* The invariant of the types and of the layered scopes.                   *)
ShapeInv == Typed /\ Layered

LEMMA ShapeInit == ASSUME AndroidAssumption, Init PROVE ShapeInv /\ HandleInv
  <1> USE DEF Init
  <1>1. HandlesTyped
    <2>1. stage \in [Delivery -> Stage]
      BY DEF Delivered!Init, Stage
    <2> QED
      BY <2>1 DEF HandlesTyped
  <1>2. DataTyped
    BY DEF DataTyped, Blank, Data
  <1>3. Layered
    BY DEF Layered
  <1>4. HandleInv
    BY DEF HandleInv, WrappersApart, FramesApart, CallbackFinds, OwnedResolves, Needed,
           AllDrawn, NeverAnother
  <1> QED
    BY <1>1, <1>2, <1>3, <1>4 DEF ShapeInv, Typed

LEMMA ShapeNext == ASSUME AndroidAssumption, ShapeInv, Next PROVE ShapeInv'
  <1> USE DEF ShapeInv
  <1>1. PICK t \in Thread :
          \/ CreateEvent(t) \/ CreateBreadcrumb(t) \/ CreateScope(t) \/ CloneScope(t)
          \/ UseEvent(t) \/ UseBreadcrumb(t) \/ UseScope(t) \/ UseLog(t) \/ UseMetric(t)
          \/ AddToScope(t) \/ AddBreadcrumb(t) \/ Destroy(t)
          \/ InitSDK(t) \/ Close(t) \/ WriteGlobal(t)
          \/ CaptureEvent(t) \/ (\E k \in Kinds : CaptureNew(t, k))
          \/ HandlerReturns(t) \/ BeforeSendReturns(t)
    BY DEF Next
  <1>2. Effect(t)
    BY <1>1, StepHasEffect
  <1>3. HandlesTyped'
    BY <1>2, EffectTyped DEF Typed
  <1>4. DataTyped'
    <2>1. CASE CreateEvent(t) \/ CreateBreadcrumb(t) \/ CreateScope(t) \/ CloneScope(t)
      BY <2>1, CreatesDataTyped
    <2>2. CASE \/ UseEvent(t) \/ UseBreadcrumb(t) \/ UseScope(t) \/ UseLog(t) \/ UseMetric(t)
               \/ AddToScope(t)
      BY <2>2, UsesDataTyped
    <2>3. CASE AddBreadcrumb(t) \/ InitSDK(t) \/ Close(t) \/ WriteGlobal(t)
      BY <2>3, SessionsDataTyped
    <2>4. CASE CaptureEvent(t) \/ \E k \in Kinds : CaptureNew(t, k)
      BY <2>4, CapturesDataTyped
    <2>5. CASE Destroy(t) \/ HandlerReturns(t) \/ BeforeSendReturns(t)
      BY <2>5 DEF Destroy, HandlerReturns, BeforeSendReturns, Typed, DataTyped
    <2> QED
      BY <1>1, <2>1, <2>2, <2>3, <2>4, <2>5
  <1>5. Layered'
    <2>1. CASE Destroy(t)
      BY <2>1, DestroyLayered
    <2>2. CASE ~ Destroy(t)
      <3>1. Persists
        BY <1>1, <2>2, StepHasEffect, KeepsPersists DEF Typed
      <3>2. CASE CaptureEvent(t) \/ \E k \in Kinds : CaptureNew(t, k)
        <4>1. \/ \E h : combined' = IF "scope" \in Kinds THEN CombinedAfter(t, h) ELSE combined
              \/ combined' = combined
          BY <3>2 DEF CaptureEvent, CaptureNew
        <4> QED
          BY <3>1, <4>1, CapturesLayered, PersistsLayered
      <3>3. CASE ~ (CaptureEvent(t) \/ \E k \in Kinds : CaptureNew(t, k))
        <4>1. combined' = combined
          <5>1. CASE \/ CreateEvent(t) \/ CreateBreadcrumb(t) \/ CreateScope(t) \/ CloneScope(t)
            BY <5>1 DEF CreateEvent, CreateBreadcrumb, CreateScope, CloneScope, New
          <5>2. CASE \/ UseEvent(t) \/ UseBreadcrumb(t) \/ UseScope(t) \/ UseLog(t) \/ UseMetric(t)
                     \/ AddToScope(t)
            BY <5>2 DEF UseEvent, UseBreadcrumb, UseScope, UseLog, UseMetric, AddToScope, Call
          <5>3. CASE \/ AddBreadcrumb(t) \/ InitSDK(t) \/ Close(t) \/ WriteGlobal(t)
                     \/ HandlerReturns(t) \/ BeforeSendReturns(t)
            BY <5>3 DEF AddBreadcrumb, InitSDK, Close, WriteGlobal, HandlerReturns,
                        BeforeSendReturns
          <5> QED
            BY <1>1, <2>2, <3>3, <5>1, <5>2, <5>3
        <4> QED
          BY <3>1, <4>1, PersistsLayered
      <3> QED
        BY <3>2, <3>3
    <2> QED
      BY <2>1, <2>2
  <1> QED
    BY <1>3, <1>4, <1>5 DEF Typed

LEMMA ShapeStutters == ASSUME ShapeInv, UNCHANGED vars PROVE ShapeInv'
  BY DEF vars, ShapeInv, Typed, HandlesTyped, DataTyped, Layered, Found

LEMMA HandleNext == ASSUME AndroidAssumption, Safe, ShapeInv, HandleInv, Next PROVE HandleInv'
  <1>1. PICK t \in Thread :
          \/ CreateEvent(t) \/ CreateBreadcrumb(t) \/ CreateScope(t) \/ CloneScope(t)
          \/ UseEvent(t) \/ UseBreadcrumb(t) \/ UseScope(t) \/ UseLog(t) \/ UseMetric(t)
          \/ AddToScope(t) \/ AddBreadcrumb(t) \/ Destroy(t)
          \/ InitSDK(t) \/ Close(t) \/ WriteGlobal(t)
          \/ CaptureEvent(t) \/ (\E k \in Kinds : CaptureNew(t, k))
          \/ HandlerReturns(t) \/ BeforeSendReturns(t)
    BY DEF Next
  <1>2. Effect(t) /\ HandlesTyped
    BY <1>1, StepHasEffect DEF ShapeInv, Typed
  <1> QED
    BY <1>2, EffectKeeps

LEMMA HandleStutters == ASSUME HandleInv, UNCHANGED vars PROVE HandleInv'
  BY DEF vars, HandleInv, WrappersApart, FramesApart, CallbackFinds, OwnedResolves, Needed,
         AllDrawn, NeverAnother, Found

\* A behaviour of the program, whose callbacks may or may not return.
Steps == Init /\ [][Next]_vars

LEMMA ShapeInvariant == ASSUME AndroidAssumption PROVE Steps => []ShapeInv
  <1>1. Init => ShapeInv
    BY ShapeInit
  <1>2. ShapeInv /\ [Next]_vars => ShapeInv'
    BY ShapeNext, ShapeStutters
  <1> QED
    BY <1>1, <1>2, PTL DEF Steps

LEMMA HandleInvariant == ASSUME AndroidAssumption, Safe PROVE Steps => [](ShapeInv /\ HandleInv)
  <1>1. Init => ShapeInv /\ HandleInv
    BY ShapeInit
  <1>2. ShapeInv /\ HandleInv /\ [Next]_vars => (ShapeInv /\ HandleInv)'
    BY ShapeNext, ShapeStutters, HandleNext, HandleStutters
  <1> QED
    BY <1>1, <1>2, PTL DEF Steps

-----------------------------------------------------------------------------
(* A wrapper that stays on its thread finds its own object; where random   *)
(* numbers do not repeat, no wrapper finds another's, wherever it is used; *)
(* with either, a handler finds the object that it was called for,         *)
(* whatever the program makes, shares and destroys meanwhile: the handles  *)
(* of AndroidEvent and its fellows, and SentryAndroidGodotPlugin's tables. *)
THEOREM StepsFindOwn == ASSUME AndroidAssumption PROVE Steps => []HandlesFindTheirOwn
  <1>1. ASSUME Safe PROVE Steps => []HandlesFindTheirOwn
    <2>1. ShapeInv /\ HandleInv => HandlesFindTheirOwn
      BY DEF HandleInv, HandlesFindTheirOwn
    <2>2. Steps => [](ShapeInv /\ HandleInv)
      BY <1>1, HandleInvariant
    <2> QED
      BY <2>1, <2>2, PTL
  <1>2. ASSUME ~ Safe PROVE Steps => []HandlesFindTheirOwn
    <2>1. ShapeInv => HandlesFindTheirOwn
      BY <1>2 DEF Safe, HandlesFindTheirOwn
    <2>2. Steps => []ShapeInv
      BY ShapeInvariant
    <2> QED
      BY <2>1, <2>2, PTL
  <1> QED
    BY <1>1, <1>2

(* The same of the specification, in which callbacks return.               *)
THEOREM HandlesFindOwn == ASSUME AndroidAssumption PROVE Spec => []HandlesFindTheirOwn
  <1>1. Steps => []HandlesFindTheirOwn
    BY StepsFindOwn
  <1> QED
    BY <1>1, PTL DEF Spec, Steps

(* No handle stays in the tables without a wrapper or a callback that will *)
(* release it, as long as wrappers stay on their threads, and the layered  *)
(* scopes of a capture go with the scope that they were made for.          *)
THEOREM StepsLeakNothing == ASSUME AndroidAssumption PROVE Steps => []NoHandleLeaks
  <1>1. ShapeInv => TypeOK
    <2>1. HandlesTyped => Delivered!TypeOK
      BY DEF HandlesTyped, Delivered!TypeOK, Delivered!Stage, Stage
    <2> QED
      BY <2>1 DEF ShapeInv, Typed, HandlesTyped, DataTyped, TypeOK
  <1>2. ASSUME CrossThread PROVE Steps => []NoHandleLeaks
    <2>1. ShapeInv => NoHandleLeaks
      BY <1>1, <1>2 DEF NoHandleLeaks
    <2>2. Steps => []ShapeInv
      BY ShapeInvariant
    <2> QED
      BY <2>1, <2>2, PTL
  <1>3. ASSUME ~ CrossThread PROVE Steps => []NoHandleLeaks
    <2>1. ShapeInv /\ HandleInv => NoLeak
      BY <1>3 DEF HandleInv, Needed, ShapeInv, Layered, NoLeak
    <2>2. ShapeInv /\ HandleInv => NoHandleLeaks
      BY <1>1, <2>1 DEF NoHandleLeaks
    <2>3. Steps => [](ShapeInv /\ HandleInv)
      BY <1>3, HandleInvariant DEF Safe
    <2> QED
      BY <2>2, <2>3, PTL
  <1> QED
    BY <1>2, <1>3

(* The same of the specification.                                          *)
THEOREM NoHandlesLeak == ASSUME AndroidAssumption PROVE Spec => []NoHandleLeaks
  <1>1. Steps => []NoHandleLeaks
    BY StepsLeakNothing
  <1> QED
    BY <1>1, PTL DEF Spec, Steps

-----------------------------------------------------------------------------
(* Every delivery is one callback's, and what has become of it is what the *)
(* callback finds: a kept object, or none.                                 *)
DeliveriesApart ==
    \A t, u \in Thread : \A i \in 1 .. Len(frames[t]), j \in 1 .. Len(frames[u]) :
        frames[t][i].delivery = frames[u][j].delivery => t = u /\ i = j

StagesFollow ==
    \A t \in Thread : \A i \in 1 .. Len(frames[t]) :
        LET f == frames[t][i]
        IN  /\ ~ f.returned => stage[f.delivery] = "processing"
            /\ f.returned /\ Found(f.kind, t, f.handle) => stage[f.delivery] = "kept"
            /\ f.returned /\ ~ Found(f.kind, t, f.handle) => stage[f.delivery] = "discarded"

VerdictInv == DeliveriesApart /\ StagesFollow

(* A step of the program on a thread touches this thread's tables, and no  *)
(* callback of this thread is on its way back.                             *)
LEMMA ProgramKeepsVerdicts ==
    ASSUME HandlesTyped, VerdictInv, NEW t \in Thread, Running(t), UNCHANGED <<frames, stage>>,
           \A l \in Kinds, u \in Thread : u # t => DOMAIN tables'[l][u] = DOMAIN tables[l][u]
    PROVE  VerdictInv'
  <1>1. frames' = frames /\ stage' = stage
    OBVIOUS
  <1>2. DeliveriesApart'
    BY <1>1 DEF VerdictInv, DeliveriesApart
  <1> DEFINE T == tables'
  <1>3. \A l \in Kinds, u \in Thread : u # t => DOMAIN T[l][u] = DOMAIN tables[l][u]
    OBVIOUS
  <1> HIDE DEF T
  <1>4. ASSUME NEW u \in Thread, NEW i \in 1 .. Len(frames[u])
        PROVE  /\ ~ frames[u][i].returned => stage[frames[u][i].delivery] = "processing"
               /\ frames[u][i].returned /\ frames[u][i].handle \in DOMAIN T[frames[u][i].kind][u]
                    => stage[frames[u][i].delivery] = "kept"
               /\ frames[u][i].returned /\ frames[u][i].handle \notin DOMAIN T[frames[u][i].kind][u]
                    => stage[frames[u][i].delivery] = "discarded"
    <2>1. CASE u = t
      BY <2>1, NoneReturned DEF VerdictInv, StagesFollow
    <2>2. CASE u # t
      <3>1. DOMAIN T[frames[u][i].kind][u] = DOMAIN tables[frames[u][i].kind][u]
        BY <1>3, <2>2 DEF HandlesTyped
      <3> QED
        BY <3>1 DEF VerdictInv, StagesFollow, Found
    <2> QED
      BY <2>1, <2>2
  <1>5. StagesFollow'
    BY <1>1, <1>4 DEF StagesFollow, Found, T
  <1> QED
    BY <1>2, <1>5 DEF VerdictInv

LEMMA MakesStands ==
    ASSUME HandlesTyped, VerdictInv, NEW t \in Thread, NEW k \in Kinds, NEW h \in Handle,
           NEW o \in Object, Makes(t, k, h, o)
    PROVE  VerdictInv'
  <1> DEFINE T == tables'
  <1>1. /\ h \in Free(k, t) /\ Running(t) /\ T = Registered(k, t, h, o)
        /\ UNCHANGED <<frames, stage>>
    BY DEF Makes
  <1> HIDE DEF T
  <1>2. \A l \in Kinds, u \in Thread : \A x : x \in DOMAIN T[l][u] <=>
          x \in DOMAIN tables[l][u] \/ (l = k /\ u = t /\ x = h)
    BY <1>1, RegisteredTables
  <1>3. \A l \in Kinds, u \in Thread : u # t => \A x : x \in DOMAIN T[l][u] <=> x \in DOMAIN tables[l][u]
    BY <1>2
  <1>4. \A l \in Kinds, u \in Thread : u # t => DOMAIN T[l][u] = DOMAIN tables[l][u]
    BY <1>3
  <1> QED
    BY <1>1, <1>4, ProgramKeepsVerdicts DEF T

LEMMA DestroysStands ==
    ASSUME HandlesTyped, VerdictInv, NEW t \in Thread, NEW w \in wrappers, Destroys(t, w)
    PROVE  VerdictInv'
  <1> DEFINE T == tables'
  <1>1. /\ Running(t) /\ UNCHANGED <<frames, stage>> /\ w.kind \in Kinds
        /\ T = tables \/ T = Released(w.kind, t, w.handle)
    BY DEF Destroys, HandlesTyped
  <1> HIDE DEF T
  <1>2. CASE T = tables
    BY <1>1, <1>2, ProgramKeepsVerdicts DEF T
  <1>3. CASE T = Released(w.kind, t, w.handle)
    <2>1. \A l \in Kinds, u \in Thread : \A x : x \in DOMAIN T[l][u] <=>
            x \in DOMAIN tables[l][u] /\ ~ (l = w.kind /\ u = t /\ x = w.handle)
      BY <1>1, <1>3, ReleasedTables
    <2>2. \A l \in Kinds, u \in Thread :
            u # t => \A x : x \in DOMAIN T[l][u] <=> x \in DOMAIN tables[l][u]
      BY <2>1
    <2>3. \A l \in Kinds, u \in Thread : u # t => DOMAIN T[l][u] = DOMAIN tables[l][u]
      BY <2>2
    <2> QED
      BY <1>1, <2>3, ProgramKeepsVerdicts DEF T
  <1> QED
    BY <1>1, <1>2, <1>3

LEMMA AsksStands ==
    ASSUME AndroidAssumption, HandlesTyped, VerdictInv, NEW t \in Thread, NEW k \in Kinds,
           NEW h \in Handle, NEW o \in Object, NEW d \in Delivery, Asks(t, k, h, o, d)
    PROVE  VerdictInv' /\ Delivered!Process(d)
  <1> DEFINE T == tables'
             F == frames'
             S == stage'
  <1>0. PICK f \in Frame : Asked(t, k, h, o, d, f)
    BY AsksFrame
  <1>1. /\ h \in Free(k, t) /\ Running(t) /\ T = Registered(k, t, h, o)
        /\ F = [frames EXCEPT ![t] = <<f>> \o @]
        /\ f.delivery = d /\ ~ f.returned
        /\ stage[d] = "none" /\ S = [stage EXCEPT ![d] = "processing"]
    BY <1>0 DEF Asked
  <1>2. /\ \A u \in Thread : u # t => F[u] = frames[u]
        /\ F[t][1] = f
        /\ \A i \in 1 .. Len(F[t]) : i # 1 =>
             i - 1 \in 1 .. Len(frames[t]) /\ F[t][i] = frames[t][i - 1]
    BY <1>1, FramesAsked
  <1> HIDE DEF T, F, S
  <1>3. \A l \in Kinds, u \in Thread : \A x : x \in DOMAIN T[l][u] <=>
          x \in DOMAIN tables[l][u] \/ (l = k /\ u = t /\ x = h)
    BY <1>1, RegisteredTables
  <1>4. \A u \in Thread : \A i \in 1 .. Len(frames[u]) : frames[u][i].delivery # d
    <2> SUFFICES ASSUME NEW u \in Thread, NEW i \in 1 .. Len(frames[u])
                 PROVE  stage[frames[u][i].delivery] # "none"
      BY <1>1
    <2> QED
      BY DEF VerdictInv, StagesFollow
  <1>5. S[d] = "processing" /\ \A e \in Delivery : e # d => S[e] = stage[e]
    BY <1>1 DEF HandlesTyped
  <1>6. ASSUME NEW u \in Thread, NEW i \in 1 .. Len(F[u]), ~ (u = t /\ i = 1)
        PROVE  \E j \in 1 .. Len(frames[u]) :
                 j = (IF u = t THEN i - 1 ELSE i) /\ F[u][i] = frames[u][j]
    <2>1. CASE u = t
      BY <1>2, <1>6, <2>1
    <2>2. CASE u # t
      BY <1>2, <2>2
    <2> QED
      BY <2>1, <2>2
  <1>7. DeliveriesApart'
    <2> SUFFICES ASSUME NEW u \in Thread, NEW v \in Thread, NEW i \in 1 .. Len(F[u]),
                        NEW j \in 1 .. Len(F[v]), F[u][i].delivery = F[v][j].delivery
                 PROVE  u = v /\ i = j
      BY DEF DeliveriesApart, F
    <2>1. CASE u = t /\ i = 1
      <3>1. F[v][j].delivery = d
        BY <1>1, <1>2, <2>1
      <3>2. v = t /\ j = 1
        BY <1>4, <1>6, <3>1
      <3> QED
        BY <2>1, <3>2
    <2>2. CASE v = t /\ j = 1
      <3>1. F[u][i].delivery = d
        BY <1>1, <1>2, <2>2
      <3>2. u = t /\ i = 1
        BY <1>4, <1>6, <3>1
      <3> QED
        BY <2>2, <3>2
    <2>3. CASE ~ (u = t /\ i = 1) /\ ~ (v = t /\ j = 1)
      <3>1. PICK m \in 1 .. Len(frames[u]) :
              m = (IF u = t THEN i - 1 ELSE i) /\ F[u][i] = frames[u][m]
        BY <1>6, <2>3
      <3>2. PICK n \in 1 .. Len(frames[v]) :
              n = (IF v = t THEN j - 1 ELSE j) /\ F[v][j] = frames[v][n]
        BY <1>6, <2>3
      <3>3. u = v /\ m = n
        BY <3>1, <3>2 DEF VerdictInv, DeliveriesApart
      <3> QED
        BY <3>1, <3>2, <3>3
    <2> QED
      BY <2>1, <2>2, <2>3
  <1>8. StagesFollow'
    <2> SUFFICES ASSUME NEW u \in Thread, NEW i \in 1 .. Len(F[u])
                 PROVE  /\ ~ F[u][i].returned => S[F[u][i].delivery] = "processing"
                        /\ F[u][i].returned /\ F[u][i].handle \in DOMAIN T[F[u][i].kind][u]
                             => S[F[u][i].delivery] = "kept"
                        /\ F[u][i].returned /\ F[u][i].handle \notin DOMAIN T[F[u][i].kind][u]
                             => S[F[u][i].delivery] = "discarded"
      BY DEF StagesFollow, Found, T, F, S
    <2>1. CASE u = t /\ i = 1
      BY <1>1, <1>2, <1>5, <2>1
    <2>2. CASE ~ (u = t /\ i = 1)
      <3>1. PICK j \in 1 .. Len(frames[u]) : F[u][i] = frames[u][j]
        BY <1>6, <2>2
      <3>2. /\ frames[u][j].kind \in Kinds /\ frames[u][j].delivery \in Delivery
            /\ frames[u][j].delivery # d
        <4>1. frames[u] \in Seq(Frame) /\ frames[u][j].kind \in Kinds
          BY DEF HandlesTyped
        <4>2. frames[u][j] \in Frame
          BY <4>1
        <4> QED
          BY <1>4, <4>1, <4>2 DEF Frame
      <3>3. CASE ~ frames[u][j].returned
        BY <1>5, <3>1, <3>2, <3>3 DEF VerdictInv, StagesFollow
      <3>4. CASE frames[u][j].returned
        <4>1. u # t
          BY <1>1, <3>4, NoneReturned
        <4>2. frames[u][j].handle \in DOMAIN T[frames[u][j].kind][u] <=>
                frames[u][j].handle \in DOMAIN tables[frames[u][j].kind][u]
          BY <1>3, <3>2, <4>1
        <4> QED
          BY <1>5, <3>1, <3>2, <3>4, <4>2 DEF VerdictInv, StagesFollow, Found
      <3> QED
        BY <3>3, <3>4
    <2> QED
      BY <2>1, <2>2
  <1>9. Delivered!Process(d)
    BY <1>1 DEF Delivered!Process, Delivered!Move, S
  <1> QED
    BY <1>7, <1>8, <1>9 DEF VerdictInv

LEMMA JudgesStands ==
    ASSUME HandlesTyped, VerdictInv, CallbackFinds, NEW t \in Thread, NEW keep \in BOOLEAN,
           NEW w \in Wrapper, Judges(t, keep, w)
    PROVE  VerdictInv' /\ \E d \in Delivery : Delivered!Judge(d)
  <1> DEFINE f == frames[t][1]
             T == tables'
             F == frames'
             S == stage'
             verdict == IF keep THEN "kept" ELSE "discarded"
  <1>1. /\ frames[t] # <<>> /\ F = [frames EXCEPT ![t][1].returned = TRUE]
    BY DEF Judges
  <1>2. /\ \A u \in Thread : u # t => F[u] = frames[u]
        /\ Len(F[t]) = Len(frames[t]) /\ 1 \in 1 .. Len(frames[t])
        /\ Head(frames[t]) = f /\ f \in Frame
        /\ F[t][1] = [f EXCEPT !.returned = TRUE]
        /\ \A i \in 1 .. Len(frames[t]) : i # 1 => F[t][i] = frames[t][i]
    BY <1>1, FramesJudged
  <1>3. /\ T = IF keep THEN tables ELSE Released(f.kind, t, f.handle)
        /\ S = [stage EXCEPT ![f.delivery] = verdict]
        /\ f.kind \in Kinds /\ ~ f.returned
    BY <1>2 DEF Judges, HandlesTyped
  <1>4. f.handle \in DOMAIN tables[f.kind][t] /\ stage[f.delivery] = "processing"
    BY <1>2, <1>3 DEF CallbackFinds, Found, VerdictInv, StagesFollow
  <1>5. f.delivery \in Delivery /\ stage \in [Delivery -> Stage]
    BY <1>2 DEF Frame, HandlesTyped
  <1>6. verdict \in {"kept", "discarded"}
    OBVIOUS
  <1>7. Delivered!Judge(f.delivery)
    <2> HIDE DEF verdict, f
    <2> QED
      BY <1>3, <1>4, <1>6 DEF Delivered!Judge, Delivered!Move, S
  <1>8. F[t][1].kind = f.kind /\ F[t][1].handle = f.handle /\ F[t][1].delivery = f.delivery
        /\ F[t][1].returned
    BY <1>2 DEF Frame
  <1> HIDE DEF f, T, F, S
  <1>9. /\ keep => f.handle \in DOMAIN T[f.kind][t]
        /\ ~ keep => f.handle \notin DOMAIN T[f.kind][t]
        /\ \A l \in Kinds, u \in Thread : \A x :
             u # t => (x \in DOMAIN T[l][u] <=> x \in DOMAIN tables[l][u])
    <2>1. CASE keep
      BY <1>3, <1>4, <2>1
    <2>2. CASE ~ keep
      <3>1. T = Released(f.kind, t, f.handle)
        BY <1>3, <2>2
      <3>2. \A l \in Kinds, u \in Thread : \A x : x \in DOMAIN T[l][u] <=>
              x \in DOMAIN tables[l][u] /\ ~ (l = f.kind /\ u = t /\ x = f.handle)
        BY <1>3, <3>1, ReleasedTables
      <3> QED
        BY <1>3, <2>2, <3>2
    <2> QED
      BY <2>1, <2>2
  <1>10. S[f.delivery] = verdict /\ \A e \in Delivery : e # f.delivery => S[e] = stage[e]
    BY <1>3, <1>5
  <1>11. \A u \in Thread : \A i \in 1 .. Len(F[u]) :
           /\ i \in 1 .. Len(frames[u]) /\ F[u][i].delivery = frames[u][i].delivery
           /\ ~ (u = t /\ i = 1) => F[u][i] = frames[u][i]
    BY <1>2, <1>8 DEF f
  <1>12. DeliveriesApart'
    <2>1. \A u, v \in Thread : \A i \in 1 .. Len(F[u]), j \in 1 .. Len(F[v]) :
            F[u][i].delivery = F[v][j].delivery => u = v /\ i = j
      BY <1>11 DEF VerdictInv, DeliveriesApart
    <2> QED
      BY <2>1 DEF DeliveriesApart, F
  <1>13. StagesFollow'
    <2> SUFFICES ASSUME NEW u \in Thread, NEW i \in 1 .. Len(F[u])
                 PROVE  /\ ~ F[u][i].returned => S[F[u][i].delivery] = "processing"
                        /\ F[u][i].returned /\ F[u][i].handle \in DOMAIN T[F[u][i].kind][u]
                             => S[F[u][i].delivery] = "kept"
                        /\ F[u][i].returned /\ F[u][i].handle \notin DOMAIN T[F[u][i].kind][u]
                             => S[F[u][i].delivery] = "discarded"
      BY DEF StagesFollow, Found, T, F, S
    <2>1. CASE u = t /\ i = 1
      BY <1>8, <1>9, <1>10, <2>1
    <2>2. CASE ~ (u = t /\ i = 1)
      <3>1. i \in 1 .. Len(frames[u]) /\ F[u][i] = frames[u][i]
        BY <1>11, <2>2
      <3>2. frames[u] \in Seq(Frame) /\ frames[u][i].kind \in Kinds
        BY <3>1 DEF HandlesTyped
      <3>3. frames[u][i] \in Frame /\ frames[u][i].delivery # f.delivery
        <4>1. frames[u][i] \in Frame
          BY <3>1, <3>2
        <4>2. frames[u][i].delivery # f.delivery
          BY <1>2, <2>2, <3>1 DEF VerdictInv, DeliveriesApart, f
        <4> QED
          BY <4>1, <4>2
      <3>4. S[frames[u][i].delivery] = stage[frames[u][i].delivery]
        BY <1>10, <3>3 DEF Frame
      <3>5. CASE ~ frames[u][i].returned
        BY <3>1, <3>4, <3>5 DEF VerdictInv, StagesFollow
      <3>6. CASE frames[u][i].returned
        <4>1. u # t
          BY <2>2, <3>1, <3>6 DEF HandlesTyped
        <4>2. frames[u][i].handle \in DOMAIN T[frames[u][i].kind][u] <=>
                frames[u][i].handle \in DOMAIN tables[frames[u][i].kind][u]
          BY <1>9, <3>2, <4>1
        <4> QED
          BY <3>1, <3>4, <3>6, <4>2 DEF VerdictInv, StagesFollow, Found
      <3> QED
        BY <3>5, <3>6
    <2> QED
      BY <2>1, <2>2
  <1> QED
    BY <1>5, <1>7, <1>12, <1>13 DEF VerdictInv

LEMMA ResumesStands ==
    ASSUME HandlesTyped, VerdictInv, NEW t \in Thread, Resumes(t)
    PROVE  VerdictInv' /\ \E d \in Delivery : Delivered!Send(d) \/ Delivered!Drop(d)
  <1> DEFINE f == frames[t][1]
             T == tables'
             F == frames'
             S == stage'
             end == IF Found(f.kind, t, f.handle) THEN "sent" ELSE "dropped"
  <1>1. frames[t] # <<>> /\ F = [frames EXCEPT ![t] = Tail(@)]
    BY DEF Resumes
  <1>2. /\ \A u \in Thread : u # t => F[u] = frames[u]
        /\ Head(frames[t]) = f /\ f \in Frame /\ 1 \in 1 .. Len(frames[t])
        /\ \A i \in 1 .. Len(F[t]) :
             i + 1 \in 1 .. Len(frames[t]) /\ i + 1 # 1 /\ F[t][i] = frames[t][i + 1]
    BY <1>1, FramesResumed
  <1>3. /\ T = Released(f.kind, t, f.handle)
        /\ S = [stage EXCEPT ![f.delivery] = end]
        /\ f.kind \in Kinds /\ f.returned
    BY <1>2 DEF Resumes, HandlesTyped
  <1>4. /\ Found(f.kind, t, f.handle) => stage[f.delivery] = "kept"
        /\ ~ Found(f.kind, t, f.handle) => stage[f.delivery] = "discarded"
    BY <1>2, <1>3 DEF VerdictInv, StagesFollow
  <1>5. f.delivery \in Delivery /\ stage \in [Delivery -> Stage]
    BY <1>2 DEF Frame, HandlesTyped
  <1>6. Delivered!Send(f.delivery) \/ Delivered!Drop(f.delivery)
    <2>1. CASE Found(f.kind, t, f.handle)
      <3>1. end = "sent"
        BY <2>1
      <3> HIDE DEF end, f
      <3> QED
        BY <1>3, <1>4, <2>1, <3>1 DEF Delivered!Send, Delivered!Move, S
    <2>2. CASE ~ Found(f.kind, t, f.handle)
      <3>1. end = "dropped"
        BY <2>2
      <3> HIDE DEF end, f
      <3> QED
        BY <1>3, <1>4, <2>2, <3>1 DEF Delivered!Drop, Delivered!Move, S
    <2> QED
      BY <2>1, <2>2
  <1> HIDE DEF f, T, F, S, end
  <1>7. \A l \in Kinds, u \in Thread : \A x :
          u # t => (x \in DOMAIN T[l][u] <=> x \in DOMAIN tables[l][u])
    <2>1. \A l \in Kinds, u \in Thread : \A x : x \in DOMAIN T[l][u] <=>
            x \in DOMAIN tables[l][u] /\ ~ (l = f.kind /\ u = t /\ x = f.handle)
      BY <1>3, ReleasedTables
    <2> QED
      BY <2>1
  <1>8. \A e \in Delivery : e # f.delivery => S[e] = stage[e]
    BY <1>3, <1>5
  <1>9. ASSUME NEW u \in Thread, NEW i \in 1 .. Len(F[u])
        PROVE  \E j \in 1 .. Len(frames[u]) :
                 j = (IF u = t THEN i + 1 ELSE i) /\ ~ (u = t /\ j = 1) /\ F[u][i] = frames[u][j]
    <2>1. CASE u = t
      BY <1>2, <2>1
    <2>2. CASE u # t
      BY <1>2, <2>2
    <2> QED
      BY <2>1, <2>2
  <1>10. DeliveriesApart'
    <2> SUFFICES ASSUME NEW u \in Thread, NEW v \in Thread, NEW i \in 1 .. Len(F[u]),
                        NEW j \in 1 .. Len(F[v]), F[u][i].delivery = F[v][j].delivery
                 PROVE  u = v /\ i = j
      BY DEF DeliveriesApart, F
    <2>1. PICK m \in 1 .. Len(frames[u]) :
            m = (IF u = t THEN i + 1 ELSE i) /\ F[u][i] = frames[u][m]
      BY <1>9
    <2>2. PICK n \in 1 .. Len(frames[v]) :
            n = (IF v = t THEN j + 1 ELSE j) /\ F[v][j] = frames[v][n]
      BY <1>9
    <2>3. u = v /\ m = n
      BY <2>1, <2>2 DEF VerdictInv, DeliveriesApart
    <2> QED
      BY <2>1, <2>2, <2>3
  <1>11. StagesFollow'
    <2> SUFFICES ASSUME NEW u \in Thread, NEW i \in 1 .. Len(F[u])
                 PROVE  /\ ~ F[u][i].returned => S[F[u][i].delivery] = "processing"
                        /\ F[u][i].returned /\ F[u][i].handle \in DOMAIN T[F[u][i].kind][u]
                             => S[F[u][i].delivery] = "kept"
                        /\ F[u][i].returned /\ F[u][i].handle \notin DOMAIN T[F[u][i].kind][u]
                             => S[F[u][i].delivery] = "discarded"
      BY DEF StagesFollow, Found, T, F, S
    <2>1. PICK j \in 1 .. Len(frames[u]) : ~ (u = t /\ j = 1) /\ F[u][i] = frames[u][j]
      BY <1>9
    <2>2. frames[u] \in Seq(Frame) /\ frames[u][j].kind \in Kinds
      BY DEF HandlesTyped
    <2>3. frames[u][j] \in Frame
      BY <2>2
    <2>4. frames[u][j].delivery # f.delivery
      BY <1>2, <2>1 DEF VerdictInv, DeliveriesApart, f
    <2>5. S[frames[u][j].delivery] = stage[frames[u][j].delivery]
      BY <1>8, <2>3, <2>4 DEF Frame
    <2>6. CASE ~ frames[u][j].returned
      BY <2>1, <2>5, <2>6 DEF VerdictInv, StagesFollow
    <2>7. CASE frames[u][j].returned
      <3>1. u # t
        BY <2>1, <2>7 DEF HandlesTyped
      <3>2. frames[u][j].handle \in DOMAIN T[frames[u][j].kind][u] <=>
              frames[u][j].handle \in DOMAIN tables[frames[u][j].kind][u]
        BY <1>7, <2>2, <3>1
      <3> QED
        BY <2>1, <2>5, <2>7, <3>2 DEF VerdictInv, StagesFollow, Found
    <2> QED
      BY <2>6, <2>7
  <1> QED
    BY <1>5, <1>6, <1>10, <1>11 DEF VerdictInv

LEMMA EffectStands ==
    ASSUME AndroidAssumption, HandlesTyped, CallbackFinds, VerdictInv, NEW t \in Thread, Effect(t)
    PROVE  VerdictInv' /\ [Delivered!Next]_stage
  <1>1. CASE Rests \/ ClonesNothing(t)
    <2>1. tables' = tables /\ frames' = frames /\ stage' = stage
      BY <1>1 DEF Rests, ClonesNothing
    <2>2. DeliveriesApart' /\ StagesFollow'
      BY <2>1 DEF VerdictInv, DeliveriesApart, StagesFollow, Found
    <2> QED
      BY <2>1, <2>2 DEF VerdictInv
  <1>2. ASSUME NEW k \in Kinds, NEW h \in Handle, NEW o \in Object, Makes(t, k, h, o)
        PROVE  VerdictInv' /\ [Delivered!Next]_stage
    BY <1>2, MakesStands DEF Makes
  <1>3. ASSUME NEW w \in wrappers, Destroys(t, w)
        PROVE  VerdictInv' /\ [Delivered!Next]_stage
    BY <1>3, DestroysStands DEF Destroys
  <1>4. ASSUME NEW k \in Kinds, NEW h \in Handle, NEW o \in Object, NEW d \in Delivery,
               Asks(t, k, h, o, d)
        PROVE  VerdictInv' /\ [Delivered!Next]_stage
    BY <1>4, AsksStands DEF Delivered!Next
  <1>5. ASSUME NEW keep \in BOOLEAN, NEW w \in Wrapper, Judges(t, keep, w)
        PROVE  VerdictInv' /\ [Delivered!Next]_stage
    BY <1>5, JudgesStands DEF Delivered!Next
  <1>6. CASE Resumes(t)
    BY <1>6, ResumesStands DEF Delivered!Next
  <1> QED
    BY <1>1, <1>2, <1>3, <1>4, <1>5, <1>6 DEF Effect, Keeps

(* An event, a log or a metric is sent only after its handler has seen it, *)
(* only if the handler kept it, and once: what registerEvent() and its     *)
(* fellows put into the tables is a channel for the verdict that neither   *)
(* nested callbacks nor other threads disturb.                             *)
THEOREM VerdictsAreFinal == ASSUME AndroidAssumption PROVE Spec => VerdictsStand
  <1>1. ASSUME ~ Safe PROVE VerdictsStand
    BY <1>1 DEF Safe, VerdictsStand
  <1>2. ASSUME Safe PROVE Spec => Delivered!Init /\ [][Delivered!Next]_stage
    <2> DEFINE I == ShapeInv /\ HandleInv /\ VerdictInv
    <2>1. Init => I /\ Delivered!Init
      <3>1. Init => VerdictInv /\ Delivered!Init
        BY DEF Init, VerdictInv, DeliveriesApart, StagesFollow
      <3> QED
        BY <3>1, ShapeInit
    <2>2. I /\ Next => VerdictInv' /\ [Delivered!Next]_stage
      <3> SUFFICES ASSUME I, Next PROVE VerdictInv' /\ [Delivered!Next]_stage
        OBVIOUS
      <3>1. PICK t \in Thread :
              \/ CreateEvent(t) \/ CreateBreadcrumb(t) \/ CreateScope(t) \/ CloneScope(t)
              \/ UseEvent(t) \/ UseBreadcrumb(t) \/ UseScope(t) \/ UseLog(t) \/ UseMetric(t)
              \/ AddToScope(t) \/ AddBreadcrumb(t) \/ Destroy(t)
              \/ InitSDK(t) \/ Close(t) \/ WriteGlobal(t)
              \/ CaptureEvent(t) \/ (\E k \in Kinds : CaptureNew(t, k))
              \/ HandlerReturns(t) \/ BeforeSendReturns(t)
        BY DEF Next
      <3>2. Typed /\ CallbackFinds /\ HandlesTyped
        BY DEF ShapeInv, HandleInv, Typed
      <3>3. Effect(t)
        BY <3>1, <3>2, StepHasEffect
      <3> QED
        BY <3>2, <3>3, EffectStands
    <2>3. I /\ UNCHANGED vars => VerdictInv' /\ UNCHANGED stage
      BY DEF vars, VerdictInv, DeliveriesApart, StagesFollow, Found
    <2>4. I /\ [Next]_vars => I' /\ [Delivered!Next]_stage
      BY <1>2, <2>2, <2>3, ShapeNext, ShapeStutters, HandleNext, HandleStutters
    <2> QED
      BY <2>1, <2>4, PTL DEF Spec
  <1> QED
    BY <1>1, <1>2 DEF Safe, VerdictsStand

=============================================================================
