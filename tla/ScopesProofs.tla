---------------------------- MODULE ScopesProofs ----------------------------
(***************************************************************************)
(* Proofs about Scopes, for any threads, scopes and bounds.                *)
(***************************************************************************)
EXTENDS Scopes, TLAPS, WellFoundedInduction, SequenceTheorems

-----------------------------------------------------------------------------
(* Facts about sequences. *)

(* A set of positions has a least one.                                     *)
LEMMA LeastPosition ==
    ASSUME NEW I \in SUBSET Nat, I # {}
    PROVE  \E i \in I : \A j \in I : i <= j
<1>1. \E i \in I : \A j \in I : ~(<<j, i>> \in OpToRel(<, Nat))
  BY NatLessThanWellFounded, WFMin
<1>2. \A i, j \in Nat : i < j => <<i, j>> \in OpToRel(<, Nat)
  BY DEF OpToRel
<1>3. \E i \in I : \A j \in I : ~(j < i)
  BY <1>1, <1>2, Zenon
<1>. QED BY <1>3

(* What RemoveFirst keeps was there before.                                *)
LEMMA RemoveFirstType ==
    ASSUME NEW S, NEW q \in Seq(S), NEW x
    PROVE  /\ RemoveFirst(q, x) \in Seq(S)
           /\ \A i \in DOMAIN RemoveFirst(q, x) :
                \E j \in DOMAIN q : RemoveFirst(q, x)[i] = q[j]
<1>. DEFINE I == {i \in 1..Len(q) : q[i] = x}
<1>1. CASE I = {}
  <2>1. RemoveFirst(q, x) = q  BY <1>1 DEF RemoveFirst
  <2>. QED BY <2>1
<1>2. CASE I # {}
  <2>1. PICK k \in I : k = Min(I)
    BY <1>2, LeastPosition DEF Min
  <2>. DEFINE before == SubSeq(q, 1, k - 1)
              after == SubSeq(q, k + 1, Len(q))
              kept == RemoveFirst(q, x)
  <2>2. kept = before \o after
    BY <1>2, <2>1 DEF RemoveFirst, SelectInSeq, RemoveAt
  <2>3. k \in 1..Len(q) /\ Len(q) \in Nat  OBVIOUS
  <2>4. /\ before \in Seq(S) /\ Len(before) = k - 1
        /\ after \in Seq(S) /\ Len(after) = Len(q) - k
        /\ \A i \in 1..(k - 1) : before[i] = q[i]
        /\ \A i \in 1..(Len(q) - k) : after[i] = q[k + i]
    BY <2>3
  <2>. HIDE DEF before, after, kept
  <2>5. /\ kept \in Seq(S)
        /\ Len(kept) = Len(q) - 1
        /\ \A i \in 1..(Len(q) - 1) :
             kept[i] = IF i <= k - 1 THEN before[i] ELSE after[i - (k - 1)]
    <3>1. /\ before \o after \in Seq(S)
          /\ Len(before \o after) = Len(before) + Len(after)
          /\ \A i \in 1..(Len(before) + Len(after)) :
               (before \o after)[i] = IF i <= Len(before) THEN before[i]
                                      ELSE after[i - Len(before)]
      BY <2>4, ConcatProperties
    <3>2. Len(before) + Len(after) = Len(q) - 1
      BY <2>3, <2>4
    <3>. QED BY <2>2, <2>4, <3>1, <3>2
  <2>6. \A i \in 1..(Len(q) - 1) : kept[i] = IF i < k THEN q[i] ELSE q[i + 1]
    BY <2>3, <2>4, <2>5
  <2>7. /\ kept \in Seq(S)
        /\ \A i \in DOMAIN kept : \E j \in DOMAIN q : kept[i] = q[j]
    <3>1. DOMAIN kept = 1..(Len(q) - 1) /\ DOMAIN q = 1..Len(q)
      BY <2>5
    <3>2. ASSUME NEW i \in 1..(Len(q) - 1) PROVE \E j \in 1..Len(q) : kept[i] = q[j]
      <4>1. i \in 1..Len(q) /\ i + 1 \in 1..Len(q)
        BY <2>3
      <4>. QED BY <2>6, <4>1
    <3>. QED BY <2>5, <3>1, <3>2
  <2>. QED BY <2>7 DEF kept
<1>. QED BY <1>1, <1>2

(* Last and Front of a sequence that is not empty.                         *)
LEMMA LastFrontType ==
    ASSUME NEW S, NEW q \in Seq(S), q # <<>>
    PROVE  /\ Last(q) \in S
           /\ Len(q) \in DOMAIN q
           /\ Front(q) \in Seq(S)
BY DEF Last, Front

(* Without an occurrence RemoveFirst changes nothing; with only the last   *)
(* element to remove it is Front.                                          *)
LEMMA RemoveFirstAbsent ==
    ASSUME NEW S, NEW q \in Seq(S), NEW x, \A i \in DOMAIN q : q[i] # x
    PROVE  RemoveFirst(q, x) = q
BY DEF RemoveFirst

LEMMA RemoveFirstLast ==
    ASSUME NEW S, NEW q \in Seq(S), q # <<>>,
           \A i \in DOMAIN q : q[i] = q[Len(q)] => i = Len(q)
    PROVE  RemoveFirst(q, q[Len(q)]) = Front(q)
<1>. DEFINE x == q[Len(q)]
            I == {i \in 1..Len(q) : q[i] = x}
<1>1. Len(q) \in DOMAIN q /\ DOMAIN q = 1..Len(q)
  BY LastFrontType
<1>2. I = {Len(q)}
  BY <1>1
<1>3. Min(I) = Len(q)
  BY <1>1, <1>2 DEF Min
<1>4. RemoveFirst(q, x) = SubSeq(q, 1, Len(q) - 1) \o SubSeq(q, Len(q) + 1, Len(q))
  BY <1>1, <1>2, <1>3 DEF RemoveFirst, SelectInSeq, RemoveAt
<1>5. SubSeq(q, 1, Len(q) - 1) \in Seq(S) /\ SubSeq(q, Len(q) + 1, Len(q)) = <<>>
  BY <1>1
<1>6. SubSeq(q, 1, Len(q) - 1) \o <<>> = SubSeq(q, 1, Len(q) - 1)
  BY <1>5, ConcatEmptySeq
<1>. QED BY <1>4, <1>5, <1>6 DEF Front

-----------------------------------------------------------------------------
(* Type correctness. *)

LEMMA IdleIsCall == Idle \in Call
BY DEF Idle, Call, Operation

(* SyncedStack is the list itself or nothing.                              *)
LEMMA SyncedStackType ==
    ASSUME TypeOK, NEW t \in Thread
    PROVE  SyncedStack(t) \in Seq(Scope)
BY DEF TypeOK, SyncedStack

LEMMA InvalidateType ==
    ASSUME TypeOK, InvalidateScopes
    PROVE  epoch' \in Nat /\ stack' \in [Thread -> Seq(Scope)]
<1>1. <<>> \in Seq(Scope)
  BY EmptySeq
<1>. QED BY <1>1, ConstantsAssumption DEF TypeOK, InvalidateScopes

LEMMA TypeInit == Init => TypeOK
<1>. SUFFICES ASSUME Init PROVE TypeOK
  OBVIOUS
<1>1. /\ stack \in [Thread -> Seq(Scope)]
      /\ frames \in [Thread -> Seq(Frame)]
      /\ call \in [Thread -> Call]
  BY IdleIsCall, EmptySeq DEF Init
<1>2. /\ owner \in [Scope -> Thread]
      /\ data \in [Scope -> SUBSET Write]
      /\ born \in [Scope -> Nat]
      /\ localEpoch \in [Thread -> Nat]
  BY ConstantsAssumption DEF Init
<1>3. /\ epoch \in Nat /\ allocated \subseteq Scope /\ enabled \in BOOLEAN
      /\ phase \in {"idle", "initializing", "closing"} /\ sessionEpoch \in Nat
  BY DEF Init
<1>. QED BY <1>1, <1>2, <1>3 DEF TypeOK

LEMMA TypeNext ==
    ASSUME TypeOK, [Next]_vars
    PROVE  TypeOK'
<1>. USE DEF TypeOK
<1>1. ASSUME NEW t \in Thread, NEW op \in Operation, ReadEpoch(t, op)
      PROVE  TypeOK'
  BY <1>1 DEF ReadEpoch, Call, heapVars, lifecycleVars
<1>2. ASSUME NEW t \in Thread, ResolveExisting(t)
      PROVE  TypeOK'
  <2>1. SyncedStack(t) \in Seq(Scope) /\ Last(SyncedStack(t)) \in Scope
    BY <1>2, SyncedStackType, LastFrontType DEF ResolveExisting
  <2>2. call' \in [Thread -> Call] /\ localEpoch' \in [Thread -> Nat]
    BY <1>2, <2>1, IdleIsCall DEF ResolveExisting, Call
  <2>. QED BY <1>2, <2>1, <2>2 DEF ResolveExisting, heapVars, lifecycleVars
<1>3. ASSUME NEW t \in Thread, NEW s \in Scope, ResolveRoot(t, s)
      PROVE  TypeOK'
  <2>1. call' \in [Thread -> Call] /\ localEpoch' \in [Thread -> Nat] /\ call[t].epoch \in Nat
    BY <1>3, IdleIsCall DEF ResolveRoot, Call
  <2>2. stack' \in [Thread -> Seq(Scope)]
    BY <1>3 DEF ResolveRoot
  <2>. QED BY <1>3, <2>1, <2>2 DEF ResolveRoot, Construct, lifecycleVars
<1>4. ASSUME NEW t \in Thread, NEW s \in Scope, PushScope(t, s)
      PROVE  TypeOK'
  <2>1. SyncedStack(t) \in Seq(Scope) /\ Last(SyncedStack(t)) \in Scope
    BY <1>4, SyncedStackType, LastFrontType DEF PushScope
  <2>2. call[t].epoch \in Nat
    BY DEF Call
  <2>3. Append(SyncedStack(t), s) \in Seq(Scope)
    BY <2>1
  <2>4. \A f \in Frame : Append(frames[t], f) \in Seq(Frame)
    OBVIOUS
  <2>5. [kind |-> "with_scope", scope |-> s, parent |-> Last(SyncedStack(t)),
         epoch |-> call[t].epoch] \in Frame
    BY <2>1, <2>2 DEF Frame
  <2>. QED BY <1>4, <2>1, <2>2, <2>3, <2>4, <2>5, IdleIsCall
           DEF PushScope, Construct, lifecycleVars
<1>5. ASSUME NEW t \in Thread, NEW s \in Scope, WriteScope(t, s)
      PROVE  TypeOK'
  <2>1. [by |-> t, to |-> s, at |-> epoch] \in Write
    BY DEF Write
  <2>. QED BY <1>5, <2>1 DEF WriteScope, RecordWrite, lifecycleVars
<1>6. ASSUME NEW t \in Thread, NEW s \in Scope, ClearScope(t, s)
      PROVE  TypeOK'
  BY <1>6 DEF ClearScope, lifecycleVars
<1>7. ASSUME NEW t \in Thread, PopScope(t)
      PROVE  TypeOK'
  <2>1. Front(frames[t]) \in Seq(Frame)
    BY <1>7, LastFrontType DEF PopScope, ReturnFromCallable
  <2>2. RemoveFirst(stack[t], Last(frames[t]).scope) \in Seq(Scope)
    BY RemoveFirstType
  <2>. QED BY <1>7, <2>1, <2>2 DEF PopScope, ReturnFromCallable, heapVars, lifecycleVars
<1>8. ASSUME NEW t \in Thread, Submit(t)
      PROVE  TypeOK'
  BY <1>8, IdleIsCall DEF Submit, heapVars, lifecycleVars
<1>9. ASSUME NEW s \in Scope, DestroyScope(s)
      PROVE  TypeOK'
  BY <1>9, ConstantsAssumption DEF DestroyScope, lifecycleVars
<1>10. ASSUME InitBegin
       PROVE  TypeOK'
  <2>1. InitFrame \in Frame
    BY DEF InitFrame, Frame
  <2>2. Append(frames[MainThread], InitFrame) \in Seq(Frame)
    BY <2>1, ConstantsAssumption
  <2>. QED BY <1>10, <2>2 DEF InitBegin, heapVars, lifecycleVars
<1>11. ASSUME InitInvalidate
       PROVE  TypeOK'
  <2>1. Front(frames[MainThread]) \in Seq(Frame)
    BY <1>11, LastFrontType, ConstantsAssumption DEF InitInvalidate
  <2>. QED BY <1>11, <2>1, InvalidateType DEF InitInvalidate, heapVars
<1>12. ASSUME NEW ok \in BOOLEAN, InitBackend(ok)
       PROVE  TypeOK'
  BY <1>12 DEF InitBackend, heapVars
<1>13. ASSUME CloseBackend
       PROVE  TypeOK'
  BY <1>13 DEF CloseBackend, heapVars
<1>14. ASSUME CloseInvalidate
       PROVE  TypeOK'
  BY <1>14, InvalidateType DEF CloseInvalidate, heapVars
<1>15. CASE UNCHANGED vars
  BY <1>15 DEF vars, heapVars, lifecycleVars
<1>. QED
  BY <1>1, <1>2, <1>3, <1>4, <1>5, <1>6, <1>7, <1>8, <1>9, <1>10, <1>11,
     <1>12, <1>13, <1>14, <1>15 DEF Next, ScopeStep, LifecycleStep

(* Every state of the facade has the declared type.                        *)
THEOREM TypeCorrect == Spec => []TypeOK
<1>1. Init => TypeOK                      BY TypeInit
<1>2. TypeOK /\ [Next]_vars => TypeOK'    BY TypeNext
<1>. QED BY <1>1, <1>2, PTL DEF Spec

-----------------------------------------------------------------------------
(***************************************************************************)
(* Session isolation.  The facade holds no lock, so the argument runs      *)
(* through the epoch every object was made under: a list only holds scopes *)
(* born under the epoch the thread last compared, a capture holds a scope  *)
(* born under the epoch it read, and nothing is written to a scope before  *)
(* it is born.                                                             *)
(***************************************************************************)
CallsBehind ==
    \A t \in Thread : call[t].stage # "idle" => call[t].epoch <= epoch

ScopesBehind == \A s \in allocated : born[s] <= epoch

StackIsOwn ==
    \A t \in Thread : \A i \in DOMAIN stack[t] :
        /\ stack[t][i] \in allocated
        /\ owner[stack[t][i]] = t
        /\ born[stack[t][i]] = localEpoch[t]

CaptureIsOwn ==
    \A t \in Thread : call[t].stage = "resolved" =>
        /\ call[t].scope \in allocated
        /\ owner[call[t].scope] = t
        /\ born[call[t].scope] = call[t].epoch

WritesAreOwn ==
    \A s \in allocated : \A w \in data[s] : w.by = owner[s] /\ w.at >= born[s]

IsolationInv ==
    /\ TypeOK
    /\ CallsBehind
    /\ ScopesBehind
    /\ StackIsOwn
    /\ CaptureIsOwn
    /\ WritesAreOwn

(* The invariant gives both properties of a capture.                       *)
LEMMA IsolationSuffices == IsolationInv => SessionIsolation /\ CapturesOwnThread
<1>. SUFFICES ASSUME IsolationInv, NEW t \in Thread, call[t].stage = "resolved",
                     NEW w \in data[call[t].scope]
              PROVE  /\ w.by = t
                     /\ call[t].epoch >= sessionEpoch => w.at >= sessionEpoch
  BY DEF SessionIsolation, CapturesOwnThread
<1>1. w.by = t /\ w.at >= call[t].epoch
  BY DEF IsolationInv, CaptureIsOwn, WritesAreOwn
<1>2. w \in Write /\ call[t] \in Call
  BY DEF IsolationInv, TypeOK, CaptureIsOwn
<1>. QED BY <1>1, <1>2 DEF IsolationInv, TypeOK, Write, Call

LEMMA IsolationInit == Init => IsolationInv
<1>. SUFFICES ASSUME Init PROVE IsolationInv
  OBVIOUS
<1>1. TypeOK
  BY TypeInit
<1>2. StackIsOwn
  BY DEF Init, StackIsOwn
<1>. QED
  BY <1>1, <1>2 DEF Init, IsolationInv, CallsBehind, ScopesBehind, CaptureIsOwn, WritesAreOwn, Idle

(* A list that passed the epoch comparison holds scopes of that epoch.     *)
LEMMA SyncedStackIsOwn ==
    ASSUME IsolationInv, NEW t \in Thread
    PROVE  \A i \in DOMAIN SyncedStack(t) :
             /\ SyncedStack(t)[i] \in allocated
             /\ owner[SyncedStack(t)[i]] = t
             /\ born[SyncedStack(t)[i]] = call[t].epoch
BY DEF IsolationInv, StackIsOwn, SyncedStack

(* Nothing of the invariant depends on what a new scope overwrites.        *)
LEMMA ConstructKeeps ==
    ASSUME IsolationInv, NEW t \in Thread, NEW s \in Scope,
           NEW contents \in SUBSET Write, NEW e \in Nat,
           Construct(t, s, contents, e)
    PROVE  /\ owner'[s] = t /\ born'[s] = e /\ data'[s] = contents
           /\ s \in allocated'
           /\ \A o \in allocated : /\ o \in allocated' /\ o # s
                                   /\ owner'[o] = owner[o]
                                   /\ born'[o] = born[o]
                                   /\ data'[o] = data[o]
BY DEF IsolationInv, TypeOK, Construct

LEMMA IsolationNext ==
    ASSUME IsolationInv, [Next]_vars
    PROVE  IsolationInv'
<1>. TypeOK /\ TypeOK'
  BY TypeNext DEF IsolationInv
<1>1. ASSUME NEW t \in Thread, NEW op \in Operation, ReadEpoch(t, op)
      PROVE  IsolationInv'
  <2>1. CallsBehind' /\ CaptureIsOwn'
    BY <1>1 DEF ReadEpoch, IsolationInv, TypeOK, CallsBehind, CaptureIsOwn, heapVars
  <2>. QED BY <1>1, <2>1 DEF ReadEpoch, IsolationInv, ScopesBehind, StackIsOwn,
           WritesAreOwn, heapVars
<1>2. ASSUME NEW t \in Thread, ResolveExisting(t)
      PROVE  IsolationInv'
  <2>1. /\ SyncedStack(t) \in Seq(Scope)
        /\ Len(SyncedStack(t)) \in DOMAIN SyncedStack(t)
    BY <1>2, SyncedStackType, LastFrontType DEF ResolveExisting
  <2>2. /\ localEpoch' = [localEpoch EXCEPT ![t] = call[t].epoch]
        /\ stack' = [stack EXCEPT ![t] = SyncedStack(t)]
        /\ UNCHANGED <<epoch, allocated, owner, data, born>>
    BY <1>2 DEF ResolveExisting, heapVars
  <2>3. /\ \A u \in Thread \ {t} : call'[u] = call[u]
        /\ call'[t].stage # "idle" => call'[t].epoch = call[t].epoch
        /\ call'[t].stage = "resolved" => call'[t].scope = Last(SyncedStack(t))
        /\ call[t].stage = "read"
    BY <1>2 DEF ResolveExisting, TypeOK, Call, Idle
  <2>4. StackIsOwn'
    <3>1. \A u \in Thread \ {t} : stack'[u] = stack[u] /\ localEpoch'[u] = localEpoch[u]
      BY <2>2 DEF TypeOK
    <3>2. stack'[t] = SyncedStack(t) /\ localEpoch'[t] = call[t].epoch
      BY <2>2 DEF TypeOK
    <3>. QED BY <2>2, <3>1, <3>2, SyncedStackIsOwn DEF IsolationInv, StackIsOwn
  <2>5. CaptureIsOwn'
    BY <2>1, <2>2, <2>3, SyncedStackIsOwn DEF IsolationInv, CaptureIsOwn, Last
  <2>6. CallsBehind'
    BY <2>2, <2>3 DEF IsolationInv, CallsBehind
  <2>. QED BY <2>2, <2>4, <2>5, <2>6 DEF IsolationInv, ScopesBehind, WritesAreOwn
<1>3. ASSUME NEW t \in Thread, NEW s \in Scope, ResolveRoot(t, s)
      PROVE  IsolationInv'
  <2>1. call[t].epoch \in Nat /\ call[t].epoch <= epoch /\ epoch' = epoch
    BY <1>3 DEF ResolveRoot, IsolationInv, TypeOK, CallsBehind, Call
  <2>2. /\ owner'[s] = t /\ born'[s] = call[t].epoch /\ data'[s] = {}
        /\ s \in allocated'
        /\ \A o \in allocated : /\ o \in allocated' /\ o # s
                                /\ owner'[o] = owner[o]
                                /\ born'[o] = born[o]
                                /\ data'[o] = data[o]
    BY <1>3, <2>1, ConstructKeeps DEF ResolveRoot
  <2>3. allocated' = allocated \cup {s}
    BY <1>3 DEF ResolveRoot, Construct
  <2>4. /\ localEpoch' = [localEpoch EXCEPT ![t] = call[t].epoch]
        /\ stack' = [stack EXCEPT ![t] = <<s>>]
    BY <1>3 DEF ResolveRoot
  <2>5. /\ \A u \in Thread \ {t} : call'[u] = call[u]
        /\ call'[t].stage # "idle" => call'[t].epoch = call[t].epoch
        /\ call'[t].stage = "resolved" => call'[t].scope = s
    <3>1. call \in [Thread -> Call]
      BY <1>3 DEF TypeOK
    <3>. QED BY <1>3, <3>1 DEF ResolveRoot, Idle
  <2>6. StackIsOwn'
    BY <2>2, <2>4 DEF IsolationInv, TypeOK, StackIsOwn
  <2>7. CaptureIsOwn'
    BY <2>2, <2>5 DEF IsolationInv, CaptureIsOwn
  <2>8. CallsBehind'
    BY <2>1, <2>5 DEF IsolationInv, CallsBehind
  <2>9. ScopesBehind' /\ WritesAreOwn'
    BY <2>1, <2>2, <2>3 DEF IsolationInv, ScopesBehind, WritesAreOwn
  <2>. QED BY <2>6, <2>7, <2>8, <2>9 DEF IsolationInv
<1>4. ASSUME NEW t \in Thread, NEW s \in Scope, PushScope(t, s)
      PROVE  IsolationInv'
  <2>. DEFINE parent == Last(SyncedStack(t))
  <2>1. /\ SyncedStack(t) \in Seq(Scope)
        /\ parent \in allocated
        /\ owner[parent] = t
        /\ born[parent] = call[t].epoch
    BY <1>4, SyncedStackType, LastFrontType, SyncedStackIsOwn DEF PushScope, Last
  <2>2. call[t].epoch \in Nat /\ call[t].epoch <= epoch /\ epoch' = epoch
    BY <1>4 DEF PushScope, IsolationInv, TypeOK, CallsBehind, Call, lifecycleVars
  <2>3. data[parent] \in SUBSET Write
    BY <2>1 DEF TypeOK
  <2>4. /\ owner'[s] = t /\ born'[s] = call[t].epoch /\ data'[s] = data[parent]
        /\ s \in allocated'
        /\ \A o \in allocated : /\ o \in allocated' /\ o # s
                                /\ owner'[o] = owner[o]
                                /\ born'[o] = born[o]
                                /\ data'[o] = data[o]
    BY <1>4, <2>2, <2>3, ConstructKeeps DEF PushScope
  <2>5. allocated' = allocated \cup {s}
    BY <1>4 DEF PushScope, Construct
  <2>6. \A i \in DOMAIN Append(SyncedStack(t), s) :
          /\ Append(SyncedStack(t), s)[i] \in allocated'
          /\ owner'[Append(SyncedStack(t), s)[i]] = t
          /\ born'[Append(SyncedStack(t), s)[i]] = call[t].epoch
    BY <2>1, <2>4, SyncedStackIsOwn
  <2>7. /\ localEpoch' = [localEpoch EXCEPT ![t] = call[t].epoch]
        /\ stack' = [stack EXCEPT ![t] = Append(SyncedStack(t), s)]
        /\ call' = [call EXCEPT ![t] = Idle]
    BY <1>4 DEF PushScope
  <2>8. StackIsOwn'
    <3>1. \A u \in Thread \ {t} : stack'[u] = stack[u] /\ localEpoch'[u] = localEpoch[u]
      BY <2>7 DEF TypeOK
    <3>2. stack'[t] = Append(SyncedStack(t), s) /\ localEpoch'[t] = call[t].epoch
      BY <2>7 DEF TypeOK
    <3>. QED BY <2>4, <2>6, <3>1, <3>2 DEF IsolationInv, StackIsOwn
  <2>9. CaptureIsOwn'
    <3>1. \A u \in Thread \ {t} : call'[u] = call[u]
      BY <2>7 DEF TypeOK
    <3>2. call'[t].stage = "idle"
      BY <2>7 DEF TypeOK, Idle
    <3>. QED BY <2>4, <3>1, <3>2 DEF IsolationInv, CaptureIsOwn
  <2>10. CallsBehind'
    BY <2>2, <2>7 DEF IsolationInv, TypeOK, CallsBehind, Idle
  <2>11. ScopesBehind' /\ WritesAreOwn'
    BY <2>1, <2>2, <2>4, <2>5 DEF IsolationInv, ScopesBehind, WritesAreOwn
  <2>. QED BY <2>8, <2>9, <2>10, <2>11 DEF IsolationInv
<1>5. ASSUME NEW t \in Thread, NEW s \in Scope, WriteScope(t, s)
      PROVE  IsolationInv'
  <2>1. WritesAreOwn'
    BY <1>5 DEF WriteScope, RecordWrite, IsolationInv, TypeOK, ScopesBehind, WritesAreOwn
  <2>. QED BY <1>5, <2>1 DEF WriteScope, RecordWrite, IsolationInv, CallsBehind,
           ScopesBehind, StackIsOwn, CaptureIsOwn
<1>6. ASSUME NEW t \in Thread, NEW s \in Scope, ClearScope(t, s)
      PROVE  IsolationInv'
  <2>1. WritesAreOwn'
    BY <1>6 DEF ClearScope, IsolationInv, TypeOK, WritesAreOwn
  <2>. QED BY <1>6, <2>1 DEF ClearScope, IsolationInv, CallsBehind,
           ScopesBehind, StackIsOwn, CaptureIsOwn
<1>7. ASSUME NEW t \in Thread, PopScope(t)
      PROVE  IsolationInv'
  <2>. DEFINE kept == RemoveFirst(stack[t], Last(frames[t]).scope)
  <2>1. \A i \in DOMAIN kept : \E j \in DOMAIN stack[t] : kept[i] = stack[t][j]
    BY RemoveFirstType DEF TypeOK
  <2>2. stack' = [stack EXCEPT ![t] = kept]
    BY <1>7 DEF PopScope
  <2>. HIDE DEF kept
  <2>3. StackIsOwn'
    BY <1>7, <2>1, <2>2 DEF PopScope, ReturnFromCallable, IsolationInv, TypeOK, StackIsOwn, heapVars
  <2>. QED BY <1>7, <2>3 DEF PopScope, ReturnFromCallable, IsolationInv, CallsBehind,
           ScopesBehind, CaptureIsOwn, WritesAreOwn, heapVars
<1>8. ASSUME NEW t \in Thread, Submit(t)
      PROVE  IsolationInv'
  <2>1. CallsBehind' /\ CaptureIsOwn'
    BY <1>8 DEF Submit, IsolationInv, TypeOK, CallsBehind, CaptureIsOwn, Idle, heapVars
  <2>. QED BY <1>8, <2>1 DEF Submit, IsolationInv, ScopesBehind, StackIsOwn, WritesAreOwn, heapVars
<1>9. ASSUME NEW s \in Scope, DestroyScope(s)
      PROVE  IsolationInv'
  <2>1. \A t \in Thread : /\ \A i \in DOMAIN stack[t] : stack[t][i] # s
                          /\ call[t].scope # s
    BY <1>9 DEF DestroyScope, Referenced, Contains, TypeOK
  <2>2. \A o \in allocated' : /\ o \in allocated /\ o # s
                             /\ owner'[o] = owner[o]
                             /\ born'[o] = born[o]
                             /\ data'[o] = data[o]
    BY <1>9 DEF DestroyScope, TypeOK
  <2>3. allocated' = allocated \ {s}
    BY <1>9 DEF DestroyScope
  <2>4. UNCHANGED <<epoch, stack, localEpoch, call>>
    BY <1>9 DEF DestroyScope
  <2>5. StackIsOwn'
    BY <2>1, <2>2, <2>3, <2>4 DEF IsolationInv, StackIsOwn
  <2>6. CaptureIsOwn'
    BY <2>1, <2>2, <2>3, <2>4 DEF IsolationInv, CaptureIsOwn
  <2>. QED BY <2>2, <2>4, <2>5, <2>6 DEF IsolationInv, CallsBehind,
           ScopesBehind, WritesAreOwn
<1>10. ASSUME InitBegin
       PROVE  IsolationInv'
  BY <1>10 DEF InitBegin, IsolationInv, CallsBehind, ScopesBehind, StackIsOwn,
     CaptureIsOwn, WritesAreOwn, heapVars
<1>11. ASSUME InvalidateScopes, UNCHANGED <<localEpoch, call, heapVars>>
       PROVE  IsolationInv'
  <2>0. epoch \in Nat /\ epoch' = epoch + 1 /\ UNCHANGED <<call, allocated, born>>
    BY <1>11 DEF InvalidateScopes, TypeOK, heapVars
  <2>1. CallsBehind' /\ ScopesBehind'
    <3>1. CallsBehind'
      <4>1. \A t \in Thread : call[t].epoch \in Nat
        BY DEF TypeOK, Call
      <4>. QED BY <2>0, <4>1 DEF IsolationInv, CallsBehind
    <3>2. ScopesBehind'
      <4>1. \A s \in allocated : born[s] \in Nat
        BY DEF TypeOK
      <4>. QED BY <2>0, <4>1 DEF IsolationInv, ScopesBehind
    <3>. QED BY <3>1, <3>2
  <2>2. StackIsOwn'
    BY <1>11 DEF InvalidateScopes, IsolationInv, TypeOK, StackIsOwn, heapVars
  <2>. QED BY <1>11, <2>1, <2>2 DEF IsolationInv, CaptureIsOwn, WritesAreOwn, heapVars
<1>12. ASSUME InitInvalidate
       PROVE  IsolationInv'
  BY <1>11, <1>12 DEF InitInvalidate
<1>13. ASSUME NEW ok \in BOOLEAN, InitBackend(ok)
       PROVE  IsolationInv'
  BY <1>13 DEF InitBackend, IsolationInv, CallsBehind, ScopesBehind, StackIsOwn,
     CaptureIsOwn, WritesAreOwn, heapVars
<1>14. ASSUME CloseBackend
       PROVE  IsolationInv'
  BY <1>14 DEF CloseBackend, IsolationInv, CallsBehind, ScopesBehind, StackIsOwn,
     CaptureIsOwn, WritesAreOwn, heapVars
<1>15. ASSUME CloseInvalidate
       PROVE  IsolationInv'
  BY <1>11, <1>15 DEF CloseInvalidate
<1>16. CASE UNCHANGED vars
  BY <1>16 DEF vars, IsolationInv, CallsBehind, ScopesBehind, StackIsOwn,
     CaptureIsOwn, WritesAreOwn, heapVars, lifecycleVars
<1>. QED
  BY <1>1, <1>2, <1>3, <1>4, <1>5, <1>6, <1>7, <1>8, <1>9, <1>10, <1>12,
     <1>13, <1>14, <1>15, <1>16 DEF Next, ScopeStep, LifecycleStep

(* Whatever the number of threads, re-initializations and nested calls, a  *)
(* capture carries no scope data of an earlier session unless it was in    *)
(* flight during init(), and only data its own thread wrote.               *)
THEOREM SessionsAreIsolated == Spec => [](SessionIsolation /\ CapturesOwnThread)
<1>1. Init => IsolationInv                        BY IsolationInit
<1>2. IsolationInv /\ [Next]_vars => IsolationInv' BY IsolationNext
<1>3. IsolationInv => SessionIsolation /\ CapturesOwnThread
  BY IsolationSuffices
<1>. QED BY <1>1, <1>2, <1>3, PTL DEF Spec

(* A capture carries only what its own thread wrote, whoever else holds a  *)
(* reference to the scope.                                                 *)
THEOREM CapturesAreOwn == Spec => []CapturesOwnThread
BY SessionsAreIsolated, PTL

-----------------------------------------------------------------------------
(***************************************************************************)
(* The list of a thread against its with_scope() calls.  A step of thread  *)
(* t touches the list and the calls of t alone, so the invariant is stated *)
(* per thread; only _invalidate_scopes() reaches further, to the list of   *)
(* the main thread, which is in no other call then (MainInStep).           *)
(***************************************************************************)
IsFork(t, n) == frames[t][n].kind = "with_scope"

MainInStep ==
    call[MainThread].stage # "idle" => phase = "idle" /\ call[MainThread].epoch = epoch

LocalBehind(t) ==
    /\ localEpoch[t] <= epoch
    /\ call[t].stage # "idle" => localEpoch[t] <= call[t].epoch

FramesAreOwn(t) ==
    \A n \in DOMAIN frames[t] :
        IF IsFork(t, n)
        THEN frames[t][n].scope \in allocated /\ frames[t][n].epoch <= localEpoch[t]
        ELSE frames[t][n].scope = NoScope

FramesDistinct(t) ==
    \A m, n \in DOMAIN frames[t] :
        (IsFork(t, m) /\ frames[t][m].scope = frames[t][n].scope) => m = n

(* A fork only leaves the list with its callable, or with the whole list   *)
(* when the thread moves to another epoch.                                 *)
ForksStay(t) ==
    \A n \in DOMAIN frames[t] :
        (/\ IsFork(t, n)
         /\ frames[t][n].epoch = localEpoch[t]
         /\ t # MainThread \/ localEpoch[t] = epoch)
            => \E i \in DOMAIN stack[t] : stack[t][i] = frames[t][n].scope

ParentBelow(t) ==
    \A n \in DOMAIN frames[t], i \in DOMAIN stack[t] :
        (i > 1 /\ stack[t][i] = frames[t][n].scope)
            => stack[t][i - 1] = frames[t][n].parent

CaptureIsCurrent(t) ==
    call[t].stage = "resolved" => stack[t] # <<>> /\ call[t].scope = Last(stack[t])

WritesFromBelow(t) ==
    \A i \in DOMAIN stack[t] : \A w \in data[stack[t][i]] :
        \E j \in 1..i : w.to = stack[t][j]

ThreadInv(t) ==
    /\ LocalBehind(t)
    /\ FramesAreOwn(t)
    /\ FramesDistinct(t)
    /\ ForksStay(t)
    /\ ParentBelow(t)
    /\ CaptureIsCurrent(t)
    /\ WritesFromBelow(t)
    /\ ForksInOrder(t)

StackInv ==
    /\ IsolationInv
    /\ MainInStep
    /\ \A t \in Thread : ThreadInv(t)

(* What the invariant is made of.                                          *)
LEMMA StackTypes ==
    ASSUME StackInv, NEW t \in Thread
    PROVE  /\ TypeOK /\ ThreadInv(t)
           /\ stack[t] \in Seq(Scope) /\ frames[t] \in Seq(Frame) /\ call[t] \in Call
           /\ epoch \in Nat /\ localEpoch[t] \in Nat /\ call[t].epoch \in Nat
           /\ DOMAIN stack[t] = 1..Len(stack[t]) /\ Len(stack[t]) \in Nat
           /\ DOMAIN frames[t] = 1..Len(frames[t]) /\ Len(frames[t]) \in Nat
BY DEF StackInv, IsolationInv, TypeOK, Call

LEMMA StackInit == Init => StackInv
<1>. SUFFICES ASSUME Init PROVE StackInv
  OBVIOUS
<1>1. IsolationInv
  BY IsolationInit
<1>2. MainInStep
  BY ConstantsAssumption DEF Init, MainInStep, Idle
<1>3. ASSUME NEW t \in Thread PROVE ThreadInv(t)
  <2>1. /\ stack[t] = <<>> /\ frames[t] = <<>> /\ call[t].stage = "idle"
        /\ localEpoch[t] = 0 /\ epoch = 0
    BY DEF Init, Idle
  <2>. QED BY <2>1 DEF ThreadInv, LocalBehind, FramesAreOwn, FramesDistinct, ForksStay,
           ParentBelow, CaptureIsCurrent, WritesFromBelow, ForksInOrder
<1>. QED BY <1>1, <1>2, <1>3 DEF StackInv

(* The innermost call's fork is the last of the list or not in it.         *)
LEMMA InnermostForkLast ==
    ASSUME StackInv, NEW t \in Thread, frames[t] # <<>>,
           NEW i \in DOMAIN stack[t], stack[t][i] = Last(frames[t]).scope
    PROVE  i = Len(stack[t]) /\ i > 1
<1>. DEFINE top == Len(frames[t])
<1>1. top \in DOMAIN frames[t] /\ Last(frames[t]) = frames[t][top]
  BY StackTypes, LastFrontType DEF Last
<1>2. i # 1
  BY <1>1, StackTypes, EmptySeq DEF ThreadInv, ForksInOrder, IsOpenFork
<1>3. ASSUME i < Len(stack[t]) PROVE FALSE
  <2>. DEFINE k == Len(stack[t])
  <2>1. k \in 2..Len(stack[t]) /\ k \in DOMAIN stack[t]
    BY <1>3, StackTypes
  <2>2. PICK m \in DOMAIN frames[t] : frames[t][m].scope = stack[t][k]
    BY <2>1, StackTypes DEF ThreadInv, ForksInOrder, IsOpenFork
  <2>3. stack[t][k] # stack[t][i]
    BY <1>3, <2>1, StackTypes DEF ThreadInv, ForksInOrder
  <2>4. m < top
    BY <1>1, <2>2, <2>3, StackTypes
  <2>5. frames[t][top].kind = "with_scope"
    <3>1. frames[t][top].scope \in Scope
      BY <1>1, StackTypes
    <3>. QED BY <1>1, <3>1, StackTypes, ConstantsAssumption DEF ThreadInv, FramesAreOwn, IsFork, Frame
  <2>. QED BY <1>1, <2>1, <2>2, <2>4, <2>5, StackTypes DEF ThreadInv, ForksInOrder
<1>. QED BY <1>2, <1>3, StackTypes

(* A step leaves the invariant of a thread alone when it leaves its list,  *)
(* its calls and the scopes in both alone.                                 *)
LEMMA OthersKeep ==
    ASSUME StackInv, NEW u \in Thread,
           epoch' = epoch,
           stack'[u] = stack[u], frames'[u] = frames[u],
           call'[u] = call[u], localEpoch'[u] = localEpoch[u],
           \A n \in DOMAIN frames[u] : frames[u][n].scope \in allocated
                                         => frames[u][n].scope \in allocated',
           \A i \in DOMAIN stack[u] : data'[stack[u][i]] = data[stack[u][i]]
    PROVE  ThreadInv(u)'
<1>1. ThreadInv(u)
  BY DEF StackInv
<1>2. LocalBehind(u)' /\ CaptureIsCurrent(u)'
  BY <1>1 DEF ThreadInv, LocalBehind, CaptureIsCurrent
<1>3. FramesAreOwn(u)' /\ FramesDistinct(u)'
  BY <1>1 DEF ThreadInv, FramesAreOwn, FramesDistinct, IsFork
<1>4. ForksStay(u)' /\ ParentBelow(u)'
  BY <1>1 DEF ThreadInv, ForksStay, ParentBelow, IsFork
<1>5. WritesFromBelow(u)'
  BY <1>1 DEF ThreadInv, WritesFromBelow
<1>6. ForksInOrder(u)'
  BY <1>1 DEF ThreadInv, ForksInOrder, IsOpenFork
<1>. QED BY <1>2, <1>3, <1>4, <1>5, <1>6 DEF ThreadInv

(* A new scope is in no list and in no call.                               *)
LEMMA FreshScope ==
    ASSUME StackInv, NEW s \in Scope, s \notin allocated, NEW u \in Thread
    PROVE  /\ \A i \in DOMAIN stack[u] : stack[u][i] # s
           /\ \A n \in DOMAIN frames[u] : frames[u][n].scope # s
<1>1. \A i \in DOMAIN stack[u] : stack[u][i] \in allocated
  BY DEF StackInv, IsolationInv, StackIsOwn
<1>2. \A n \in DOMAIN frames[u] : frames[u][n].scope \in allocated \cup {NoScope}
  BY DEF StackInv, ThreadInv, FramesAreOwn
<1>. QED BY <1>1, <1>2, ConstantsAssumption

(* A list that is not empty after the comparison passed it unchanged.      *)
LEMMA SyncedStackSame ==
    ASSUME StackInv, NEW t \in Thread, SyncedStack(t) # <<>>
    PROVE  SyncedStack(t) = stack[t] /\ localEpoch[t] = call[t].epoch
BY DEF SyncedStack

LEMMA ReadEpochKeepsStack ==
    ASSUME StackInv, IsolationInv', NEW t \in Thread, NEW op \in Operation, ReadEpoch(t, op)
    PROVE  StackInv'
<1>1. /\ UNCHANGED <<epoch, localEpoch, stack, frames, allocated, data, phase>>
      /\ \A u \in Thread \ {t} : call'[u] = call[u]
      /\ call'[t].stage = "read" /\ call'[t].epoch = epoch
      /\ t = MainThread => phase = "idle"
  BY StackTypes DEF ReadEpoch, heapVars, lifecycleVars, Free, TypeOK
<1>2. MainInStep'
  BY <1>1, ConstantsAssumption DEF StackInv, MainInStep
<1>3. \A u \in Thread \ {t} : ThreadInv(u)'
  BY <1>1, OthersKeep
<1>4. ThreadInv(t)'
  <2>1. LocalBehind(t)' /\ CaptureIsCurrent(t)'
    BY <1>1, StackTypes DEF ThreadInv, LocalBehind, CaptureIsCurrent
  <2>2. FramesAreOwn(t)' /\ FramesDistinct(t)' /\ ForksStay(t)' /\ ParentBelow(t)'
    BY <1>1, StackTypes DEF ThreadInv, FramesAreOwn, FramesDistinct, ForksStay, ParentBelow, IsFork
  <2>3. WritesFromBelow(t)' /\ ForksInOrder(t)'
    BY <1>1, StackTypes DEF ThreadInv, WritesFromBelow, ForksInOrder, IsOpenFork
  <2>. QED BY <2>1, <2>2, <2>3 DEF ThreadInv
<1>. QED BY <1>2, <1>3, <1>4 DEF StackInv

LEMMA ResolveExistingKeepsStack ==
    ASSUME StackInv, IsolationInv', NEW t \in Thread, ResolveExisting(t)
    PROVE  StackInv'
<1>1. SyncedStack(t) = stack[t] /\ localEpoch[t] = call[t].epoch /\ stack[t] # <<>>
  BY SyncedStackSame DEF ResolveExisting
<1>2. /\ UNCHANGED <<epoch, frames, allocated, data, phase>>
      /\ \A u \in Thread : stack'[u] = stack[u] /\ localEpoch'[u] = localEpoch[u]
      /\ \A u \in Thread \ {t} : call'[u] = call[u]
      /\ call[t].stage = "read"
  BY <1>1, StackTypes DEF ResolveExisting, heapVars, lifecycleVars, TypeOK
<1>3. /\ call'[t].stage # "idle" => call'[t].epoch = call[t].epoch
      /\ call'[t].stage = "resolved" => call'[t].scope = Last(stack[t])
  BY <1>1, <1>2, StackTypes DEF ResolveExisting, TypeOK, Call, Idle
<1>4. MainInStep'
  BY <1>2, <1>3, ConstantsAssumption DEF StackInv, MainInStep
<1>5. \A u \in Thread \ {t} : ThreadInv(u)'
  BY <1>2, OthersKeep
<1>6. ThreadInv(t)'
  <2>1. LocalBehind(t)' /\ CaptureIsCurrent(t)'
    BY <1>1, <1>2, <1>3, StackTypes DEF ThreadInv, LocalBehind, CaptureIsCurrent
  <2>2. FramesAreOwn(t)' /\ FramesDistinct(t)' /\ ForksStay(t)' /\ ParentBelow(t)'
    BY <1>2, StackTypes DEF ThreadInv, FramesAreOwn, FramesDistinct, ForksStay, ParentBelow, IsFork
  <2>3. WritesFromBelow(t)'
    BY <1>2, StackTypes DEF ThreadInv, WritesFromBelow
  <2>4. ForksInOrder(t)'
    <3>1. ThreadInv(t) /\ stack'[t] = stack[t] /\ frames'[t] = frames[t]
      BY <1>2 DEF StackInv
    <3>. QED BY <3>1 DEF ThreadInv, ForksInOrder, IsOpenFork
  <2>. QED BY <2>1, <2>2, <2>3, <2>4 DEF ThreadInv
<1>. QED BY <1>4, <1>5, <1>6 DEF StackInv

LEMMA ResolveRootKeepsStack ==
    ASSUME StackInv, IsolationInv', NEW t \in Thread, NEW s \in Scope, ResolveRoot(t, s)
    PROVE  StackInv'
<1>1. /\ UNCHANGED <<epoch, frames, phase>>
      /\ \A u \in Thread \ {t} : /\ stack'[u] = stack[u] /\ localEpoch'[u] = localEpoch[u]
                                 /\ call'[u] = call[u]
      /\ stack'[t] = <<s>> /\ localEpoch'[t] = call[t].epoch
      /\ call[t].stage = "read"
      /\ s \notin allocated /\ allocated' = allocated \cup {s}
      /\ data'[s] = {} /\ \A o \in Scope \ {s} : data'[o] = data[o]
  BY StackTypes DEF ResolveRoot, Construct, lifecycleVars, TypeOK
<1>2. /\ call'[t].stage # "idle" => call'[t].epoch = call[t].epoch
      /\ call'[t].stage = "resolved" => call'[t].scope = s
  BY StackTypes DEF ResolveRoot, TypeOK, Call, Idle
<1>3. MainInStep'
  BY <1>1, <1>2, ConstantsAssumption DEF StackInv, MainInStep
<1>4. \A u \in Thread \ {t} : ThreadInv(u)'
  <2>. SUFFICES ASSUME NEW u \in Thread \ {t} PROVE ThreadInv(u)'
    OBVIOUS
  <2>1. \A i \in DOMAIN stack[u] : stack[u][i] \in Scope \ {s}
    BY <1>1, FreshScope, StackTypes
  <2>. QED BY <1>1, <2>1, OthersKeep
<1>5. ThreadInv(t)'
  <2>1. call[t].epoch <= epoch /\ localEpoch[t] <= call[t].epoch /\ ThreadInv(t)
    BY <1>1 DEF StackInv, IsolationInv, CallsBehind, ThreadInv, LocalBehind
  <2>2. LocalBehind(t)' /\ CaptureIsCurrent(t)'
    BY <1>1, <1>2, <2>1, StackTypes DEF LocalBehind, CaptureIsCurrent, Last
  <2>3. FramesAreOwn(t)' /\ FramesDistinct(t)'
    <3>1. \A n \in DOMAIN frames[t] : frames[t][n].epoch \in Nat
      <4>1. \A n \in DOMAIN frames[t] : frames[t][n] \in Frame
        BY StackTypes
      <4>. QED BY <4>1 DEF Frame
    <3>. QED BY <1>1, <2>1, <3>1, StackTypes DEF ThreadInv, FramesAreOwn, FramesDistinct, IsFork
  <2>4. ForksStay(t)'
    <3>. SUFFICES ASSUME NEW n \in DOMAIN frames[t], IsFork(t, n),
                         frames[t][n].epoch = call[t].epoch,
                         t # MainThread \/ call[t].epoch = epoch
                  PROVE  FALSE
      BY <1>1 DEF ForksStay, IsFork
    <3>1. frames[t][n].epoch <= localEpoch[t] /\ frames[t][n].epoch \in Nat
      BY <2>1, StackTypes DEF ThreadInv, FramesAreOwn, Frame
    <3>2. localEpoch[t] = call[t].epoch
      BY <2>1, <3>1, StackTypes
    <3>3. stack[t] = <<>>
      BY <3>2 DEF ResolveRoot, SyncedStack
    <3>. QED BY <2>1, <3>2, <3>3, EmptySeq DEF ThreadInv, ForksStay
  <2>5. ParentBelow(t)' /\ WritesFromBelow(t)'
    BY <1>1 DEF ParentBelow, WritesFromBelow
  <2>6. ForksInOrder(t)'
    BY <1>1, FreshScope DEF ForksInOrder, IsOpenFork
  <2>. QED BY <2>2, <2>3, <2>4, <2>5, <2>6 DEF ThreadInv
<1>. QED BY <1>3, <1>4, <1>5 DEF StackInv

LEMMA PushScopeKeepsStack ==
    ASSUME StackInv, IsolationInv', NEW t \in Thread, NEW s \in Scope, PushScope(t, s)
    PROVE  StackInv'
<1>. DEFINE top == Len(stack[t])
            inner == Len(frames[t])
            parent == stack[t][top]
<1>1. SyncedStack(t) = stack[t] /\ localEpoch[t] = call[t].epoch /\ stack[t] # <<>>
  BY SyncedStackSame DEF PushScope
<1>2. top \in DOMAIN stack[t] /\ parent = Last(stack[t]) /\ parent \in Scope
  BY <1>1, LastFrontType, StackTypes DEF Last
<1>3. /\ UNCHANGED <<epoch, phase>>
      /\ \A u \in Thread : localEpoch'[u] = localEpoch[u]
      /\ \A u \in Thread \ {t} : /\ stack'[u] = stack[u] /\ frames'[u] = frames[u]
                                 /\ call'[u] = call[u]
      /\ call'[t].stage = "idle"
      /\ s \notin allocated /\ allocated' = allocated \cup {s}
      /\ data'[s] = data[parent] /\ \A o \in Scope \ {s} : data'[o] = data[o]
  BY <1>1, <1>2, StackTypes DEF PushScope, Construct, lifecycleVars, TypeOK, Idle
<1>4. stack'[t] = Append(stack[t], s)
  BY <1>1, StackTypes DEF PushScope, TypeOK
<1>5. /\ Len(stack'[t]) = top + 1
      /\ DOMAIN stack'[t] = 1..(top + 1)
      /\ stack'[t][top + 1] = s
      /\ \A i \in DOMAIN stack[t] : stack'[t][i] = stack[t][i] /\ i # top + 1
  BY <1>4, StackTypes
<1>6. frames'[t] = Append(frames[t], [kind |-> "with_scope", scope |-> s, parent |-> parent,
                                      epoch |-> localEpoch[t]])
  BY <1>1, <1>2, StackTypes DEF PushScope, TypeOK
<1>7. /\ DOMAIN frames'[t] = 1..(inner + 1)
      /\ frames'[t][inner + 1].kind = "with_scope"
      /\ frames'[t][inner + 1].scope = s
      /\ frames'[t][inner + 1].parent = parent
      /\ frames'[t][inner + 1].epoch = localEpoch[t]
      /\ \A n \in DOMAIN frames[t] : frames'[t][n] = frames[t][n] /\ n # inner + 1
  BY <1>6, StackTypes
<1>. HIDE DEF top, inner, parent
<1>8. /\ DOMAIN stack'[t] = DOMAIN stack[t] \cup {top + 1}
      /\ DOMAIN frames'[t] = DOMAIN frames[t] \cup {inner + 1}
      /\ DOMAIN stack[t] = 1..top /\ top \in Nat /\ top >= 1
      /\ DOMAIN frames[t] = 1..inner /\ inner \in Nat
  BY <1>2, <1>5, <1>7, StackTypes DEF top, inner
<1>9. MainInStep'
  BY <1>3, ConstantsAssumption DEF StackInv, MainInStep
<1>10. \A u \in Thread \ {t} : ThreadInv(u)'
  <2>. SUFFICES ASSUME NEW u \in Thread \ {t} PROVE ThreadInv(u)'
    OBVIOUS
  <2>1. \A i \in DOMAIN stack[u] : stack[u][i] \in Scope \ {s}
    BY <1>3, FreshScope, StackTypes
  <2>. QED BY <1>3, <2>1, OthersKeep
<1>11. ThreadInv(t)'
  <2>1. ThreadInv(t)
    BY DEF StackInv
  <2>2. /\ \A i \in DOMAIN stack[t] : stack[t][i] # s
        /\ \A n \in DOMAIN frames[t] : frames[t][n].scope # s
    BY <1>3, FreshScope
  <2>3. LocalBehind(t)' /\ CaptureIsCurrent(t)'
    BY <1>3, <2>1 DEF ThreadInv, LocalBehind, CaptureIsCurrent
  <2>4. FramesAreOwn(t)'
    BY <1>3, <1>7, <1>8, <2>1, StackTypes DEF ThreadInv, FramesAreOwn, IsFork
  <2>5. FramesDistinct(t)'
    BY <1>7, <1>8, <2>1, <2>2 DEF ThreadInv, FramesDistinct, IsFork
  <2>6. ForksStay(t)'
    BY <1>3, <1>5, <1>7, <1>8, <2>1 DEF ThreadInv, ForksStay, IsFork
  <2>7. ParentBelow(t)'
    <3>. SUFFICES ASSUME NEW n \in DOMAIN frames'[t], NEW i \in DOMAIN stack'[t],
                         i > 1, stack'[t][i] = frames'[t][n].scope
                  PROVE  stack'[t][i - 1] = frames'[t][n].parent
      BY DEF ParentBelow
    <3>1. CASE i = top + 1
      <4>1. n = inner + 1
        BY <1>5, <1>7, <1>8, <2>2, <3>1
      <4>2. i - 1 = top /\ top \in DOMAIN stack[t]
        BY <1>8, <3>1
      <4>3. stack'[t][top] = parent
        BY <1>5, <4>2 DEF parent
      <4>. QED BY <1>7, <4>1, <4>2, <4>3
    <3>2. CASE i # top + 1
      <4>1. i \in DOMAIN stack[t] /\ i - 1 \in DOMAIN stack[t] /\ n \in DOMAIN frames[t]
        BY <1>5, <1>7, <1>8, <2>2, <3>2
      <4>. QED BY <1>5, <1>7, <2>1, <4>1 DEF ThreadInv, ParentBelow
    <3>. QED BY <3>1, <3>2
  <2>8. WritesFromBelow(t)'
    <3>. SUFFICES ASSUME NEW i \in DOMAIN stack'[t], NEW w \in data'[stack'[t][i]]
                  PROVE  \E j \in 1..i : w.to = stack'[t][j]
      BY DEF WritesFromBelow
    <3>. DEFINE k == IF i = top + 1 THEN top ELSE i
    <3>1. k \in DOMAIN stack[t] /\ k <= i /\ k \in Nat
      BY <1>8
    <3>2. w \in data[stack[t][k]]
      <4>1. CASE i = top + 1
        BY <1>3, <1>5, <4>1 DEF parent
      <4>2. CASE i # top + 1
        <5>1. i \in DOMAIN stack[t] /\ k = i
          BY <1>8, <4>2
        <5>2. stack[t][i] \in Scope \ {s} /\ stack'[t][i] = stack[t][i]
          BY <1>5, <2>2, <5>1, StackTypes
        <5>. QED BY <1>3, <5>1, <5>2
      <4>. QED BY <4>1, <4>2
    <3>3. PICK j \in 1..k : w.to = stack[t][j]
      BY <2>1, <3>1, <3>2 DEF ThreadInv, WritesFromBelow
    <3>4. j \in DOMAIN stack[t] /\ j \in 1..i
      BY <1>8, <3>1, <3>3
    <3>. QED BY <1>5, <3>3, <3>4
  <2>9. ForksInOrder(t)'
    <3>1. stack'[t][1] = stack[t][1] /\ 1 \in DOMAIN stack[t]
      BY <1>5, <1>8
    <3>2. ~IsOpenFork(t, stack[t][1])'
      BY <1>1, <1>7, <1>8, <2>1, <2>2, <3>1 DEF ThreadInv, ForksInOrder, IsOpenFork
    <3>3. \A i, j \in DOMAIN stack'[t] : stack'[t][i] = stack'[t][j] => i = j
      BY <1>5, <1>8, <2>1, <2>2 DEF ThreadInv, ForksInOrder
    <3>4. \A i \in 2..Len(stack'[t]) : IsOpenFork(t, stack[t][i])'
      <4>. SUFFICES ASSUME NEW i \in 2..(top + 1)
                    PROVE  \E n \in DOMAIN frames'[t] : frames'[t][n].scope = stack'[t][i]
        BY <1>5 DEF IsOpenFork
      <4>1. CASE i = top + 1
        BY <1>5, <1>7, <1>8, <4>1
      <4>2. CASE i # top + 1
        <5>1. i \in DOMAIN stack[t] /\ i \in 2..Len(stack[t])
          BY <1>8, <4>2 DEF top
        <5>2. IsOpenFork(t, stack[t][i])
          BY <2>1, <5>1 DEF ThreadInv, ForksInOrder
        <5>3. PICK n \in DOMAIN frames[t] : frames[t][n].scope = stack[t][i]
          BY <5>2 DEF IsOpenFork
        <5>4. stack'[t][i] = stack[t][i] /\ n \in DOMAIN frames'[t] /\ frames'[t][n] = frames[t][n]
          BY <1>5, <1>7, <1>8, <5>1
        <5>. QED BY <5>3, <5>4
      <4>. QED BY <4>1, <4>2
    <3>5. ASSUME NEW m \in DOMAIN frames'[t], NEW n \in DOMAIN frames'[t],
                 NEW i \in DOMAIN stack'[t],
                 frames'[t][m].scope = stack'[t][i], m < n, frames'[t][n].kind = "with_scope"
          PROVE  \E j \in (i + 1)..Len(stack'[t]) : frames'[t][n].scope = stack'[t][j]
      <4>1. m \in DOMAIN frames[t]
        BY <1>8, <3>5
      <4>2. i \in DOMAIN stack[t]
        BY <1>5, <1>7, <1>8, <2>2, <3>5, <4>1
      <4>3. CASE n = inner + 1
        BY <1>5, <1>7, <1>8, <4>2, <4>3
      <4>4. CASE n # inner + 1
        <5>1. n \in DOMAIN frames[t]
          BY <1>8, <4>4
        <5>2. PICK j \in (i + 1)..Len(stack[t]) : frames[t][n].scope = stack[t][j]
          <6>1. /\ frames[t][m].scope = stack[t][i] /\ m < n
                /\ frames[t][n].kind = "with_scope"
            BY <1>5, <1>7, <3>5, <4>1, <4>2, <5>1
          <6>. QED BY <2>1, <4>1, <4>2, <5>1, <6>1 DEF ThreadInv, ForksInOrder
        <5>3. j \in DOMAIN stack[t] /\ j \in (i + 1)..Len(stack'[t])
          BY <1>5, <1>8, <4>2, <5>2 DEF top
        <5>. QED BY <1>5, <1>7, <5>1, <5>2, <5>3
      <4>. QED BY <4>3, <4>4
    <3>. QED BY <3>1, <3>2, <3>3, <3>4, <3>5 DEF ForksInOrder, IsOpenFork
  <2>. QED BY <2>3, <2>4, <2>5, <2>6, <2>7, <2>8, <2>9 DEF ThreadInv
<1>. QED BY <1>9, <1>10, <1>11 DEF StackInv

LEMMA WriteKeepsStack ==
    ASSUME StackInv, IsolationInv', NEW t \in Thread, NEW s \in Scope,
           WriteScope(t, s) \/ ClearScope(t, s)
    PROVE  StackInv'
<1>1. /\ UNCHANGED <<epoch, localEpoch, stack, frames, call, allocated, phase>>
      /\ owner[s] = t
      /\ \A o \in Scope \ {s} : data'[o] = data[o]
      /\ \A w \in data'[s] : w \in data[s] \/ w.to = s
  BY StackTypes DEF WriteScope, ClearScope, RecordWrite, lifecycleVars, TypeOK
<1>2. MainInStep'
  BY <1>1 DEF StackInv, MainInStep
<1>3. \A u \in Thread \ {t} : ThreadInv(u)'
  <2>. SUFFICES ASSUME NEW u \in Thread \ {t} PROVE ThreadInv(u)'
    OBVIOUS
  <2>1. \A i \in DOMAIN stack[u] : stack[u][i] \in Scope \ {s}
    BY <1>1, StackTypes DEF StackInv, IsolationInv, StackIsOwn
  <2>. QED BY <1>1, <2>1, OthersKeep
<1>4. ThreadInv(t)'
  <2>1. ThreadInv(t)
    BY DEF StackInv
  <2>2. LocalBehind(t)' /\ CaptureIsCurrent(t)'
    BY <1>1, <2>1 DEF ThreadInv, LocalBehind, CaptureIsCurrent
  <2>3. FramesAreOwn(t)' /\ FramesDistinct(t)' /\ ForksStay(t)' /\ ParentBelow(t)'
    BY <1>1, <2>1 DEF ThreadInv, FramesAreOwn, FramesDistinct, ForksStay, ParentBelow, IsFork
  <2>4. ForksInOrder(t)'
    BY <1>1, <2>1 DEF ThreadInv, ForksInOrder, IsOpenFork
  <2>5. WritesFromBelow(t)'
    <3>. SUFFICES ASSUME NEW i \in DOMAIN stack[t], NEW w \in data'[stack[t][i]]
                  PROVE  \E j \in 1..i : w.to = stack[t][j]
      BY <1>1 DEF WritesFromBelow
    <3>1. stack[t][i] \in Scope /\ i \in 1..i
      BY StackTypes
    <3>2. w \in data[stack[t][i]] \/ w.to = stack[t][i]
      BY <1>1, <3>1
    <3>. QED BY <2>1, <3>1, <3>2 DEF ThreadInv, WritesFromBelow
  <2>. QED BY <2>2, <2>3, <2>4, <2>5 DEF ThreadInv
<1>. QED BY <1>2, <1>3, <1>4 DEF StackInv

(* The end of a callable takes its fork off the end of the list, or finds  *)
(* it gone.                                                                *)
LEMMA PopScopeStack ==
    ASSUME StackInv, NEW t \in Thread, PopScope(t)
    PROVE  /\ frames[t] # <<>> /\ frames'[t] = Front(frames[t])
           /\ \/ /\ stack'[t] = stack[t]
                 /\ \A i \in DOMAIN stack[t] : stack[t][i] # Last(frames[t]).scope
              \/ /\ Len(stack[t]) > 1
                 /\ stack[t][Len(stack[t])] = Last(frames[t]).scope
                 /\ stack'[t] = Front(stack[t])
<1>. DEFINE fork == Last(frames[t]).scope
<1>1. /\ frames[t] # <<>> /\ frames'[t] = Front(frames[t])
      /\ stack'[t] = RemoveFirst(stack[t], fork)
  BY StackTypes DEF PopScope, ReturnFromCallable, TypeOK
<1>. HIDE DEF fork
<1>2. CASE \A i \in DOMAIN stack[t] : stack[t][i] # fork
  <2>1. RemoveFirst(stack[t], fork) = stack[t]
    BY <1>2, RemoveFirstAbsent, StackTypes
  <2>. QED BY <1>1, <1>2, <2>1 DEF fork
<1>3. CASE \E i \in DOMAIN stack[t] : stack[t][i] = fork
  <2>1. Len(stack[t]) \in DOMAIN stack[t] /\ Len(stack[t]) > 1 /\ stack[t][Len(stack[t])] = fork
    BY <1>1, <1>3, InnermostForkLast DEF fork
  <2>2. \A i \in DOMAIN stack[t] : stack[t][i] = stack[t][Len(stack[t])] => i = Len(stack[t])
    BY <2>1, StackTypes DEF ThreadInv, ForksInOrder
  <2>3. stack[t] # <<>>
    BY <2>1, EmptySeq
  <2>4. RemoveFirst(stack[t], stack[t][Len(stack[t])]) = Front(stack[t])
    BY <2>2, <2>3, RemoveFirstLast, StackTypes
  <2>. QED BY <1>1, <2>1, <2>4 DEF fork
<1>. QED BY <1>2, <1>3

LEMMA FrontOf ==
    ASSUME NEW S, NEW q \in Seq(S), q # <<>>
    PROVE  /\ DOMAIN Front(q) = 1..(Len(q) - 1)
           /\ Len(Front(q)) = Len(q) - 1
           /\ \A i \in 1..(Len(q) - 1) : Front(q)[i] = q[i] /\ i \in DOMAIN q
<1>1. Len(q) \in Nat /\ Len(q) >= 1 /\ DOMAIN q = 1..Len(q)
  BY EmptySeq
<1>2. Front(q) = [i \in 1..(Len(q) - 1) |-> q[i]]
  BY <1>1 DEF Front
<1>. QED BY <1>1, <1>2

LEMMA PopScopeKeepsStack ==
    ASSUME StackInv, IsolationInv', NEW t \in Thread, PopScope(t)
    PROVE  StackInv'
<1>. DEFINE top == Len(stack[t])
            inner == Len(frames[t])
<1>1. /\ UNCHANGED <<epoch, localEpoch, call, allocated, data, phase>>
      /\ \A u \in Thread \ {t} : stack'[u] = stack[u] /\ frames'[u] = frames[u]
      /\ call[t].stage = "idle"
  BY StackTypes DEF PopScope, ReturnFromCallable, heapVars, lifecycleVars, TypeOK, Free
<1>2. /\ inner \in DOMAIN frames[t] /\ Last(frames[t]) = frames[t][inner]
      /\ DOMAIN frames'[t] = 1..(inner - 1)
      /\ \A n \in DOMAIN frames'[t] : frames'[t][n] = frames[t][n] /\ n \in DOMAIN frames[t]
  <2>1. frames[t] \in Seq(Frame) /\ frames[t] # <<>> /\ frames'[t] = Front(frames[t])
    BY PopScopeStack, StackTypes
  <2>. QED BY <2>1, LastFrontType, FrontOf DEF Last
<1>3. \E k \in {top - 1, top} :
        /\ Len(stack'[t]) = k /\ DOMAIN stack'[t] = 1..k
        /\ \A i \in 1..k : stack'[t][i] = stack[t][i] /\ i \in DOMAIN stack[t]
        /\ k < top => stack[t][top] = frames[t][inner].scope /\ k > 0
        /\ k = top => \A i \in DOMAIN stack[t] : stack[t][i] # frames[t][inner].scope
  <2>1. CASE stack'[t] = stack[t] /\ \A i \in DOMAIN stack[t] : stack[t][i] # Last(frames[t]).scope
    BY <1>2, <2>1, StackTypes
  <2>2. CASE top > 1 /\ stack[t][top] = Last(frames[t]).scope /\ stack'[t] = Front(stack[t])
    <3>1. stack[t] # <<>>
      BY <2>2, EmptySeq
    <3>2. /\ DOMAIN stack'[t] = 1..(top - 1) /\ Len(stack'[t]) = top - 1
          /\ \A i \in 1..(top - 1) : stack'[t][i] = stack[t][i] /\ i \in DOMAIN stack[t]
      BY <2>2, <3>1, FrontOf, StackTypes
    <3>. QED BY <1>2, <2>2, <3>2, StackTypes
  <2>. QED BY <2>1, <2>2, PopScopeStack
<1>4. PICK k \in {top - 1, top} :
        /\ Len(stack'[t]) = k /\ DOMAIN stack'[t] = 1..k
        /\ \A i \in 1..k : stack'[t][i] = stack[t][i] /\ i \in DOMAIN stack[t]
        /\ k < top => stack[t][top] = frames[t][inner].scope /\ k > 0
        /\ k = top => \A i \in DOMAIN stack[t] : stack[t][i] # frames[t][inner].scope
  BY <1>3
<1>. top \in Nat /\ inner \in Nat /\ DOMAIN stack[t] = 1..top /\ DOMAIN frames[t] = 1..inner
  BY StackTypes
<1>5. ThreadInv(t)
  BY DEF StackInv
<1>. HIDE DEF top, inner
<1>6. MainInStep'
  BY <1>1 DEF StackInv, MainInStep
<1>7. \A u \in Thread \ {t} : ThreadInv(u)'
  BY <1>1, OthersKeep
<1>8. ThreadInv(t)'
  <2>1. LocalBehind(t)' /\ CaptureIsCurrent(t)'
    BY <1>1, <1>5 DEF ThreadInv, LocalBehind, CaptureIsCurrent
  <2>2. FramesAreOwn(t)' /\ FramesDistinct(t)'
    BY <1>1, <1>2, <1>5 DEF ThreadInv, FramesAreOwn, FramesDistinct, IsFork
  <2>3. ForksStay(t)'
    <3>. SUFFICES ASSUME NEW n \in DOMAIN frames'[t], frames[t][n].kind = "with_scope",
                         frames[t][n].epoch = localEpoch[t],
                         t # MainThread \/ localEpoch[t] = epoch
                  PROVE  \E i \in DOMAIN stack'[t] : stack'[t][i] = frames[t][n].scope
      BY <1>1, <1>2 DEF ForksStay, IsFork
    <3>1. PICK i \in DOMAIN stack[t] : stack[t][i] = frames[t][n].scope
      BY <1>2, <1>5 DEF ThreadInv, ForksStay, IsFork
    <3>2. frames[t][n].scope # frames[t][inner].scope
      BY <1>2, <1>5 DEF ThreadInv, FramesDistinct, IsFork
    <3>3. i \in 1..k
      BY <1>4, <3>1, <3>2
    <3>. QED BY <1>4, <3>1, <3>3
  <2>4. ParentBelow(t)'
    <3>. SUFFICES ASSUME NEW n \in DOMAIN frames'[t], NEW i \in DOMAIN stack'[t],
                         i > 1, stack'[t][i] = frames'[t][n].scope
                  PROVE  stack'[t][i - 1] = frames'[t][n].parent
      BY DEF ParentBelow
    <3>1. /\ stack'[t][i] = stack[t][i] /\ stack'[t][i - 1] = stack[t][i - 1]
          /\ i \in DOMAIN stack[t]
      BY <1>4
    <3>. QED BY <1>2, <1>5, <3>1 DEF ThreadInv, ParentBelow
  <2>5. WritesFromBelow(t)'
    <3>. SUFFICES ASSUME NEW i \in 1..k, NEW w \in data[stack[t][i]]
                  PROVE  \E j \in 1..i : w.to = stack'[t][j]
      BY <1>1, <1>4 DEF WritesFromBelow
    <3>1. PICK j \in 1..i : w.to = stack[t][j]
      BY <1>4, <1>5 DEF ThreadInv, WritesFromBelow
    <3>2. j \in 1..k
      BY <1>4
    <3>. QED BY <1>4, <3>1, <3>2
  <2>6. ForksInOrder(t)'
    <3>1. stack'[t] # <<>> => ~IsOpenFork(t, stack[t][1])'
      <4>. SUFFICES ASSUME stack'[t] # <<>> PROVE ~IsOpenFork(t, stack[t][1])'
        OBVIOUS
      <4>1. 1 \in 1..k
        BY <1>4 DEF top
      <4>2. stack'[t][1] = stack[t][1] /\ ~IsOpenFork(t, stack[t][1])
        BY <1>4, <1>5, <4>1, EmptySeq DEF ThreadInv, ForksInOrder
      <4>. QED BY <1>2, <4>2 DEF IsOpenFork
    <3>2. \A i, j \in DOMAIN stack'[t] : stack'[t][i] = stack'[t][j] => i = j
      BY <1>4, <1>5 DEF ThreadInv, ForksInOrder
    <3>3. ASSUME NEW i \in 2..Len(stack'[t])
          PROVE  \E n \in DOMAIN frames'[t] : frames'[t][n].scope = stack'[t][i]
      <4>1. i \in 1..k /\ i \in 2..Len(stack[t]) /\ i \in DOMAIN stack[t]
        BY <1>4 DEF top
      <4>2. PICK n \in DOMAIN frames[t] : frames[t][n].scope = stack[t][i]
        BY <1>5, <4>1 DEF ThreadInv, ForksInOrder, IsOpenFork
      <4>3. stack[t][i] # frames[t][inner].scope
        <5>1. CASE k = top
          BY <1>4, <4>1, <5>1
        <5>2. CASE k # top
          <6>1. i # top /\ stack[t][top] = frames[t][inner].scope /\ top \in DOMAIN stack[t]
            BY <1>4, <4>1, <5>2
          <6>2. stack[t][i] # stack[t][top]
            BY <1>5, <4>1, <6>1 DEF ThreadInv, ForksInOrder
          <6>. QED BY <6>1, <6>2
        <5>. QED BY <5>1, <5>2
      <4>4. n # inner
        BY <4>2, <4>3
      <4>5. n \in DOMAIN frames'[t] /\ frames'[t][n] = frames[t][n]
        BY <1>2, <4>4
      <4>. QED BY <1>4, <4>1, <4>2, <4>5
    <3>4. ASSUME NEW m \in DOMAIN frames'[t], NEW n \in DOMAIN frames'[t],
                 NEW i \in DOMAIN stack'[t],
                 frames'[t][m].scope = stack'[t][i], m < n, frames'[t][n].kind = "with_scope"
          PROVE  \E j \in (i + 1)..Len(stack'[t]) : frames'[t][n].scope = stack'[t][j]
      <4>1. /\ frames'[t][m] = frames[t][m] /\ frames'[t][n] = frames[t][n]
            /\ m \in DOMAIN frames[t] /\ n \in DOMAIN frames[t] /\ n # inner
            /\ stack'[t][i] = stack[t][i] /\ i \in DOMAIN stack[t] /\ i \in 1..k
        BY <1>2, <1>4
      <4>2. PICK j \in (i + 1)..Len(stack[t]) : frames[t][n].scope = stack[t][j]
        BY <1>5, <3>4, <4>1 DEF ThreadInv, ForksInOrder
      <4>3. frames[t][n].scope # frames[t][inner].scope
        BY <1>2, <1>5, <3>4, <4>1 DEF ThreadInv, FramesDistinct, IsFork
      <4>4. j \in DOMAIN stack[t] /\ j \in 1..top
        BY <4>1, <4>2 DEF top
      <4>5. j \in 1..k
        BY <1>4, <4>2, <4>3, <4>4
      <4>6. j \in (i + 1)..Len(stack'[t]) /\ stack'[t][j] = stack[t][j]
        BY <1>4, <4>1, <4>2, <4>5
      <4>. QED BY <4>1, <4>2, <4>6
    <3>. QED
      <4>1. \A i \in 2..Len(stack'[t]) : IsOpenFork(t, stack[t][i])'
        BY <3>3 DEF IsOpenFork
      <4>. QED BY <3>1, <3>2, <3>4, <4>1 DEF ForksInOrder
  <2>. QED BY <2>1, <2>2, <2>3, <2>4, <2>5, <2>6 DEF ThreadInv
<1>. QED BY <1>6, <1>7, <1>8 DEF StackInv

(* _invalidate_scopes(), which init() and close() call: the main thread is *)
(* in no other call, and its list goes.                                    *)
LEMMA InvalidateKeepsStack ==
    ASSUME StackInv, IsolationInv', InvalidateScopes, call[MainThread].stage = "idle",
           \A u \in Thread \ {MainThread} : frames'[u] = frames[u],
           \E k \in 0..Len(frames[MainThread]) :
              /\ DOMAIN frames'[MainThread] = 1..k
              /\ \A n \in 1..k : frames'[MainThread][n] = frames[MainThread][n],
           UNCHANGED <<localEpoch, call, allocated, data>>
    PROVE  StackInv'
<1>1. /\ epoch' = epoch + 1 /\ stack'[MainThread] = <<>>
      /\ \A u \in Thread \ {MainThread} : stack'[u] = stack[u]
  BY StackTypes, ConstantsAssumption DEF InvalidateScopes, TypeOK
<1>2. MainInStep'
  BY DEF MainInStep
<1>3. ASSUME NEW u \in Thread \ {MainThread} PROVE ThreadInv(u)'
  <2>1. ThreadInv(u) /\ stack'[u] = stack[u] /\ frames'[u] = frames[u]
    BY <1>1 DEF StackInv
  <2>2. LocalBehind(u)' /\ CaptureIsCurrent(u)'
    BY <1>1, <2>1, StackTypes DEF ThreadInv, LocalBehind, CaptureIsCurrent
  <2>3. FramesAreOwn(u)' /\ FramesDistinct(u)'
    BY <2>1 DEF ThreadInv, FramesAreOwn, FramesDistinct, IsFork
  <2>4. ForksStay(u)' /\ ParentBelow(u)'
    BY <2>1 DEF ThreadInv, ForksStay, ParentBelow, IsFork
  <2>5. WritesFromBelow(u)'
    BY <2>1 DEF ThreadInv, WritesFromBelow
  <2>6. ForksInOrder(u)'
    BY <2>1 DEF ThreadInv, ForksInOrder, IsOpenFork
  <2>. QED BY <2>2, <2>3, <2>4, <2>5, <2>6 DEF ThreadInv
<1>4. ThreadInv(MainThread)'
  <2>. DEFINE t == MainThread
  <2>1. ThreadInv(t) /\ t \in Thread /\ stack'[t] = <<>>
    BY <1>1, ConstantsAssumption DEF StackInv
  <2>2. PICK k \in 0..Len(frames[t]) :
          DOMAIN frames'[t] = 1..k /\ \A n \in 1..k : frames'[t][n] = frames[t][n]
    OBVIOUS
  <2>3. \A n \in DOMAIN frames'[t] : frames'[t][n] = frames[t][n] /\ n \in DOMAIN frames[t]
    BY <2>1, <2>2, StackTypes
  <2>. HIDE DEF t
  <2>4. LocalBehind(t)' /\ CaptureIsCurrent(t)'
    <3>1. localEpoch[t] <= epoch + 1 /\ call'[t].stage = "idle"
      BY <2>1, StackTypes DEF ThreadInv, LocalBehind, t
    <3>. QED BY <1>1, <3>1 DEF LocalBehind, CaptureIsCurrent
  <2>5. FramesAreOwn(t)' /\ FramesDistinct(t)'
    BY <2>1, <2>3 DEF ThreadInv, FramesAreOwn, FramesDistinct, IsFork
  <2>6. ForksStay(t)'
    <3>1. t = MainThread /\ localEpoch'[t] # epoch'
      BY <1>1, <2>1, StackTypes DEF ThreadInv, LocalBehind, t
    <3>. QED BY <3>1 DEF ForksStay
  <2>7. ParentBelow(t)' /\ WritesFromBelow(t)' /\ ForksInOrder(t)'
    BY <2>1 DEF ParentBelow, WritesFromBelow, ForksInOrder
  <2>8. ThreadInv(t)'
    BY <2>4, <2>5, <2>6, <2>7 DEF ThreadInv
  <2>. QED BY <2>8 DEF t
<1>. QED BY <1>2, <1>3, <1>4 DEF StackInv

LEMMA InitBeginKeepsStack ==
    ASSUME StackInv, IsolationInv', InitBegin
    PROVE  StackInv'
<1>. DEFINE t == MainThread
            inner == Len(frames[t])
<1>1. /\ UNCHANGED <<epoch, localEpoch, stack, call, allocated, data, phase>>
      /\ t \in Thread /\ call[t].stage = "idle"
      /\ \A u \in Thread \ {t} : frames'[u] = frames[u]
      /\ frames'[t] = Append(frames[t], InitFrame)
  BY StackTypes, ConstantsAssumption DEF InitBegin, heapVars, lifecycleVars, TypeOK, Free
<1>2. /\ DOMAIN frames[t] = 1..inner /\ inner \in Nat
      /\ DOMAIN frames'[t] = DOMAIN frames[t] \cup {inner + 1}
      /\ frames'[t][inner + 1].kind = "init"
      /\ frames'[t][inner + 1].scope = NoScope
      /\ \A n \in DOMAIN frames[t] : frames'[t][n] = frames[t][n] /\ n # inner + 1
  BY <1>1, StackTypes DEF InitFrame
<1>3. \A i \in DOMAIN stack[t] : stack[t][i] # NoScope
  BY <1>1, StackTypes, ConstantsAssumption
<1>4. ThreadInv(t)
  BY <1>1 DEF StackInv
<1>5. MainInStep'
  BY <1>1 DEF MainInStep
<1>. HIDE DEF t, inner
<1>6. \A u \in Thread \ {t} : ThreadInv(u)'
  BY <1>1, OthersKeep
<1>7. ThreadInv(t)'
  <2>1. LocalBehind(t)' /\ CaptureIsCurrent(t)' /\ WritesFromBelow(t)'
    BY <1>1, <1>4 DEF ThreadInv, LocalBehind, CaptureIsCurrent, WritesFromBelow
  <2>2. FramesAreOwn(t)'
    BY <1>1, <1>2, <1>4 DEF ThreadInv, FramesAreOwn, IsFork
  <2>3. FramesDistinct(t)'
    <3>1. \A n \in DOMAIN frames[t] : IsFork(t, n) => frames[t][n].scope \in Scope
      BY <1>1, <1>4, StackTypes DEF ThreadInv, FramesAreOwn, TypeOK
    <3>. QED BY <1>2, <1>4, <3>1, ConstantsAssumption DEF ThreadInv, FramesDistinct, IsFork
  <2>4. ForksStay(t)'
    BY <1>1, <1>2, <1>4 DEF ThreadInv, ForksStay, IsFork
  <2>5. ParentBelow(t)'
    BY <1>1, <1>2, <1>3, <1>4 DEF ThreadInv, ParentBelow
  <2>6. ForksInOrder(t)'
    <3>1. stack[t] # <<>> => ~IsOpenFork(t, stack[t][1])'
      <4>. SUFFICES ASSUME stack[t] # <<>> PROVE ~IsOpenFork(t, stack[t][1])'
        OBVIOUS
      <4>1. 1 \in DOMAIN stack[t]
        BY <1>1, StackTypes, EmptySeq
      <4>. QED BY <1>1, <1>2, <1>3, <1>4, <4>1 DEF ThreadInv, ForksInOrder, IsOpenFork
    <3>2. \A i \in 2..Len(stack[t]) : IsOpenFork(t, stack[t][i])'
      BY <1>1, <1>2, <1>4 DEF ThreadInv, ForksInOrder, IsOpenFork
    <3>3. ASSUME NEW m \in DOMAIN frames'[t], NEW n \in DOMAIN frames'[t],
                 NEW i \in DOMAIN stack[t],
                 frames'[t][m].scope = stack[t][i], m < n, frames'[t][n].kind = "with_scope"
          PROVE  \E j \in (i + 1)..Len(stack[t]) : frames'[t][n].scope = stack[t][j]
      <4>1. m \in DOMAIN frames[t] /\ n \in DOMAIN frames[t]
        BY <1>2, <1>3, <3>3
      <4>. QED BY <1>2, <1>4, <3>3, <4>1 DEF ThreadInv, ForksInOrder
    <3>4. \A i, j \in DOMAIN stack[t] : stack[t][i] = stack[t][j] => i = j
      BY <1>4 DEF ThreadInv, ForksInOrder
    <3>. QED BY <1>1, <3>1, <3>2, <3>3, <3>4 DEF ForksInOrder
  <2>. QED BY <2>1, <2>2, <2>3, <2>4, <2>5, <2>6 DEF ThreadInv
<1>. QED BY <1>5, <1>6, <1>7 DEF StackInv

LEMMA StackNext ==
    ASSUME StackInv, [Next]_vars
    PROVE  StackInv'
<1>. IsolationInv'
  BY IsolationNext DEF StackInv
<1>1. ASSUME NEW t \in Thread, Submit(t)
      PROVE  StackInv'
  <2>1. /\ UNCHANGED <<epoch, localEpoch, stack, frames, allocated, data, phase>>
        /\ \A u \in Thread \ {t} : call'[u] = call[u]
        /\ call'[t].stage = "idle"
    BY <1>1, StackTypes DEF Submit, heapVars, lifecycleVars, Idle, TypeOK
  <2>2. MainInStep'
    BY <2>1, ConstantsAssumption DEF StackInv, MainInStep
  <2>3. \A u \in Thread \ {t} : ThreadInv(u)'
    BY <2>1, OthersKeep
  <2>4. ThreadInv(t)'
    <3>1. ThreadInv(t)
      BY DEF StackInv
    <3>2. LocalBehind(t)' /\ CaptureIsCurrent(t)'
      BY <2>1, <3>1 DEF ThreadInv, LocalBehind, CaptureIsCurrent
    <3>3. FramesAreOwn(t)' /\ FramesDistinct(t)' /\ ForksStay(t)' /\ ParentBelow(t)'
      BY <2>1, <3>1 DEF ThreadInv, FramesAreOwn, FramesDistinct, ForksStay, ParentBelow, IsFork
    <3>4. WritesFromBelow(t)'
      BY <2>1, <3>1 DEF ThreadInv, WritesFromBelow
    <3>5. ForksInOrder(t)'
      BY <2>1, <3>1 DEF ThreadInv, ForksInOrder, IsOpenFork
    <3>. QED BY <3>2, <3>3, <3>4, <3>5 DEF ThreadInv
  <2>. QED BY <2>2, <2>3, <2>4 DEF StackInv
<1>2. ASSUME NEW s \in Scope, DestroyScope(s)
      PROVE  StackInv'
  <2>1. /\ UNCHANGED <<epoch, localEpoch, stack, frames, call, phase>>
        /\ allocated' = allocated \ {s}
        /\ \A o \in Scope \ {s} : data'[o] = data[o]
    BY <1>2, StackTypes DEF DestroyScope, lifecycleVars, TypeOK
  <2>2. \A u \in Thread : /\ \A i \in DOMAIN stack[u] : stack[u][i] \in Scope \ {s}
                          /\ \A n \in DOMAIN frames[u] : frames[u][n].scope # s
    BY <1>2, StackTypes DEF DestroyScope, Referenced, Contains
  <2>3. MainInStep'
    BY <2>1 DEF StackInv, MainInStep
  <2>4. \A u \in Thread : ThreadInv(u)'
    BY <2>1, <2>2, OthersKeep
  <2>. QED BY <2>3, <2>4 DEF StackInv
<1>3. ASSUME InitInvalidate
      PROVE  StackInv'
  <2>1. /\ InvalidateScopes /\ call[MainThread].stage = "idle" /\ MainThread \in Thread
        /\ UNCHANGED <<localEpoch, call, allocated, data>>
        /\ \A u \in Thread \ {MainThread} : frames'[u] = frames[u]
        /\ frames[MainThread] # <<>> /\ frames'[MainThread] = Front(frames[MainThread])
    BY <1>3, StackTypes, ConstantsAssumption DEF InitInvalidate, heapVars, Free, TypeOK
  <2>2. frames[MainThread] \in Seq(Frame) /\ Len(frames[MainThread]) \in Nat
        /\ Len(frames[MainThread]) >= 1
    BY <2>1, StackTypes, EmptySeq
  <2>3. /\ Len(frames[MainThread]) - 1 \in 0..Len(frames[MainThread])
        /\ DOMAIN frames'[MainThread] = 1..(Len(frames[MainThread]) - 1)
        /\ \A n \in 1..(Len(frames[MainThread]) - 1) :
             frames'[MainThread][n] = frames[MainThread][n]
    BY <2>1, <2>2, FrontOf
  <2>. QED BY <2>1, <2>3, InvalidateKeepsStack
<1>4. ASSUME CloseInvalidate
      PROVE  StackInv'
  <2>1. /\ InvalidateScopes /\ MainThread \in Thread
        /\ UNCHANGED <<localEpoch, call, allocated, data, frames>>
    BY <1>4, ConstantsAssumption DEF CloseInvalidate, heapVars
  <2>2. call[MainThread].stage = "idle"
    BY <1>4 DEF CloseInvalidate, StackInv, MainInStep
  <2>3. /\ Len(frames[MainThread]) \in 0..Len(frames[MainThread])
        /\ DOMAIN frames[MainThread] = 1..Len(frames[MainThread])
    BY <2>1, StackTypes
  <2>. QED BY <2>1, <2>2, <2>3, InvalidateKeepsStack
<1>5. ASSUME UNCHANGED <<epoch, localEpoch, stack, allocated, data, frames, call>>,
             MainInStep'
      PROVE  StackInv'
  BY <1>5, OthersKeep DEF StackInv
<1>6. ASSUME NEW ok \in BOOLEAN, InitBackend(ok)
      PROVE  StackInv'
  <2>1. MainInStep'
    BY <1>6 DEF InitBackend, StackInv, MainInStep
  <2>. QED BY <1>5, <1>6, <2>1 DEF InitBackend, heapVars
<1>7. ASSUME CloseBackend
      PROVE  StackInv'
  <2>1. MainInStep'
    BY <1>7 DEF CloseBackend, Free, MainInStep
  <2>. QED BY <1>5, <1>7, <2>1 DEF CloseBackend, heapVars
<1>8. CASE UNCHANGED vars
  <2>1. MainInStep'
    BY <1>8 DEF vars, lifecycleVars, StackInv, MainInStep
  <2>. QED BY <1>5, <1>8, <2>1 DEF vars, heapVars
<1>. QED
  BY <1>1, <1>2, <1>3, <1>4, <1>6, <1>7, <1>8, ReadEpochKeepsStack,
     ResolveExistingKeepsStack, ResolveRootKeepsStack, PushScopeKeepsStack,
     WriteKeepsStack, PopScopeKeepsStack, InitBeginKeepsStack
  DEF Next, ScopeStep, LifecycleStep

(* The invariant gives the state properties.                               *)
LEMMA StackSuffices == StackInv => StackFollowsCalls /\ ForkDataConfined
<1>. SUFFICES ASSUME StackInv PROVE StackFollowsCalls /\ ForkDataConfined
  OBVIOUS
<1>1. ForkDataConfined
  <2>. SUFFICES ASSUME NEW t \in Thread, call[t].stage = "resolved",
                       NEW w \in data[call[t].scope]
                PROVE  w.to = stack[t][1] \/ IsOpenFork(t, w.to)
    BY DEF ForkDataConfined
  <2>. DEFINE top == Len(stack[t])
  <2>1. top \in DOMAIN stack[t] /\ call[t].scope = stack[t][top]
    BY StackTypes, LastFrontType DEF ThreadInv, CaptureIsCurrent, Last
  <2>2. PICK j \in 1..top : w.to = stack[t][j]
    BY <2>1, StackTypes DEF ThreadInv, WritesFromBelow
  <2>3. j = 1 \/ j \in 2..Len(stack[t])
    BY <2>1, StackTypes
  <2>. QED BY <2>2, <2>3, StackTypes DEF ThreadInv, ForksInOrder
<1>2. ForkIsCurrent
  <2>. SUFFICES ASSUME NEW t \in Thread, frames[t] # <<>>,
                       Last(frames[t]).kind = "with_scope", Last(frames[t]).epoch = epoch
                PROVE  stack[t] # <<>> /\ Last(stack[t]) = Last(frames[t]).scope
    BY DEF ForkIsCurrent
  <2>. DEFINE inner == Len(frames[t])
  <2>1. inner \in DOMAIN frames[t] /\ Last(frames[t]) = frames[t][inner]
    BY StackTypes, LastFrontType DEF Last
  <2>2. localEpoch[t] = epoch
    <3>1. epoch <= localEpoch[t] /\ localEpoch[t] <= epoch
      BY <2>1, StackTypes DEF ThreadInv, FramesAreOwn, LocalBehind, IsFork
    <3>. QED BY <3>1, StackTypes
  <2>3. PICK i \in DOMAIN stack[t] : stack[t][i] = frames[t][inner].scope
    BY <2>1, <2>2, StackTypes DEF ThreadInv, ForksStay, IsFork
  <2>4. i = Len(stack[t]) /\ i > 1
    BY <2>1, <2>3, InnermostForkLast
  <2>. QED BY <2>1, <2>3, <2>4, EmptySeq DEF Last
<1>3. \A t \in Thread : ForksInOrder(t)
  BY DEF StackInv, ThreadInv
<1>. QED BY <1>1, <1>2, <1>3 DEF StackFollowsCalls

(* Every list holds a root and the forks of the innermost running calls,   *)
(* whatever the callables did to the SDK.                                  *)
THEOREM StacksFollowCalls == Spec => []StackFollowsCalls
<1>1. Init => StackInv                    BY StackInit
<1>2. StackInv /\ [Next]_vars => StackInv' BY StackNext
<1>3. StackInv => StackFollowsCalls       BY StackSuffices
<1>. QED BY <1>1, <1>2, <1>3, PTL DEF Spec

(* What a capture carries was written to the root of its thread or to a    *)
(* fork whose callable still runs.                                         *)
THEOREM ForksAreConfined == Spec => []ForkDataConfined
<1>1. Init => StackInv                    BY StackInit
<1>2. StackInv /\ [Next]_vars => StackInv' BY StackNext
<1>3. StackInv => ForkDataConfined        BY StackSuffices
<1>. QED BY <1>1, <1>2, <1>3, PTL DEF Spec

(* The same invariant carries the action property.  Only the innermost     *)
(* call can end, its fork is the last of the list when the epoch is the    *)
(* one it began under, and the scope below it is the one it was cloned     *)
(* from.                                                                   *)
LEMMA StackSteps ==
    ASSUME StackInv, [Next]_vars
    PROVE  KeepsRoot /\ RestoresParent
<1>1. ASSUME NEW t \in Thread, stack'[t] = stack[t], frames'[t] = frames[t]
      PROVE  /\ stack[t] # <<>> => stack'[t] # <<>> /\ Head(stack'[t]) = Head(stack[t])
             /\ ~(Len(frames'[t]) < Len(frames[t]))
  BY <1>1, StackTypes
<1>. DEFINE RootKept(t) == (stack[t] # <<>> /\ localEpoch[t] = epoch')
                              => stack'[t] # <<>> /\ Head(stack'[t]) = Head(stack[t])
            ParentBack(t) == Len(frames'[t]) < Len(frames[t]) =>
                               LET f == Last(frames[t]) IN
                               (f.kind = "with_scope" /\ f.epoch = epoch)
                                   => stack'[t] # <<>> /\ Last(stack'[t]) = f.parent
<1>2. SUFFICES ASSUME NEW u \in Thread PROVE RootKept(u) /\ ParentBack(u)
  BY DEF KeepsRoot, RestoresParent
<1>3. ASSUME stack'[u] = stack[u], frames'[u] = frames[u]
      PROVE  RootKept(u) /\ ParentBack(u)
  BY <1>1, <1>3
<1>4. ASSUME NEW t \in Thread, (\E op \in Operation : ReadEpoch(t, op)) \/ Submit(t)
      PROVE  RootKept(u) /\ ParentBack(u)
  BY <1>3, <1>4 DEF ReadEpoch, Submit
<1>5. ASSUME NEW t \in Thread, ResolveExisting(t)
      PROVE  RootKept(u) /\ ParentBack(u)
  <2>1. stack'[u] = stack[u] /\ frames' = frames
    BY <1>5, SyncedStackSame, StackTypes DEF ResolveExisting, TypeOK
  <2>. QED BY <1>3, <2>1
<1>6. ASSUME NEW t \in Thread, NEW s \in Scope, ResolveRoot(t, s)
      PROVE  RootKept(u) /\ ParentBack(u)
  <2>1. frames' = frames /\ epoch' = epoch /\ (u # t => stack'[u] = stack[u])
    BY <1>6, StackTypes DEF ResolveRoot, TypeOK
  <2>2. CASE u # t
    BY <1>3, <2>1, <2>2
  <2>3. CASE u = t
    <3>1. localEpoch[t] <= call[t].epoch /\ call[t].epoch <= epoch
      BY <1>6, StackTypes DEF ResolveRoot, ThreadInv, LocalBehind, StackInv, IsolationInv, CallsBehind
    <3>2. stack[t] = <<>> \/ localEpoch[t] # epoch
      BY <1>6, <3>1, StackTypes DEF ResolveRoot, SyncedStack
    <3>3. ~(Len(frames'[t]) < Len(frames[t]))
      BY <2>1, StackTypes
    <3>. QED BY <2>1, <2>3, <3>2, <3>3
  <2>. QED BY <2>2, <2>3
<1>7. ASSUME NEW t \in Thread, NEW s \in Scope, PushScope(t, s)
      PROVE  RootKept(u) /\ ParentBack(u)
  <2>1. u # t => stack'[u] = stack[u] /\ frames'[u] = frames[u]
    BY <1>7, StackTypes DEF PushScope, TypeOK
  <2>2. CASE u # t
    BY <1>3, <2>1, <2>2
  <2>3. CASE u = t
    <3>1. SyncedStack(t) = stack[t] /\ stack[t] # <<>>
      BY <1>7, SyncedStackSame DEF PushScope
    <3>2. stack'[t] = Append(stack[t], s)
      BY <1>7, <3>1, StackTypes DEF PushScope, TypeOK
    <3>3. stack'[t] # <<>> /\ Head(stack'[t]) = Head(stack[t])
      <4>1. stack[t] \in Seq(Scope) /\ Len(stack[t]) > 0
        BY <3>1, StackTypes
      <4>2. Len(stack'[t]) = Len(stack[t]) + 1 /\ stack'[t][1] = stack[t][1]
        BY <3>2, <4>1
      <4>. QED BY <3>2, <4>1, <4>2
    <3>4. Len(frames'[t]) = Len(frames[t]) + 1
      BY <1>7, StackTypes DEF PushScope, TypeOK
    <3>. QED BY <2>3, <3>3, <3>4, StackTypes
  <2>. QED BY <2>2, <2>3
<1>8. ASSUME NEW t \in Thread, NEW s \in Scope, WriteScope(t, s) \/ ClearScope(t, s)
      PROVE  RootKept(u) /\ ParentBack(u)
  BY <1>3, <1>8 DEF WriteScope, ClearScope, RecordWrite
<1>9. ASSUME NEW t \in Thread, PopScope(t)
      PROVE  RootKept(u) /\ ParentBack(u)
  <2>1. u # t => stack'[u] = stack[u] /\ frames'[u] = frames[u]
    BY <1>9, StackTypes DEF PopScope, ReturnFromCallable, TypeOK
  <2>2. CASE u # t
    BY <1>3, <2>1, <2>2
  <2>3. CASE u = t
    <3>. DEFINE top == Len(stack[t])
                inner == Len(frames[t])
                f == Last(frames[t])
    <3>1. inner \in DOMAIN frames[t] /\ f = frames[t][inner]
      BY <1>9, PopScopeStack, LastFrontType, StackTypes DEF Last
    <3>2. CASE /\ stack'[t] = stack[t]
               /\ \A i \in DOMAIN stack[t] : stack[t][i] # Last(frames[t]).scope
      <4>1. ASSUME f.kind = "with_scope", f.epoch = epoch PROVE FALSE
        <5>1. localEpoch[t] = epoch
          <6>1. epoch <= localEpoch[t] /\ localEpoch[t] <= epoch
            BY <3>1, <4>1, StackTypes DEF ThreadInv, FramesAreOwn, LocalBehind, IsFork
          <6>. QED BY <6>1, StackTypes
        <5>. QED BY <3>1, <3>2, <4>1, <5>1, StackTypes DEF ThreadInv, ForksStay, IsFork
      <4>. QED BY <2>3, <3>2, <4>1
    <3>3. CASE /\ Len(stack[t]) > 1
               /\ stack[t][Len(stack[t])] = Last(frames[t]).scope
               /\ stack'[t] = Front(stack[t])
      <4>0. stack[t] # <<>> /\ stack[t] \in Seq(Scope)
        BY <3>3, StackTypes, EmptySeq
      <4>1. /\ Len(stack'[t]) = top - 1 /\ top - 1 \in 1..(top - 1)
            /\ \A i \in 1..(top - 1) : stack'[t][i] = stack[t][i]
        BY <3>3, <4>0, FrontOf, StackTypes
      <4>2. stack'[t] # <<>> /\ stack'[t] \in Seq(Scope)
        BY <3>3, <4>0, <4>1, LastFrontType, EmptySeq
      <4>3. stack'[t][top - 1] = f.parent
        <5>1. top \in DOMAIN stack[t]
          BY <3>3, StackTypes
        <5>. QED BY <3>1, <3>3, <4>1, <5>1, StackTypes DEF ThreadInv, ParentBelow
      <4>4. Head(stack'[t]) = Head(stack[t])
        BY <4>0, <4>1, <4>2
      <4>. QED BY <2>3, <4>1, <4>2, <4>3, <4>4 DEF Last
    <3>. QED BY <1>9, <3>2, <3>3, PopScopeStack
  <2>. QED BY <2>2, <2>3
<1>10. ASSUME NEW s \in Scope, DestroyScope(s)
       PROVE  RootKept(u) /\ ParentBack(u)
  BY <1>3, <1>10 DEF DestroyScope
<1>11. ASSUME /\ InvalidateScopes
              /\ frames'[u] = frames[u] \/ (u = MainThread /\ InitInvalidate)
       PROVE  RootKept(u) /\ ParentBack(u)
  <2>1. localEpoch[u] # epoch'
    BY <1>11, StackTypes DEF InvalidateScopes, ThreadInv, LocalBehind
  <2>2. CASE frames'[u] = frames[u]
    BY <2>1, <2>2, StackTypes
  <2>3. CASE u = MainThread /\ InitInvalidate
    BY <2>1, <2>3 DEF InitInvalidate
  <2>. QED BY <1>11, <2>2, <2>3
<1>12. ASSUME InitBegin
       PROVE  RootKept(u) /\ ParentBack(u)
  <2>1. stack' = stack /\ (u # MainThread => frames'[u] = frames[u])
    BY <1>12, StackTypes DEF InitBegin, TypeOK
  <2>2. CASE u # MainThread
    BY <1>3, <2>1, <2>2
  <2>3. CASE u = MainThread
    <3>1. frames'[u] = Append(frames[u], InitFrame)
      BY <1>12, <2>3, StackTypes DEF InitBegin, TypeOK
    <3>2. Len(frames'[u]) = Len(frames[u]) + 1
      BY <3>1, StackTypes
    <3>. QED BY <2>1, <3>2, StackTypes
  <2>. QED BY <2>2, <2>3
<1>. HIDE DEF RootKept, ParentBack
<1>13. ASSUME InitInvalidate
       PROVE  RootKept(u) /\ ParentBack(u)
  <2>1. u # MainThread => frames'[u] = frames[u]
    BY <1>13, StackTypes DEF InitInvalidate, TypeOK
  <2>. QED BY <1>11, <1>13, <2>1 DEF InitInvalidate
<1>14. ASSUME CloseInvalidate
       PROVE  RootKept(u) /\ ParentBack(u)
  <2>1. InvalidateScopes /\ frames'[u] = frames[u]
    BY <1>14 DEF CloseInvalidate
  <2>. QED BY <1>11, <2>1
<1>15. ASSUME UNCHANGED <<stack, frames>>
       PROVE  RootKept(u) /\ ParentBack(u)
  BY <1>3, <1>15
<1>16. ASSUME \/ \E ok \in BOOLEAN : InitBackend(ok)
              \/ CloseBackend
              \/ UNCHANGED vars
       PROVE  UNCHANGED <<stack, frames>>
  BY <1>16 DEF InitBackend, CloseBackend, vars
<1>17. ASSUME NEW t \in Thread, ScopeStep(t)
       PROVE  RootKept(u) /\ ParentBack(u)
  BY <1>17, <1>4, <1>5, <1>6, <1>7, <1>8, <1>9 DEF ScopeStep
<1>18. ASSUME LifecycleStep
       PROVE  RootKept(u) /\ ParentBack(u)
  <2>1. CASE InitBegin \/ InitInvalidate \/ CloseInvalidate
    BY <2>1, <1>12, <1>13, <1>14
  <2>2. CASE (\E ok \in BOOLEAN : InitBackend(ok)) \/ CloseBackend
    <3>1. UNCHANGED <<stack, frames>>
      BY <2>2, <1>16
    <3>. QED BY <1>15, <3>1
  <2>. QED BY <1>18, <2>1, <2>2 DEF LifecycleStep
<1>19. CASE UNCHANGED vars
  BY <1>15, <1>16, <1>19
<1>. QED BY <1>10, <1>17, <1>18, <1>19 DEF Next

(* A callable that returns leaves the scope current that it found, and     *)
(* nothing but init() and close() replaces the root of a thread.           *)
THEOREM ParentsAreRestored == Spec => ParentRestored
<1>1. Init => StackInv                    BY StackInit
<1>2. StackInv /\ [Next]_vars => StackInv' BY StackNext
<1>3. StackInv /\ [Next]_vars => [KeepsRoot /\ RestoresParent]_vars
  BY StackSteps
<1>. QED BY <1>1, <1>2, <1>3, PTL DEF Spec, ParentRestored
=============================================================================
