-------------------------- MODULE ScopeSyncProofs --------------------------
(***************************************************************************)
(* Proofs about ScopeSync: no thread keeps a guard beyond its call, each   *)
(* layer's scope implements ScopeLayer, and both scopes are the same once  *)
(* every call has returned, for any threads, keys and values.              *)
(*                                                                         *)
(* All rests on how the frames of one thread lie on one another (Good): a  *)
(* call, what is forwarded from it, and at most one callback, which may    *)
(* forward its own change; and on which guards are held where.             *)
(***************************************************************************)
EXTENDS ScopeSync, FiniteSetTheorems, TLAPS

CallbackOps == {SetTag(k, v) : k \in InCallbacks \cup InCaptures, v \in Values}
Frames ==
    [layer : Layers, op : AllOps \cup CallbackOps, role : {"call", "forward", "callback"},
     local : BOOLEAN, prev : BOOLEAN, asked : BOOLEAN, pc : {"apply", "observe", "return", "leave"}]

ScopeRecord ==
    [tags : [Keys -> Values \cup {None}], user : Values \cup {None},
     trace : Values \cup {None}, crumbs : Nat]

Typed ==
    /\ scopes \in [Layers -> ScopeRecord]
    /\ stack \in [Threads -> Seq(Frames)]
    /\ depth \in [Layers -> [Threads -> Nat]]
    /\ inLocalScope \in [Threads -> BOOLEAN]
    /\ current \in [Threads -> AllOps \cup {None}]
    /\ reached \in [Threads -> SUBSET Layers]

(* What holds of a frame of each role.                                     *)
Sound(f) ==
    /\ f.role = "forward" => f.pc # "return" /\ ~f.local
    /\ f.role = "callback" => f.layer = "dotnet" /\ f.op # Breadcrumb /\ ~f.local
    /\ f.local => f.layer = "dotnet" /\ ~f.prev /\ f.pc # "return"

(* A frame on the one that called it.                                      *)
Above(f, g) ==
    \/ g.role = "forward" /\ f.pc = "return" /\ g.layer = Other(f.layer) /\ g.op = f.op
    \/ g.role = "callback" /\ f.pc # "return" /\ f.role # "callback" /\ f.layer = "dotnet"

Held(f, layer) == IF f.layer = layer /\ f.pc = "return" THEN 1 ELSE 0

(* A thread's frames and its guards: native and dotnet are the depths of   *)
(* the layers' guards, local is that of a capture.                         *)
Good(s, native, dotnet, local) ==
    /\ Len(s) \in 0 .. 3
    /\ \A i \in 1 .. Len(s) : Sound(s[i])
    /\ Len(s) = 0 => native = 0 /\ dotnet = 0 /\ ~local
    /\ Len(s) # 0 => s[1].role = "call" /\ (local <=> s[1].local)
    /\ Len(s) = 1 => native = Held(s[1], "native") /\ dotnet = Held(s[1], "dotnet")
    /\ Len(s) = 2 =>
           /\ Above(s[1], s[2])
           /\ IF s[2].role = "forward" THEN native = 1 /\ dotnet = 1
              ELSE native = 0 /\ dotnet = Held(s[2], "dotnet")
    /\ Len(s) = 3 =>
           /\ Above(s[1], s[2]) /\ Above(s[2], s[3]) /\ s[2].role # s[3].role
           /\ s[3].pc # "return"
           /\ native = 1 /\ dotnet = 1

StackInv ==
    \A t \in Threads : Good(stack[t], depth["native"][t], depth["dotnet"][t], inLocalScope[t])

GuardInv == Typed /\ StackInv

-----------------------------------------------------------------------------
(* The operations.                                                         *)
LEMMA OpsTyped ==
    ASSUME ScopeSyncAssumption, NEW op \in AllOps \cup CallbackOps
    PROVE  \/ op.kind = "set_tag" /\ op.key \in Keys /\ op.value \in Values \cup {None}
           \/ op.kind = "set_user" /\ op.value \in Values \cup {None}
           \/ op.kind = "set_trace" /\ op.value \in Values \cup {None}
           \/ op.kind = "add_breadcrumb" /\ op = Breadcrumb
  <1>1. CASE op \in CallbackOps
    BY <1>1 DEF CallbackOps, SetTag, ScopeSyncAssumption
  <1>2. CASE op \in AllOps
    <2>1. PICK t \in Threads : op \in OpsOf("dotnet", t)
      BY <1>2 DEF AllOps
    <2>2. KeysOf[t] \subseteq Keys
      BY DEF ScopeSyncAssumption
    <2> QED
      BY <2>1, <2>2 DEF OpsOf, SetTag, RemoveTag, SetUser, RemoveUser, SetTrace, Breadcrumb
  <1> QED
    BY <1>1, <1>2

LEMMA CallbackOpsTyped ==
    ASSUME NEW op \in CallbackOps
    PROVE  op # Breadcrumb
  BY DEF CallbackOps, SetTag, Breadcrumb

LEMMA AppliedTyped ==
    ASSUME ScopeSyncAssumption, NEW scope \in ScopeRecord, NEW op \in AllOps \cup CallbackOps
    PROVE  Applied(scope, op) \in ScopeRecord
  <1>1. CASE op.kind = "set_tag"
    BY <1>1, OpsTyped DEF Applied, ScopeRecord
  <1>2. CASE op.kind = "set_user"
    BY <1>2, OpsTyped DEF Applied, ScopeRecord
  <1>3. CASE op.kind = "set_trace"
    BY <1>3, OpsTyped DEF Applied, ScopeRecord
  <1>4. CASE op.kind = "add_breadcrumb"
    BY <1>4, OpsTyped DEF Applied, ScopeRecord
  <1> QED
    BY <1>1, <1>2, <1>3, <1>4, OpsTyped

LEMMA NativeOps ==
    ASSUME NEW layer \in Layers, NEW t \in Threads, NEW op \in OpsOf(layer, t)
    PROVE  /\ op \in OpsOf("dotnet", t) /\ op \in AllOps
           /\ layer = "native" => op.kind # "set_trace"
  <1>1. op \in OpsOf("dotnet", t)
    BY DEF OpsOf, Layers
  <1>2. op \in AllOps
    BY <1>1 DEF AllOps
  <1>3. layer = "native" => op.kind # "set_trace"
    BY DEF OpsOf, SetTag, RemoveTag, SetUser, RemoveUser, Breadcrumb
  <1> QED
    BY <1>1, <1>2, <1>3

LEMMA FrameTyped ==
    ASSUME NEW layer \in Layers, NEW op \in AllOps \cup CallbackOps,
           NEW role \in {"call", "forward", "callback"}
    PROVE  /\ Frame(layer, op, role) \in Frames
           /\ Frame(layer, op, role).layer = layer
           /\ Frame(layer, op, role).op = op
           /\ Frame(layer, op, role).role = role
           /\ Frame(layer, op, role).local = FALSE
           /\ Frame(layer, op, role).asked = FALSE
           /\ Frame(layer, op, role).pc = "apply"
  BY DEF Frame, Frames

-----------------------------------------------------------------------------
(* The stacks: the top changes, and another frame may come onto it.        *)
LEMMA TopTyped ==
    ASSUME Typed, NEW t \in Threads, stack[t] # <<>>
    PROVE  /\ Len(stack[t]) \in Nat \ {0}
           /\ Len(stack[t]) \in 1 .. Len(stack[t])
           /\ Top(t) = stack[t][Len(stack[t])]
           /\ Top(t) \in Frames
  <1>1. stack[t] \in Seq(Frames)
    BY DEF Typed
  <1>2. Len(stack[t]) \in Nat \ {0} /\ Len(stack[t]) \in 1 .. Len(stack[t])
    BY <1>1
  <1> QED
    BY <1>1, <1>2 DEF Top

LEMMA WithTyped ==
    ASSUME Typed, NEW t \in Threads, stack[t] # <<>>, NEW f \in Frames
    PROVE  /\ With(t, f) \in Seq(Frames)
           /\ Len(With(t, f)) = Len(stack[t])
           /\ With(t, f)[Len(stack[t])] = f
           /\ \A i \in 1 .. Len(stack[t]) : i # Len(stack[t]) => With(t, f)[i] = stack[t][i]
  <1>1. stack[t] \in Seq(Frames) /\ Len(stack[t]) \in 1 .. Len(stack[t])
    BY TopTyped DEF Typed
  <1> QED
    BY <1>1 DEF With

LEMMA PopTyped ==
    ASSUME Typed, NEW t \in Threads, stack[t] # <<>>
    PROVE  LET s == SubSeq(stack[t], 1, Len(stack[t]) - 1)
           IN  /\ s \in Seq(Frames)
               /\ Len(s) = Len(stack[t]) - 1
               /\ \A i \in 1 .. Len(stack[t]) - 1 : s[i] = stack[t][i]
  <1>1. stack[t] \in Seq(Frames) /\ Len(stack[t]) \in Nat \ {0}
    BY TopTyped DEF Typed
  <1> QED
    BY <1>1

-----------------------------------------------------------------------------
(* The invariant, action by action.                                        *)
LEMMA OthersKept ==
    ASSUME StackInv, NEW t \in Threads,
           \A u \in Threads : u # t =>
               /\ stack'[u] = stack[u] /\ inLocalScope'[u] = inLocalScope[u]
               /\ depth'["native"][u] = depth["native"][u]
               /\ depth'["dotnet"][u] = depth["dotnet"][u],
           Good(stack'[t], depth'["native"][t], depth'["dotnet"][t], inLocalScope'[t])
    PROVE  StackInv'
  <1> SUFFICES ASSUME NEW u \in Threads
               PROVE  Good(stack'[u], depth'["native"][u], depth'["dotnet"][u], inLocalScope'[u])
    BY DEF StackInv
  <1>1. CASE u = t
    BY <1>1
  <1>2. CASE u # t
    BY <1>2 DEF StackInv
  <1> QED
    BY <1>1, <1>2

(* A call, or a capture, is the first frame.                               *)
LEMMA FirstFrame ==
    ASSUME GuardInv, NEW t \in Threads, stack[t] = <<>>, NEW f \in Frames,
           f.role = "call", f.pc = "apply", f.local => f.layer = "dotnet" /\ ~f.prev,
           stack' = [stack EXCEPT ![t] = <<f>>],
           inLocalScope' = [inLocalScope EXCEPT ![t] = f.local],
           depth' = depth
    PROVE  /\ stack' \in [Threads -> Seq(Frames)]
           /\ StackInv'
  <1>1. stack \in [Threads -> Seq(Frames)] /\ inLocalScope \in [Threads -> BOOLEAN]
    BY DEF GuardInv, Typed
  <1>2. <<f>> \in Seq(Frames) /\ Len(<<f>>) = 1 /\ <<f>>[1] = f
    OBVIOUS
  <1>3. stack' \in [Threads -> Seq(Frames)] /\ stack'[t] = <<f>> /\ inLocalScope'[t] = f.local
    BY <1>1, <1>2
  <1>4. depth["native"][t] = 0 /\ depth["dotnet"][t] = 0
    <2>1. Len(stack[t]) = 0
      OBVIOUS
    <2> QED
      BY <2>1 DEF GuardInv, StackInv, Good
  <1> DEFINE z == stack'[t]
  <1>5. Len(z) = 1 /\ z[1] = f /\ f.local \in BOOLEAN
    BY <1>2, <1>3 DEF Frames
  <1> HIDE DEF z
  <1>6. Sound(f)
    BY DEF Sound
  <1>7. Good(z, 0, 0, f.local)
    <2>1. \A i \in 1 .. Len(z) : Sound(z[i])
      BY <1>5, <1>6
    <2> QED
      BY <1>5, <2>1 DEF Good, Held
  <1>8. Good(stack'[t], depth'["native"][t], depth'["dotnet"][t], inLocalScope'[t])
    BY <1>3, <1>4, <1>7 DEF z
  <1>9. \A u \in Threads : u # t =>
            /\ stack'[u] = stack[u] /\ inLocalScope'[u] = inLocalScope[u]
            /\ depth'["native"][u] = depth["native"][u]
            /\ depth'["dotnet"][u] = depth["dotnet"][u]
    BY <1>1
  <1> QED
    BY <1>3, <1>8, <1>9, OthersKept DEF GuardInv

(* The top goes on: its place is another, and so are perhaps its guard and *)
(* whether it asked a callback.                                            *)
LEMMA TopMoves ==
    ASSUME GuardInv, NEW t \in Threads, stack[t] # <<>>, NEW f \in Frames,
           f.role = Top(t).role, f.local = Top(t).local, f.layer = Top(t).layer,
           f.op = Top(t).op, f.prev = Top(t).prev, f.pc # "return",
           stack' = [stack EXCEPT ![t] = With(t, f)],
           inLocalScope' = inLocalScope,
           depth' = IF Top(t).pc = "return" THEN [depth EXCEPT ![Top(t).layer][t] = @ - 1] ELSE depth
    PROVE  /\ stack' \in [Threads -> Seq(Frames)]
           /\ depth' \in [Layers -> [Threads -> Nat]]
           /\ StackInv'
  <1>0. Typed /\ stack \in [Threads -> Seq(Frames)] /\ depth \in [Layers -> [Threads -> Nat]]
    BY DEF GuardInv, Typed
  <1> DEFINE s == stack[t]
             z == stack'[t]
             n == Len(s)
             top == Top(t)
  <1>1. /\ n \in Nat \ {0} /\ top = s[n] /\ top \in Frames
        /\ z \in Seq(Frames) /\ Len(z) = n /\ z[n] = f
        /\ \A i \in 1 .. n : i # n => z[i] = s[i]
        /\ n \in 1 .. n
    <2>1. z = With(t, f)
      BY <1>0
    <2> QED
      BY <1>0, <2>1, TopTyped, WithTyped
  <1>2. stack' \in [Threads -> Seq(Frames)]
    BY <1>0, <1>1
  <1>3. Good(s, depth["native"][t], depth["dotnet"][t], inLocalScope[t])
    BY DEF GuardInv, StackInv
  <1>4. Sound(top) /\ Sound(f)
    BY <1>1, <1>3 DEF Good, Sound
  <1>5. /\ top.layer \in {"native", "dotnet"} /\ "native" # "dotnet"
        /\ \A l \in Layers :
               depth'[l][t] = IF top.pc = "return" /\ l = top.layer THEN depth[l][t] - 1 ELSE depth[l][t]
    BY <1>0, <1>1 DEF Frames, Layers
  <1>6. \A u \in Threads : u # t =>
            /\ stack'[u] = stack[u] /\ inLocalScope'[u] = inLocalScope[u]
            /\ depth'["native"][u] = depth["native"][u]
            /\ depth'["dotnet"][u] = depth["dotnet"][u]
    BY <1>0, <1>1 DEF Layers, Frames
  <1>7. n \in {1, 2, 3}
    BY <1>1, <1>3 DEF Good
  <1> HIDE DEF s, z, n, top
  <1>8. \A i \in 1 .. Len(z) : Sound(z[i])
    BY <1>1, <1>3, <1>4 DEF Good, n
  <1> DEFINE dn == depth["native"][t]
             dd == depth["dotnet"][t]
             en == depth'["native"][t]
             ed == depth'["dotnet"][t]
  <1>9. /\ dn \in Nat /\ dd \in Nat
        /\ en = IF top.pc = "return" /\ top.layer = "native" THEN dn - 1 ELSE dn
        /\ ed = IF top.pc = "return" /\ top.layer = "dotnet" THEN dd - 1 ELSE dd
    BY <1>0, <1>5 DEF Layers
  <1> HIDE DEF dn, dd, en, ed
  <1>10. Good(s, dn, dd, inLocalScope[t])
    BY <1>3 DEF dn, dd
  <1>11. Good(z, en, ed, inLocalScope[t])
    <2>1. CASE n = 1
      BY <1>1, <1>4, <1>5, <1>8, <1>9, <1>10, <2>1 DEF Good, Held, n, top
    <2>2. CASE n = 2
      <3>1. /\ s[1] = z[1] /\ z[2] = f /\ s[2] = top /\ Len(s) = 2 /\ Len(z) = 2
        BY <1>1, <2>2 DEF n
      <3>2. /\ Above(s[1], s[2])
            /\ IF s[2].role = "forward" THEN dn = 1 /\ dd = 1
               ELSE dn = 0 /\ dd = Held(s[2], "dotnet")
            /\ s[1].role = "call" /\ (inLocalScope[t] <=> s[1].local)
        BY <1>10, <3>1 DEF Good
      <3>3. Above(z[1], z[2])
        BY <3>1, <3>2 DEF Above, top
      <3>4. IF f.role = "forward" THEN en = 1 /\ ed = 1 ELSE en = 0 /\ ed = Held(f, "dotnet")
        <4>1. CASE f.role = "forward"
          BY <1>4, <1>9, <3>1, <3>2, <4>1 DEF Sound, top
        <4>2. CASE f.role # "forward"
          <5>1. f.role = "callback" /\ top.role = "callback" /\ top.layer = "dotnet"
            BY <1>4, <3>1, <3>2, <4>2 DEF Sound, Above, top
          <5> QED
            BY <1>9, <3>1, <3>2, <4>2, <5>1 DEF Held, top
        <4> QED
          BY <4>1, <4>2
      <3> QED
        BY <1>8, <3>1, <3>2, <3>3, <3>4 DEF Good
    <2>3. CASE n = 3
      <3>1. /\ s[1] = z[1] /\ s[2] = z[2] /\ z[3] = f /\ s[3] = top /\ Len(s) = 3 /\ Len(z) = 3
        BY <1>1, <2>3 DEF n
      <3>2. /\ Above(s[1], s[2]) /\ Above(s[2], s[3]) /\ s[2].role # s[3].role
            /\ s[3].pc # "return" /\ dn = 1 /\ dd = 1
            /\ s[1].role = "call" /\ (inLocalScope[t] <=> s[1].local)
        BY <1>10, <3>1 DEF Good
      <3>3. Above(z[2], z[3])
        BY <3>1, <3>2 DEF Above, top
      <3>4. top.pc # "return"
        BY <3>1, <3>2
      <3> QED
        BY <1>8, <1>9, <3>1, <3>2, <3>3, <3>4 DEF Good, top
    <2> QED
      BY <1>7, <2>1, <2>2, <2>3
  <1>12. Good(stack'[t], depth'["native"][t], depth'["dotnet"][t], inLocalScope'[t])
    BY <1>11 DEF z, en, ed
  <1>13. depth' \in [Layers -> [Threads -> Nat]]
    <2>1. top.pc = "return" => depth[top.layer][t] # 0
      <3>1. n = 1 => Held(top, top.layer) # 0 \/ top.pc # "return"
        BY DEF Held
      <3> QED
        BY <1>1, <1>4, <1>5, <1>7, <1>10 DEF Good, Held, Above, Sound, n, dn, dd
    <2> QED
      BY <1>0, <1>1, <1>5, <2>1 DEF Layers, Frames, top
  <1> QED
    BY <1>2, <1>6, <1>12, <1>13, OthersKept DEF GuardInv

(* A callback runs within the top frame.                                   *)
LEMMA CallbackRuns ==
    ASSUME GuardInv, NEW t \in Threads, stack[t] # <<>>, NEW f \in Frames, NEW g \in Frames,
           f = [Top(t) EXCEPT !.asked = TRUE],
           Top(t).pc \in {"apply", "leave"}, Top(t).layer = "dotnet",
           Top(t).local \/ Top(t).op = Breadcrumb,
           g.role = "callback", g.layer = "dotnet", g.op # Breadcrumb, ~g.local, g.pc = "apply",
           stack' = [stack EXCEPT ![t] = Append(With(t, f), g)],
           inLocalScope' = inLocalScope, depth' = depth
    PROVE  /\ stack' \in [Threads -> Seq(Frames)]
           /\ StackInv'
  <1>0. Typed /\ stack \in [Threads -> Seq(Frames)] /\ inLocalScope \in [Threads -> BOOLEAN]
    BY DEF GuardInv, Typed
  <1> DEFINE s == stack[t]
             z == stack'[t]
             n == Len(s)
             top == Top(t)
  <1>1. /\ n \in Nat \ {0} /\ top = s[n] /\ top \in Frames
        /\ z \in Seq(Frames) /\ Len(z) = n + 1 /\ z[n] = f /\ z[n + 1] = g
        /\ \A i \in 1 .. n : i # n => z[i] = s[i]
        /\ n \in 1 .. n
    <2>1. z = Append(With(t, f), g)
      BY <1>0
    <2>2. /\ z \in Seq(Frames) /\ Len(z) = n + 1 /\ z[n] = f /\ z[n + 1] = g
          /\ \A i \in 1 .. n : i # n => z[i] = s[i]
      <3> DEFINE w == With(t, f)
      <3>1. /\ w \in Seq(Frames) /\ Len(w) = n /\ w[n] = f
            /\ \A i \in 1 .. n : i # n => w[i] = s[i]
            /\ n \in 1 .. n
        BY <1>0, WithTyped, TopTyped
      <3>2. z = Append(w, g)
        BY <2>1
      <3> HIDE DEF w, z, n, s
      <3>3. /\ z \in Seq(Frames) /\ Len(z) = Len(w) + 1 /\ z[Len(w) + 1] = g
            /\ \A i \in 1 .. Len(w) : z[i] = w[i]
        BY <3>1, <3>2
      <3> QED
        BY <3>1, <3>3
    <2>3. n \in Nat \ {0} /\ top = s[n] /\ top \in Frames /\ n \in 1 .. n
      BY <1>0, TopTyped
    <2> QED
      BY <2>2, <2>3
  <1>2. stack' \in [Threads -> Seq(Frames)]
    BY <1>0, <1>1
  <1>3. /\ f.role = top.role /\ f.local = top.local /\ f.layer = top.layer
        /\ f.op = top.op /\ f.prev = top.prev /\ f.pc = top.pc
    BY <1>1 DEF Frames
  <1> DEFINE dn == depth["native"][t]
             dd == depth["dotnet"][t]
             loc == inLocalScope[t]
  <1>4. Good(s, dn, dd, loc)
    BY DEF GuardInv, StackInv
  <1>5. \A u \in Threads : u # t =>
            /\ stack'[u] = stack[u] /\ inLocalScope'[u] = inLocalScope[u]
            /\ depth'["native"][u] = depth["native"][u]
            /\ depth'["dotnet"][u] = depth["dotnet"][u]
    BY <1>0
  <1> HIDE DEF s, z, n, top, dn, dd, loc
  <1>6. n \in {1, 2, 3} /\ Sound(top)
    BY <1>1, <1>4 DEF Good, n
  <1>7. Sound(f) /\ Sound(g)
    BY <1>3, <1>6 DEF Sound
  <1>8. top.role # "callback"
    BY <1>6 DEF Sound, top
  <1>9. \A i \in 1 .. Len(z) : Sound(z[i])
    <2>1. \A i \in 1 .. n : Sound(s[i])
      BY <1>4 DEF Good, n
    <2> QED
      BY <1>1, <1>7, <2>1
  <1>10. CASE n = 1
    <2>1. /\ Len(s) = 1 /\ s[1] = top /\ Len(z) = 2 /\ z[1] = f /\ z[2] = g
      BY <1>1, <1>10 DEF n
    <2>2. /\ dn = 0 /\ dd = 0 /\ top.role = "call" /\ (loc <=> top.local)
      BY <1>4, <2>1 DEF Good, Held, top
    <2>3. Above(f, g)
      BY <1>3, <1>8 DEF Above, top
    <2>4. Good(z, dn, dd, loc)
      BY <1>3, <1>9, <2>1, <2>2, <2>3 DEF Good, Held
    <2> QED
      BY <1>2, <1>5, <2>4, OthersKept DEF GuardInv, z, dn, dd, loc
  <1>11. CASE n = 2
    <2>1. /\ Len(s) = 2 /\ s[1] = z[1] /\ s[2] = top /\ Len(z) = 3 /\ z[2] = f /\ z[3] = g
      BY <1>1, <1>11 DEF n
    <2>2. /\ Above(z[1], top) /\ z[1].role = "call" /\ (loc <=> z[1].local)
          /\ top.role = "forward" => dn = 1 /\ dd = 1
      BY <1>4, <2>1 DEF Good
    <2>3. top.role = "forward"
      BY <1>8, <2>2 DEF Above
    <2>4. Above(z[1], f) /\ Above(f, g)
      BY <1>3, <1>8, <2>2 DEF Above, top
    <2>5. Good(z, dn, dd, loc)
      BY <1>3, <1>9, <2>1, <2>2, <2>3, <2>4 DEF Good
    <2> QED
      BY <1>2, <1>5, <2>5, OthersKept DEF GuardInv, z, dn, dd, loc
  <1>12. CASE n = 3
    <2>1. Len(s) = 3 /\ s[3] = top
      BY <1>1, <1>12 DEF n
    <2>2. /\ Above(s[1], s[2]) /\ Above(s[2], s[3]) /\ s[2].role # s[3].role /\ Sound(s[2])
      BY <1>4, <2>1 DEF Good
    <2>3. s[2].role = "callback" /\ s[3].role = "forward"
      BY <1>8, <2>1, <2>2 DEF Above
    <2>4. s[2].layer = "dotnet" /\ top.layer = "native"
      BY <2>1, <2>2, <2>3 DEF Above, Sound, Other
    <2> QED
      BY <2>4 DEF top
  <1> QED
    BY <1>6, <1>10, <1>11, <1>12

(* The change goes into the other layer.                                   *)
LEMMA TopForwards ==
    ASSUME GuardInv, NEW t \in Threads, stack[t] # <<>>, NEW f \in Frames, NEW g \in Frames,
           f = [Top(t) EXCEPT !.pc = "return"],
           Top(t).pc = "observe", depth[Top(t).layer][t] = 0, ~Top(t).local,
           g.role = "forward", g.layer = Other(Top(t).layer), g.op = Top(t).op, ~g.local,
           g.pc = "apply",
           stack' = [stack EXCEPT ![t] = Append(With(t, f), g)],
           inLocalScope' = inLocalScope,
           depth' = [l \in Layers |-> [depth[l] EXCEPT ![t] = @ + 1]]
    PROVE  /\ stack' \in [Threads -> Seq(Frames)]
           /\ depth' \in [Layers -> [Threads -> Nat]]
           /\ StackInv'
  <1>0. Typed /\ stack \in [Threads -> Seq(Frames)] /\ depth \in [Layers -> [Threads -> Nat]]
    BY DEF GuardInv, Typed
  <1> DEFINE s == stack[t]
             z == stack'[t]
             n == Len(s)
             top == Top(t)
  <1>1. /\ n \in Nat \ {0} /\ top = s[n] /\ top \in Frames
        /\ z \in Seq(Frames) /\ Len(z) = n + 1 /\ z[n] = f /\ z[n + 1] = g
        /\ \A i \in 1 .. n : i # n => z[i] = s[i]
        /\ n \in 1 .. n
    <2>1. z = Append(With(t, f), g)
      BY <1>0
    <2>2. /\ z \in Seq(Frames) /\ Len(z) = n + 1 /\ z[n] = f /\ z[n + 1] = g
          /\ \A i \in 1 .. n : i # n => z[i] = s[i]
      <3> DEFINE w == With(t, f)
      <3>1. /\ w \in Seq(Frames) /\ Len(w) = n /\ w[n] = f
            /\ \A i \in 1 .. n : i # n => w[i] = s[i]
            /\ n \in 1 .. n
        BY <1>0, WithTyped, TopTyped
      <3>2. z = Append(w, g)
        BY <2>1
      <3> HIDE DEF w, z, n, s
      <3>3. /\ z \in Seq(Frames) /\ Len(z) = Len(w) + 1 /\ z[Len(w) + 1] = g
            /\ \A i \in 1 .. Len(w) : z[i] = w[i]
        BY <3>1, <3>2
      <3> QED
        BY <3>1, <3>3
    <2>3. n \in Nat \ {0} /\ top = s[n] /\ top \in Frames /\ n \in 1 .. n
      BY <1>0, TopTyped
    <2> QED
      BY <2>2, <2>3
  <1>2. stack' \in [Threads -> Seq(Frames)] /\ depth' \in [Layers -> [Threads -> Nat]]
    BY <1>0, <1>1
  <1>3. /\ f.role = top.role /\ f.local = top.local /\ f.layer = top.layer
        /\ f.op = top.op /\ f.pc = "return" /\ top.layer \in {"native", "dotnet"}
    BY <1>1 DEF Frames, Layers
  <1> DEFINE dn == depth["native"][t]
             dd == depth["dotnet"][t]
             en == depth'["native"][t]
             ed == depth'["dotnet"][t]
             loc == inLocalScope[t]
  <1>4. /\ Good(s, dn, dd, loc) /\ dn \in Nat /\ dd \in Nat /\ en = dn + 1 /\ ed = dd + 1
        /\ top.layer = "native" => dn = 0
        /\ top.layer = "dotnet" => dd = 0
    BY <1>0, <1>1 DEF GuardInv, StackInv, Layers
  <1>5. \A u \in Threads : u # t =>
            /\ stack'[u] = stack[u] /\ inLocalScope'[u] = inLocalScope[u]
            /\ depth'["native"][u] = depth["native"][u]
            /\ depth'["dotnet"][u] = depth["dotnet"][u]
    BY <1>0 DEF Layers
  <1> HIDE DEF s, z, n, top, dn, dd, en, ed, loc
  <1>6. n \in {1, 2, 3} /\ Sound(top)
    BY <1>1, <1>4 DEF Good, n
  <1>7. CASE n = 1
    <2>1. /\ Len(s) = 1 /\ s[1] = top /\ Len(z) = 2 /\ z[1] = f /\ z[2] = g
          /\ 1 .. Len(z) = {1, 2}
      BY <1>1, <1>7 DEF n
    <2>2. /\ dn = 0 /\ dd = 0 /\ top.role = "call" /\ (loc <=> top.local)
      BY <1>4, <2>1 DEF Good, Held, top
    <2>3. Above(f, g) /\ Sound(f) /\ Sound(g)
      BY <1>3, <1>6, <2>2 DEF Above, Sound, top
    <2>4. Good(z, en, ed, loc)
      BY <1>3, <1>4, <2>1, <2>2, <2>3 DEF Good
    <2> QED
      BY <1>2, <1>5, <2>4, OthersKept DEF GuardInv, z, en, ed, loc
  <1>8. CASE n = 2
    <2>1. /\ Len(s) = 2 /\ s[1] = z[1] /\ s[2] = top /\ Len(z) = 3 /\ z[2] = f /\ z[3] = g
          /\ 1 .. Len(z) = {1, 2, 3} /\ 1 \in 1 .. Len(s)
      BY <1>1, <1>8 DEF n
    <2>2. /\ Above(z[1], top) /\ z[1].role = "call" /\ (loc <=> z[1].local) /\ Sound(z[1])
          /\ IF top.role = "forward" THEN dn = 1 /\ dd = 1
             ELSE dn = 0 /\ dd = Held(top, "dotnet")
      BY <1>4, <2>1 DEF Good
    <2>3. top.role = "callback" /\ top.layer = "dotnet"
      BY <1>3, <1>4, <1>6, <2>2 DEF Above, Sound
    <2>4. dn = 0 /\ dd = 0
      BY <1>4, <2>2, <2>3
    <2>5. Above(z[1], f) /\ Above(f, g) /\ Sound(f) /\ Sound(g)
      BY <1>3, <1>6, <2>2, <2>3 DEF Above, Sound, top
    <2>6. Good(z, en, ed, loc)
      BY <1>3, <1>4, <2>1, <2>2, <2>3, <2>4, <2>5 DEF Good
    <2> QED
      BY <1>2, <1>5, <2>6, OthersKept DEF GuardInv, z, en, ed, loc
  <1>9. CASE n = 3
    <2>1. Len(s) = 3
      BY <1>9 DEF n
    <2> QED
      BY <1>3, <1>4, <2>1 DEF Good
  <1> QED
    BY <1>6, <1>7, <1>8, <1>9

(* The top is done.                                                        *)
LEMMA TopLeaves ==
    ASSUME GuardInv, NEW t \in Threads, stack[t] # <<>>, Top(t).pc = "leave",
           stack' = [stack EXCEPT ![t] = SubSeq(@, 1, Len(@) - 1)],
           inLocalScope' = [inLocalScope EXCEPT ![t] = IF Top(t).local THEN Top(t).prev ELSE @],
           depth' = Released(t)
    PROVE  /\ stack' \in [Threads -> Seq(Frames)]
           /\ depth' \in [Layers -> [Threads -> Nat]]
           /\ StackInv'
  <1>0. /\ Typed /\ stack \in [Threads -> Seq(Frames)] /\ depth \in [Layers -> [Threads -> Nat]]
        /\ inLocalScope \in [Threads -> BOOLEAN]
    BY DEF GuardInv, Typed
  <1> DEFINE s == stack[t]
             z == stack'[t]
             n == Len(s)
             top == Top(t)
  <1>1. /\ n \in Nat \ {0} /\ top = s[n] /\ top \in Frames
        /\ z \in Seq(Frames) /\ Len(z) = n - 1
        /\ \A i \in 1 .. n - 1 : z[i] = s[i]
        /\ n \in 1 .. n
    <2>1. z = SubSeq(stack[t], 1, Len(stack[t]) - 1)
      BY <1>0
    <2> QED
      BY <1>0, <2>1, TopTyped, PopTyped
  <1>2. stack' \in [Threads -> Seq(Frames)]
    BY <1>0, <1>1
  <1> DEFINE dn == depth["native"][t]
             dd == depth["dotnet"][t]
             en == depth'["native"][t]
             ed == depth'["dotnet"][t]
             loc == inLocalScope[t]
  <1>3. /\ top.layer \in {"native", "dotnet"} /\ "native" # "dotnet"
        /\ dn \in Nat /\ dd \in Nat
        /\ en = IF top.role = "forward" /\ top.layer = "native" THEN dn - 1 ELSE dn
        /\ ed = IF top.role = "forward" /\ top.layer = "dotnet" THEN dd - 1 ELSE dd
    BY <1>0, <1>1 DEF Frames, Layers, Released
  <1>4. Good(s, dn, dd, loc)
    BY DEF GuardInv, StackInv
  <1>5. \A u \in Threads : u # t =>
            /\ stack'[u] = stack[u] /\ inLocalScope'[u] = inLocalScope[u]
            /\ depth'["native"][u] = depth["native"][u]
            /\ depth'["dotnet"][u] = depth["dotnet"][u]
    BY <1>0, <1>1 DEF Released, Layers, Frames
  <1>6. inLocalScope'[t] = IF top.local THEN top.prev ELSE loc
    BY <1>0
  <1>7. depth' \in [Layers -> [Threads -> Nat]] <=>
            (top.role = "forward" => depth[top.layer][t] - 1 \in Nat)
    <2>1. depth' = [depth EXCEPT ![top.layer][t] = IF top.role = "forward" THEN @ - 1 ELSE @]
      BY DEF Released
    <2>2. top.layer \in Layers
      BY <1>1 DEF Frames
    <2> QED
      BY <1>0, <2>1, <2>2
  <1> HIDE DEF s, z, n, top, dn, dd, en, ed, loc
  <1>8. n \in {1, 2, 3} /\ Sound(top)
    BY <1>1, <1>4 DEF Good, n
  <1>9. \A i \in 1 .. Len(z) : Sound(z[i])
    BY <1>1, <1>4 DEF Good, n
  <1>10. /\ Good(z, en, ed, inLocalScope'[t])
         /\ top.role = "forward" => dn = 1 /\ dd = 1
    <2>1. CASE n = 1
      <3>1. Len(s) = 1 /\ s[1] = top /\ Len(z) = 0
        BY <1>1, <2>1 DEF n
      <3>2. /\ dn = 0 /\ dd = 0 /\ top.role = "call" /\ (loc <=> top.local)
        BY <1>4, <3>1 DEF Good, Held, top
      <3> QED
        BY <1>3, <1>6, <1>8, <1>9, <3>1, <3>2 DEF Good, Sound
    <2>2. CASE n = 2
      <3>1. Len(s) = 2 /\ s[2] = top /\ Len(z) = 1 /\ z[1] = s[1]
        BY <1>1, <2>2 DEF n
      <3>2. /\ Above(s[1], top) /\ s[1].role = "call" /\ (loc <=> s[1].local)
            /\ IF top.role = "forward" THEN dn = 1 /\ dd = 1
               ELSE dn = 0 /\ dd = Held(top, "dotnet")
        BY <1>4, <3>1 DEF Good
      <3>3. ~top.local /\ top.role \in {"forward", "callback"}
        BY <1>8, <3>2 DEF Sound, Above
      <3>4. s[1] \in Frames
        BY <1>0, <3>1 DEF s
      <3>5. en = Held(s[1], "native") /\ ed = Held(s[1], "dotnet")
        BY <1>3, <3>2, <3>3, <3>4 DEF Above, Held, Other, Frames, Layers, top
      <3>6. Good(z, en, ed, loc)
        BY <1>9, <3>1, <3>2, <3>5 DEF Good
      <3> QED
        BY <1>6, <3>2, <3>3, <3>6
    <2>3. CASE n = 3
      <3>1. Len(s) = 3 /\ s[3] = top /\ Len(z) = 2 /\ z[1] = s[1] /\ z[2] = s[2]
            /\ 2 \in 1 .. Len(s)
        BY <1>1, <2>3 DEF n
      <3>2. /\ Above(s[1], s[2]) /\ Above(s[2], top) /\ s[2].role # top.role
            /\ dn = 1 /\ dd = 1 /\ Sound(s[2])
            /\ s[1].role = "call" /\ (loc <=> s[1].local)
        BY <1>4, <3>1 DEF Good
      <3>3. ~top.local /\ top.role \in {"forward", "callback"}
        BY <1>8, <3>2 DEF Sound, Above
      <3>4. CASE top.role = "forward"
        <4>1. s[2].role = "callback" /\ s[2].layer = "dotnet" /\ s[2].pc = "return" /\ top.layer = "native"
          BY <3>2, <3>4 DEF Above, Sound, Other
        <4>2. en = 0 /\ ed = 1 /\ Held(s[2], "dotnet") = 1
          BY <1>3, <3>2, <3>4, <4>1 DEF Held
        <4>3. Good(z, en, ed, loc)
          BY <1>9, <3>1, <3>2, <4>1, <4>2 DEF Good
        <4> QED
          BY <1>6, <3>2, <3>3, <4>3
      <3>5. CASE top.role = "callback"
        <4>1. s[2].role = "forward" /\ en = 1 /\ ed = 1
          BY <1>3, <3>2, <3>5 DEF Above
        <4>2. Good(z, en, ed, loc)
          BY <1>9, <3>1, <3>2, <4>1 DEF Good
        <4> QED
          BY <1>6, <3>2, <3>3, <3>5, <4>2
      <3> QED
        BY <3>3, <3>4, <3>5
    <2> QED
      BY <1>8, <2>1, <2>2, <2>3
  <1>11. depth' \in [Layers -> [Threads -> Nat]]
    <2>1. top.role = "forward" => depth[top.layer][t] = 1
      BY <1>3, <1>10 DEF dn, dd
    <2> QED
      BY <1>7, <2>1
  <1>12. Good(stack'[t], depth'["native"][t], depth'["dotnet"][t], inLocalScope'[t])
    BY <1>10 DEF z, en, ed
  <1> QED
    BY <1>2, <1>5, <1>11, <1>12, OthersKept DEF GuardInv

-----------------------------------------------------------------------------
THEOREM GuardInit == ASSUME ScopeSyncAssumption PROVE Init => GuardInv
  <1> SUFFICES ASSUME Init PROVE GuardInv
    OBVIOUS
  <1>1. Typed
    <2>1. Fresh \in ScopeRecord
      BY DEF Fresh, ScopeRecord
    <2> QED
      BY <2>1 DEF Init, Typed, Layers
  <1>2. StackInv
    <2> SUFFICES ASSUME NEW t \in Threads
                 PROVE  Good(stack[t], depth["native"][t], depth["dotnet"][t], inLocalScope[t])
      BY DEF StackInv
    <2>1. /\ stack[t] = <<>> /\ Len(stack[t]) = 0
          /\ depth["native"][t] = 0 /\ depth["dotnet"][t] = 0 /\ ~inLocalScope[t]
      BY DEF Init, Layers
    <2> QED
      BY <2>1 DEF Good
  <1> QED
    BY <1>1, <1>2 DEF GuardInv

(* The variables that no guard depends on keep their types.                *)
LEMMA CallKeeps ==
    ASSUME ScopeSyncAssumption, GuardInv, NEW t \in Threads, Call(t) PROVE GuardInv'
  <1>0. PICK layer \in Layers : \E op \in OpsOf(layer, t) :
            /\ stack[t] = <<>>
            /\ stack' = [stack EXCEPT ![t] = <<Frame(layer, op, "call")>>]
            /\ current' = [current EXCEPT ![t] = op] /\ reached' = [reached EXCEPT ![t] = {}]
            /\ UNCHANGED <<scopes, depth, inLocalScope>>
    BY DEF Call
  <1>1. PICK op \in OpsOf(layer, t) :
            /\ stack[t] = <<>>
            /\ stack' = [stack EXCEPT ![t] = <<Frame(layer, op, "call")>>]
            /\ current' = [current EXCEPT ![t] = op] /\ reached' = [reached EXCEPT ![t] = {}]
            /\ UNCHANGED <<scopes, depth, inLocalScope>>
    BY <1>0
  <1>2. op \in AllOps
    BY NativeOps
  <1> DEFINE f == Frame(layer, op, "call")
  <1>3. f \in Frames /\ f.role = "call" /\ f.pc = "apply" /\ f.local = FALSE
    <2>1. op \in AllOps \cup CallbackOps /\ "call" \in {"call", "forward", "callback"}
      BY <1>2
    <2> QED
      BY <2>1 DEF Frame, Frames
  <1> HIDE DEF f
  <1>4. inLocalScope' = [inLocalScope EXCEPT ![t] = f.local]
    <2>1. Len(stack[t]) = 0
      BY <1>1
    <2>2. inLocalScope \in [Threads -> BOOLEAN] /\ inLocalScope[t] = FALSE
      BY <2>1 DEF GuardInv, Typed, StackInv, Good
    <2> QED
      BY <1>1, <1>3, <2>2
  <1>5. stack' = [stack EXCEPT ![t] = <<f>>]
    BY <1>1 DEF f
  <1>6. stack' \in [Threads -> Seq(Frames)] /\ StackInv'
    BY <1>1, <1>3, <1>4, <1>5, FirstFrame
  <1>7. Typed'
    BY <1>1, <1>2, <1>6 DEF GuardInv, Typed
  <1> QED
    BY <1>6, <1>7 DEF GuardInv

LEMMA CaptureKeeps ==
    ASSUME ScopeSyncAssumption, GuardInv, NEW t \in Threads, Capture(t) PROVE GuardInv'
  <1>1. PICK op \in OpsOf("dotnet", t) :
            /\ stack[t] = <<>>
            /\ stack' = [stack EXCEPT ![t] = <<[Frame("dotnet", op, "call") EXCEPT
                                                 !.local = TRUE, !.prev = inLocalScope[t]]>>]
            /\ inLocalScope' = [inLocalScope EXCEPT ![t] = TRUE]
            /\ UNCHANGED <<scopes, depth, current, reached>>
    BY DEF Capture
  <1>2. op \in AllOps /\ "dotnet" \in Layers
    BY NativeOps DEF Layers
  <1>3. inLocalScope \in [Threads -> BOOLEAN] /\ inLocalScope[t] = FALSE
    <2>1. Len(stack[t]) = 0
      BY <1>1
    <2> QED
      BY <2>1 DEF GuardInv, Typed, StackInv, Good
  <1> DEFINE f == [Frame("dotnet", op, "call") EXCEPT !.local = TRUE, !.prev = inLocalScope[t]]
  <1>4. /\ f \in Frames /\ f.role = "call" /\ f.pc = "apply" /\ f.local = TRUE
        /\ f.layer = "dotnet" /\ ~f.prev
    BY <1>2, <1>3 DEF Frame, Frames
  <1>5. stack' = [stack EXCEPT ![t] = <<f>>]
    BY <1>1
  <1> HIDE DEF f
  <1>6. inLocalScope' = [inLocalScope EXCEPT ![t] = f.local]
    BY <1>1, <1>4
  <1>7. stack' \in [Threads -> Seq(Frames)] /\ StackInv'
    BY <1>1, <1>4, <1>5, <1>6, FirstFrame
  <1>8. Typed'
    BY <1>1, <1>7 DEF GuardInv, Typed
  <1> QED
    BY <1>7, <1>8 DEF GuardInv

(* Where the callbacks' tags are among the operations of a frame.          *)
LEMMA CallbackFrame ==
    ASSUME NEW k \in InCallbacks \cup InCaptures, NEW v \in Values
    PROVE  /\ Frame("dotnet", SetTag(k, v), "callback") \in Frames
           /\ Frame("dotnet", SetTag(k, v), "callback").layer = "dotnet"
           /\ Frame("dotnet", SetTag(k, v), "callback").role = "callback"
           /\ Frame("dotnet", SetTag(k, v), "callback").op # Breadcrumb
           /\ Frame("dotnet", SetTag(k, v), "callback").local = FALSE
           /\ Frame("dotnet", SetTag(k, v), "callback").pc = "apply"
  <1> DEFINE op == SetTag(k, v)
  <1>1. op \in CallbackOps /\ "dotnet" \in Layers
    BY DEF CallbackOps, Layers
  <1>2. op \in AllOps \cup CallbackOps /\ "callback" \in {"call", "forward", "callback"}
    BY <1>1
  <1> HIDE DEF op
  <1>3. /\ Frame("dotnet", op, "callback") \in Frames
        /\ Frame("dotnet", op, "callback").layer = "dotnet"
        /\ Frame("dotnet", op, "callback").role = "callback"
        /\ Frame("dotnet", op, "callback").op = op
        /\ Frame("dotnet", op, "callback").local = FALSE
        /\ Frame("dotnet", op, "callback").pc = "apply"
    BY <1>1, <1>2 DEF Frame, Frames
  <1> QED
    BY <1>1, <1>3, CallbackOpsTyped DEF op

LEMMA BeforeSendKeeps ==
    ASSUME GuardInv, NEW t \in Threads, BeforeSend(t) PROVE GuardInv'
  <1>1. PICK k \in InCaptures, v \in Values :
            /\ stack[t] # <<>> /\ Top(t).pc = "leave" /\ Top(t).local /\ ~Top(t).asked
            /\ stack' = [stack EXCEPT ![t] = Append(With(t, [Top(t) EXCEPT !.asked = TRUE]),
                                                    Frame("dotnet", SetTag(k, v), "callback"))]
            /\ UNCHANGED <<scopes, depth, inLocalScope, current, reached>>
    BY DEF BeforeSend, At
  <1>2. Top(t) \in Frames /\ Sound(Top(t))
    BY <1>1, TopTyped DEF GuardInv, StackInv, Good
  <1>3. Top(t).layer = "dotnet" /\ [Top(t) EXCEPT !.asked = TRUE] \in Frames
    BY <1>1, <1>2 DEF Sound, Frames
  <1> DEFINE f == [Top(t) EXCEPT !.asked = TRUE]
             g == Frame("dotnet", SetTag(k, v), "callback")
  <1>4. /\ g \in Frames /\ g.role = "callback" /\ g.layer = "dotnet" /\ g.op # Breadcrumb
        /\ ~g.local /\ g.pc = "apply"
    BY CallbackFrame
  <1>5. f \in Frames /\ f = [Top(t) EXCEPT !.asked = TRUE]
        /\ stack' = [stack EXCEPT ![t] = Append(With(t, f), g)]
    BY <1>1, <1>3
  <1> HIDE DEF f, g
  <1>6. stack' \in [Threads -> Seq(Frames)] /\ StackInv'
    BY <1>1, <1>3, <1>4, <1>5, CallbackRuns
  <1>7. Typed'
    BY <1>1, <1>6 DEF GuardInv, Typed
  <1> QED
    BY <1>6, <1>7 DEF GuardInv

LEMMA BeforeBreadcrumbKeeps ==
    ASSUME GuardInv, NEW t \in Threads, BeforeBreadcrumb(t) PROVE GuardInv'
  <1>1. PICK k \in InCallbacks, v \in Values :
            /\ stack[t] # <<>> /\ Top(t).pc = "apply"
            /\ Top(t).layer = "dotnet" /\ Top(t).op = Breadcrumb /\ ~Top(t).asked
            /\ stack' = [stack EXCEPT ![t] = Append(With(t, [Top(t) EXCEPT !.asked = TRUE]),
                                                    Frame("dotnet", SetTag(k, v), "callback"))]
            /\ UNCHANGED <<scopes, depth, inLocalScope, current, reached>>
    BY DEF BeforeBreadcrumb, At
  <1>2. Top(t) \in Frames
    BY <1>1, TopTyped DEF GuardInv
  <1> DEFINE f == [Top(t) EXCEPT !.asked = TRUE]
             g == Frame("dotnet", SetTag(k, v), "callback")
  <1>3. f \in Frames
    BY <1>2 DEF Frames
  <1>4. /\ g \in Frames /\ g.role = "callback" /\ g.layer = "dotnet" /\ g.op # Breadcrumb
        /\ ~g.local /\ g.pc = "apply"
    BY CallbackFrame
  <1>5. f = [Top(t) EXCEPT !.asked = TRUE]
        /\ stack' = [stack EXCEPT ![t] = Append(With(t, f), g)]
    BY <1>1
  <1> HIDE DEF f, g
  <1>6. stack' \in [Threads -> Seq(Frames)] /\ StackInv'
    BY <1>1, <1>3, <1>4, <1>5, CallbackRuns
  <1>7. Typed'
    BY <1>1, <1>6 DEF GuardInv, Typed
  <1> QED
    BY <1>6, <1>7 DEF GuardInv

LEMMA ApplyKeeps ==
    ASSUME ScopeSyncAssumption, GuardInv, NEW t \in Threads, Apply(t) PROVE GuardInv'
  <1>1. /\ stack[t] # <<>> /\ Top(t).pc = "apply"
        /\ scopes' = IF Top(t).local THEN scopes
                     ELSE [scopes EXCEPT ![Top(t).layer] = Applied(@, Top(t).op)]
        /\ stack' = [stack EXCEPT ![t] = With(t, [Top(t) EXCEPT !.pc = "observe"])]
        /\ reached' = IF Top(t).local \/ Top(t).role = "callback" THEN reached
                      ELSE [reached EXCEPT ![t] = @ \cup {Top(t).layer}]
        /\ depth' = depth /\ inLocalScope' = inLocalScope /\ current' = current
    BY DEF Apply, At
  <1>2. Top(t) \in Frames
    BY <1>1, TopTyped DEF GuardInv
  <1> DEFINE f == [Top(t) EXCEPT !.pc = "observe"]
  <1>3. /\ f \in Frames /\ f.role = Top(t).role /\ f.local = Top(t).local
        /\ f.layer = Top(t).layer /\ f.op = Top(t).op /\ f.prev = Top(t).prev
        /\ f.pc = "observe"
    BY <1>2 DEF Frames
  <1>4. stack' = [stack EXCEPT ![t] = With(t, f)]
    BY <1>1
  <1> HIDE DEF f
  <1>5. stack' \in [Threads -> Seq(Frames)] /\ StackInv'
    BY <1>1, <1>3, <1>4, TopMoves
  <1>6. scopes' \in [Layers -> ScopeRecord]
    <2> DEFINE top == Top(t)
               applied == Applied(scopes[top.layer], top.op)
    <2>1. /\ scopes \in [Layers -> ScopeRecord] /\ top.layer \in Layers
          /\ top.op \in AllOps \cup CallbackOps
      BY <1>2 DEF GuardInv, Typed, Frames
    <2> HIDE DEF top
    <2>2. applied \in ScopeRecord
      BY <2>1, AppliedTyped
    <2>3. scopes' = IF top.local THEN scopes ELSE [scopes EXCEPT ![top.layer] = applied]
      BY <1>1 DEF top
    <2> QED
      BY <2>1, <2>2, <2>3
  <1>7. reached' \in [Threads -> SUBSET Layers]
    <2>1. reached \in [Threads -> SUBSET Layers] /\ Top(t).layer \in Layers
      BY <1>2 DEF GuardInv, Typed, Frames
    <2> QED
      BY <1>1, <2>1
  <1>8. Typed'
    BY <1>1, <1>5, <1>6, <1>7 DEF GuardInv, Typed
  <1> QED
    BY <1>5, <1>8 DEF GuardInv

LEMMA IgnoreKeeps ==
    ASSUME GuardInv, NEW t \in Threads, Ignore(t) PROVE GuardInv'
  <1>1. /\ stack[t] # <<>> /\ Top(t).pc = "observe"
        /\ stack' = [stack EXCEPT ![t] = With(t, [Top(t) EXCEPT !.pc = "leave"])]
        /\ UNCHANGED <<scopes, depth, inLocalScope, current, reached>>
    BY DEF Ignore, At
  <1>2. Top(t) \in Frames
    BY <1>1, TopTyped DEF GuardInv
  <1> DEFINE f == [Top(t) EXCEPT !.pc = "leave"]
  <1>3. /\ f \in Frames /\ f.role = Top(t).role /\ f.local = Top(t).local
        /\ f.layer = Top(t).layer /\ f.op = Top(t).op /\ f.prev = Top(t).prev
        /\ f.pc = "leave"
    BY <1>2 DEF Frames
  <1>4. stack' = [stack EXCEPT ![t] = With(t, f)]
    BY <1>1
  <1> HIDE DEF f
  <1>5. stack' \in [Threads -> Seq(Frames)] /\ StackInv'
    BY <1>1, <1>3, <1>4, TopMoves
  <1>6. Typed'
    BY <1>1, <1>5 DEF GuardInv, Typed
  <1> QED
    BY <1>5, <1>6 DEF GuardInv

LEMMA ReturnKeeps ==
    ASSUME GuardInv, NEW t \in Threads, Return(t) PROVE GuardInv'
  <1>1. /\ stack[t] # <<>> /\ Top(t).pc = "return"
        /\ depth' = [depth EXCEPT ![Top(t).layer][t] = @ - 1]
        /\ stack' = [stack EXCEPT ![t] = With(t, [Top(t) EXCEPT !.pc = "leave"])]
        /\ UNCHANGED <<scopes, inLocalScope, current, reached>>
    BY DEF Return, At
  <1>2. Top(t) \in Frames
    BY <1>1, TopTyped DEF GuardInv
  <1> DEFINE f == [Top(t) EXCEPT !.pc = "leave"]
  <1>3. /\ f \in Frames /\ f.role = Top(t).role /\ f.local = Top(t).local
        /\ f.layer = Top(t).layer /\ f.op = Top(t).op /\ f.prev = Top(t).prev
        /\ f.pc = "leave"
    BY <1>2 DEF Frames
  <1>4. stack' = [stack EXCEPT ![t] = With(t, f)]
    BY <1>1
  <1> HIDE DEF f
  <1>5. /\ stack' \in [Threads -> Seq(Frames)] /\ depth' \in [Layers -> [Threads -> Nat]]
        /\ StackInv'
    BY <1>1, <1>3, <1>4, TopMoves
  <1>6. Typed'
    BY <1>1, <1>5 DEF GuardInv, Typed
  <1> QED
    BY <1>5, <1>6 DEF GuardInv

(* Within a capture's own scope nothing is forwarded, so that the frame    *)
(* that forwards is not a capture's.                                       *)
LEMMA LocalKept ==
    ASSUME GuardInv, NEW t \in Threads, stack[t] # <<>>, Top(t).local
    PROVE  inLocalScope[t] /\ Top(t).layer = "dotnet" /\ Len(stack[t]) = 1
  <1> DEFINE s == stack[t]
             n == Len(s)
             top == Top(t)
             dn == depth["native"][t]
             dd == depth["dotnet"][t]
             loc == inLocalScope[t]
  <1>1. Good(s, dn, dd, loc)
    BY DEF GuardInv, StackInv
  <1>2. n \in Nat \ {0} /\ top = s[n] /\ n \in 1 .. n /\ top.local
    BY TopTyped DEF GuardInv
  <1> HIDE DEF s, n, top, dn, dd, loc
  <1>3. n \in {1, 2, 3} /\ Sound(top)
    BY <1>1, <1>2 DEF Good, n
  <1>4. n # 2
    <2> SUFFICES ASSUME Len(s) = 2, s[2] = top PROVE FALSE
      BY <1>2 DEF n
    <2> QED
      BY <1>1, <1>2, <1>3 DEF Good, Above, Sound
  <1>5. n # 3
    <2> SUFFICES ASSUME Len(s) = 3, s[3] = top PROVE FALSE
      BY <1>2 DEF n
    <2> QED
      BY <1>1, <1>2, <1>3 DEF Good, Above, Sound
  <1>6. n = 1
    BY <1>3, <1>4, <1>5
  <1>7. loc
    BY <1>1, <1>2, <1>6 DEF Good, n
  <1> QED
    BY <1>3, <1>2, <1>6, <1>7 DEF Sound, loc, n, top, s

LEMMA ForwardKeeps ==
    ASSUME GuardInv, NEW t \in Threads, Forward(t) PROVE GuardInv'
  <1>1. /\ stack[t] # <<>> /\ Top(t).pc = "observe" /\ Forwards(t)
        /\ depth' = [l \in Layers |-> [depth[l] EXCEPT ![t] = @ + 1]]
        /\ stack' = [stack EXCEPT ![t] = Append(With(t, [Top(t) EXCEPT !.pc = "return"]),
                                                Frame(Other(Top(t).layer), Top(t).op, "forward"))]
        /\ UNCHANGED <<scopes, inLocalScope, current, reached>>
    BY DEF Forward, At
  <1>2. Top(t) \in Frames
    BY <1>1, TopTyped DEF GuardInv
  <1>3. depth[Top(t).layer][t] = 0
    BY <1>1, <1>2 DEF Forwards, IsSyncing, GuardInv, Typed, Frames
  <1>4. ~Top(t).local
    <2> SUFFICES ASSUME Top(t).local PROVE FALSE
      BY <1>2
    <2>1. inLocalScope[t] /\ Top(t).layer = "dotnet"
      BY <1>1, LocalKept
    <2> QED
      BY <1>1, <2>1 DEF Forwards
  <1> DEFINE f == [Top(t) EXCEPT !.pc = "return"]
             g == Frame(Other(Top(t).layer), Top(t).op, "forward")
  <1>5. f \in Frames
    BY <1>2 DEF Frames
  <1>6. Other(Top(t).layer) \in Layers
    BY DEF Other, Layers
  <1>7. /\ g \in Frames /\ g.role = "forward" /\ g.layer = Other(Top(t).layer)
        /\ g.op = Top(t).op /\ ~g.local /\ g.pc = "apply"
    BY <1>2, <1>6 DEF Frame, Frames
  <1>8. f = [Top(t) EXCEPT !.pc = "return"] /\ stack' = [stack EXCEPT ![t] = Append(With(t, f), g)]
    BY <1>1
  <1> HIDE DEF f, g
  <1>9. /\ stack' \in [Threads -> Seq(Frames)] /\ depth' \in [Layers -> [Threads -> Nat]]
        /\ StackInv'
    BY <1>1, <1>3, <1>4, <1>5, <1>7, <1>8, TopForwards
  <1>10. Typed'
    BY <1>1, <1>9 DEF GuardInv, Typed
  <1> QED
    BY <1>9, <1>10 DEF GuardInv

LEMMA LeaveKeeps ==
    ASSUME GuardInv, NEW t \in Threads, Leave(t) PROVE GuardInv'
  <1>1. /\ stack[t] # <<>> /\ Top(t).pc = "leave"
        /\ depth' = Released(t)
        /\ inLocalScope' = [inLocalScope EXCEPT ![t] = IF Top(t).local THEN Top(t).prev ELSE @]
        /\ stack' = [stack EXCEPT ![t] = SubSeq(@, 1, Len(@) - 1)]
        /\ current' = [current EXCEPT ![t] = IF Len(stack[t]) = 1 THEN None ELSE @]
        /\ reached' = [reached EXCEPT ![t] = IF Len(stack[t]) = 1 THEN {} ELSE @]
        /\ scopes' = scopes
    BY DEF Leave, At
  <1>2. Top(t) \in Frames
    BY <1>1, TopTyped DEF GuardInv
  <1>3. /\ stack' \in [Threads -> Seq(Frames)] /\ depth' \in [Layers -> [Threads -> Nat]]
        /\ StackInv'
    BY <1>1, TopLeaves
  <1>4. inLocalScope' \in [Threads -> BOOLEAN]
    BY <1>1, <1>2 DEF GuardInv, Typed, Frames
  <1>5. current' \in [Threads -> AllOps \cup {None}] /\ reached' \in [Threads -> SUBSET Layers]
    BY <1>1 DEF GuardInv, Typed
  <1>6. Typed'
    BY <1>1, <1>3, <1>4, <1>5 DEF GuardInv, Typed
  <1> QED
    BY <1>3, <1>6 DEF GuardInv

THEOREM GuardNext == ASSUME ScopeSyncAssumption, GuardInv, [Next]_vars PROVE GuardInv'
  <1>1. CASE UNCHANGED vars
    BY <1>1 DEF vars, GuardInv, Typed, StackInv
  <1>2. CASE Next
    <2>1. PICK t \in Threads :
              \/ Call(t) \/ Capture(t) \/ BeforeSend(t) \/ BeforeBreadcrumb(t)
              \/ Apply(t) \/ Forward(t) \/ Ignore(t) \/ Return(t) \/ Leave(t)
      BY <1>2 DEF Next
    <2>2. Call(t) \/ Capture(t) \/ Apply(t) => GuardInv'
      BY CallKeeps, CaptureKeeps, ApplyKeeps
    <2>3. BeforeSend(t) \/ BeforeBreadcrumb(t) => GuardInv'
      BY BeforeSendKeeps, BeforeBreadcrumbKeeps
    <2>4. Forward(t) \/ Ignore(t) \/ Return(t) \/ Leave(t) => GuardInv'
      BY ForwardKeeps, IgnoreKeeps, ReturnKeeps, LeaveKeeps
    <2> QED
      BY <2>1, <2>2, <2>3, <2>4
  <1> QED
    BY <1>1, <1>2

THEOREM GuardInvariant == ASSUME ScopeSyncAssumption PROVE Spec => []GuardInv
  <1>1. Init => GuardInv
    BY GuardInit
  <1>2. GuardInv /\ [Next]_vars => GuardInv'
    BY GuardNext
  <1> QED
    BY <1>1, <1>2, PTL DEF Spec

(* No call, capture or callback leaves a guard of its thread held          *)
(* (SyncGuard, LocalScopeGuard), so that the thread's next change is       *)
(* forwarded again; whatever the other threads do meanwhile.               *)
THEOREM GuardsAreReleased ==
    ASSUME ScopeSyncAssumption PROVE Spec => [](TypeOK /\ GuardsReleased)
  <1>1. GuardInv => TypeOK
    <2> SUFFICES ASSUME GuardInv PROVE TypeOK
      OBVIOUS
    <2>1. \A l \in Layers : scopes[l].user \in Values \cup {None} /\ scopes[l].crumbs \in Nat
      BY DEF GuardInv, Typed, ScopeRecord
    <2>2. depth \in [Layers -> [Threads -> Nat]]
      BY DEF GuardInv, Typed
    <2>3. \A t \in Threads : Len(stack[t]) <= 3
      BY DEF GuardInv, StackInv, Good
    <2> QED
      BY <2>1, <2>2, <2>3 DEF TypeOK
  <1>2. GuardInv => GuardsReleased
    <2> SUFFICES ASSUME GuardInv, NEW t \in Threads, stack[t] = <<>>
                 PROVE  ~inLocalScope[t] /\ \A l \in Layers : depth[l][t] = 0
      BY DEF GuardsReleased
    <2>1. Len(stack[t]) = 0
      OBVIOUS
    <2> QED
      BY <2>1 DEF GuardInv, StackInv, Good, Layers
  <1>3. Spec => []GuardInv
    BY GuardInvariant
  <1> QED
    BY <1>1, <1>2, <1>3, PTL

-----------------------------------------------------------------------------
(* Without callbacks a thread's frames tell which layers its operation has *)
(* been applied to: done.                                                  *)
Follows(t, s, op, done) ==
    /\ \A i \in 1 .. Len(s) : s[i].role # "callback"
    /\ Len(s) = 0 \/ s[1].local => op = None /\ done = {}
    /\ Len(s) # 0 /\ ~s[1].local =>
          /\ op = s[1].op /\ op \in OpsOf("dotnet", t)
          /\ s[1].layer = "native" => op.kind # "set_trace"
          /\ Len(s) = 1 => done = IF s[1].pc = "apply" THEN {}
                                  ELSE IF s[1].pc = "observe" THEN {s[1].layer} ELSE Layers
          /\ Len(s) = 2 => done = IF s[2].pc = "apply" THEN {s[1].layer} ELSE Layers

ProgressInv == \A t \in Threads : Follows(t, stack[t], current[t], reached[t])

(* What a step shows of the operations: one begins, is applied in a layer  *)
(* it has not reached, or ends when it has reached both.                   *)
Begins(t) == \E op \in OpsOf("dotnet", t) :
    /\ current[t] = None /\ reached[t] = {}
    /\ current' = [current EXCEPT ![t] = op] /\ reached' = [reached EXCEPT ![t] = {}]
    /\ scopes' = scopes

Applies(t) == \E layer \in Layers :
    /\ current[t] \in OpsOf("dotnet", t) /\ layer \notin reached[t]
    /\ scopes' = [scopes EXCEPT ![layer] = Applied(@, current[t])]
    /\ reached' = [reached EXCEPT ![t] = @ \cup {layer}] /\ current' = current

Ends(t) ==
    /\ current[t] \in OpsOf("dotnet", t) /\ reached[t] = Layers
    /\ current' = [current EXCEPT ![t] = None] /\ reached' = [reached EXCEPT ![t] = {}]
    /\ scopes' = scopes

Quiet == UNCHANGED <<scopes, current, reached>>

LEMMA FramesOf ==
    ASSUME GuardInv, ProgressInv, NEW t \in Threads, stack[t] # <<>>
    PROVE  /\ Top(t) \in Frames
           /\ \/ /\ Len(stack[t]) = 1 /\ Top(t) = stack[t][1] /\ Top(t).role = "call"
                 /\ inLocalScope[t] <=> Top(t).local
                 /\ Top(t).pc # "return" =>
                        depth["native"][t] = 0 /\ depth["dotnet"][t] = 0
              \/ /\ Len(stack[t]) = 2 /\ Top(t) = stack[t][2] /\ Top(t).role = "forward"
                 /\ ~Top(t).local /\ Top(t).pc # "return"
                 /\ stack[t][1] \in Frames /\ ~stack[t][1].local /\ stack[t][1].pc = "return"
                 /\ Top(t).layer = Other(stack[t][1].layer) /\ Top(t).op = stack[t][1].op
                 /\ depth["native"][t] = 1 /\ depth["dotnet"][t] = 1
  <1> DEFINE s == stack[t]
             n == Len(s)
             top == Top(t)
             dn == depth["native"][t]
             dd == depth["dotnet"][t]
             loc == inLocalScope[t]
  <1>1. Good(s, dn, dd, loc) /\ Follows(t, s, current[t], reached[t])
    BY DEF GuardInv, StackInv, ProgressInv
  <1>2. n \in Nat \ {0} /\ top = s[n] /\ n \in 1 .. n /\ top \in Frames /\ s \in Seq(Frames)
    BY TopTyped DEF GuardInv, Typed
  <1> HIDE DEF s, n, top, dn, dd, loc
  <1>3. n \in {1, 2, 3} /\ Sound(top)
    BY <1>1, <1>2 DEF Good, n
  <1>4. n # 3
    <2> SUFFICES ASSUME Len(s) = 3 PROVE FALSE
      BY DEF n
    <2>1. 2 \in 1 .. Len(s) /\ 3 \in 1 .. Len(s)
      OBVIOUS
    <2>2. s[2].role # "callback" /\ s[3].role # "callback"
      BY <1>1, <2>1 DEF Follows
    <2> QED
      BY <1>1, <2>2 DEF Good, Above
  <1>5. CASE n = 1
    <2>1. Len(s) = 1 /\ s[1] = top
      BY <1>2, <1>5 DEF n
    <2>2. top.role = "call" /\ (loc <=> top.local) /\ (top.pc # "return" => dn = 0 /\ dd = 0)
      BY <1>1, <2>1 DEF Good, Held
    <2> QED
      BY <1>2, <2>1, <2>2 DEF s, top, dn, dd, loc
  <1>6. CASE n = 2
    <2>0. Len(s) = 2 /\ s[2] = top
      BY <1>2, <1>6 DEF n
    <2>1. /\ Len(s) = 2 /\ s[2] = top /\ 1 \in 1 .. Len(s) /\ 2 \in 1 .. Len(s)
          /\ s[1] \in Frames
      BY <1>2, <2>0
    <2>2. Above(s[1], top) /\ top.role # "callback" /\ Sound(s[1])
      BY <1>1, <2>1 DEF Good, Follows
    <2>3. /\ top.role = "forward" /\ s[1].pc = "return" /\ top.layer = Other(s[1].layer)
          /\ top.op = s[1].op
      BY <2>2 DEF Above
    <2>4. dn = 1 /\ dd = 1
      BY <1>1, <2>1, <2>3 DEF Good
    <2>5. ~top.local /\ top.pc # "return" /\ ~s[1].local
      BY <1>3, <2>2, <2>3 DEF Sound
    <2> QED
      BY <1>2, <2>1, <2>3, <2>4, <2>5 DEF s, top, dn, dd
  <1> QED
    BY <1>3, <1>4, <1>5, <1>6

LEMMA OthersFollow ==
    ASSUME ProgressInv, NEW t \in Threads,
           \A u \in Threads : u # t =>
               stack'[u] = stack[u] /\ current'[u] = current[u] /\ reached'[u] = reached[u],
           Follows(t, stack'[t], current'[t], reached'[t])
    PROVE  ProgressInv'
  <1> SUFFICES ASSUME NEW u \in Threads
               PROVE  Follows(u, stack'[u], current'[u], reached'[u])
    BY DEF ProgressInv
  <1>1. CASE u = t
    BY <1>1
  <1>2. CASE u # t
    BY <1>2 DEF ProgressInv
  <1> QED
    BY <1>1, <1>2

LEMMA CallProgress ==
    ASSUME GuardInv, ProgressInv, NEW t \in Threads, Call(t) PROVE ProgressInv' /\ Begins(t)
  <1>0. PICK layer \in Layers : \E op \in OpsOf(layer, t) :
            /\ stack[t] = <<>>
            /\ stack' = [stack EXCEPT ![t] = <<Frame(layer, op, "call")>>]
            /\ current' = [current EXCEPT ![t] = op] /\ reached' = [reached EXCEPT ![t] = {}]
            /\ UNCHANGED <<scopes, depth, inLocalScope>>
    BY DEF Call
  <1>1. PICK op \in OpsOf(layer, t) :
            /\ stack[t] = <<>>
            /\ stack' = [stack EXCEPT ![t] = <<Frame(layer, op, "call")>>]
            /\ current' = [current EXCEPT ![t] = op] /\ reached' = [reached EXCEPT ![t] = {}]
            /\ UNCHANGED <<scopes, depth, inLocalScope>>
    BY <1>0
  <1>2. op \in OpsOf("dotnet", t) /\ (layer = "native" => op.kind # "set_trace")
    BY NativeOps
  <1>3. current[t] = None /\ reached[t] = {}
    <2>1. Len(stack[t]) = 0
      BY <1>1
    <2> QED
      BY <2>1 DEF ProgressInv, Follows
  <1>4. Begins(t)
    BY <1>1, <1>2, <1>3 DEF Begins
  <1> DEFINE f == Frame(layer, op, "call")
             z == stack'[t]
  <1>5. f.layer = layer /\ f.op = op /\ f.role = "call" /\ ~f.local /\ f.pc = "apply"
    BY DEF Frame
  <1>6. z = <<f>> /\ current'[t] = op /\ reached'[t] = {}
    BY <1>1 DEF GuardInv, Typed
  <1>7. Len(z) = 1 /\ z[1] = f
    BY <1>6
  <1> HIDE DEF f, z
  <1>8. Follows(t, z, op, {})
    BY <1>2, <1>5, <1>7 DEF Follows
  <1>9. \A u \in Threads : u # t =>
            stack'[u] = stack[u] /\ current'[u] = current[u] /\ reached'[u] = reached[u]
    BY <1>1 DEF GuardInv, Typed
  <1> QED
    BY <1>4, <1>6, <1>8, <1>9, OthersFollow DEF z

LEMMA CaptureProgress ==
    ASSUME GuardInv, ProgressInv, NEW t \in Threads, Capture(t) PROVE ProgressInv' /\ Quiet
  <1>1. PICK op \in OpsOf("dotnet", t) :
            /\ stack[t] = <<>>
            /\ stack' = [stack EXCEPT ![t] = <<[Frame("dotnet", op, "call") EXCEPT
                                                 !.local = TRUE, !.prev = inLocalScope[t]]>>]
            /\ UNCHANGED <<scopes, depth, current, reached>>
    BY DEF Capture
  <1>2. current[t] = None /\ reached[t] = {}
    <2>1. Len(stack[t]) = 0
      BY <1>1
    <2> QED
      BY <2>1 DEF ProgressInv, Follows
  <1> DEFINE f == [Frame("dotnet", op, "call") EXCEPT !.local = TRUE, !.prev = inLocalScope[t]]
             z == stack'[t]
  <1>3. f.role = "call" /\ f.local
    BY DEF Frame
  <1>4. z = <<f>> /\ current'[t] = None /\ reached'[t] = {}
    BY <1>1, <1>2 DEF GuardInv, Typed
  <1>5. Len(z) = 1 /\ z[1] = f
    BY <1>4
  <1> HIDE DEF f, z
  <1>6. Follows(t, z, None, {})
    BY <1>3, <1>5 DEF Follows
  <1>7. \A u \in Threads : u # t =>
            stack'[u] = stack[u] /\ current'[u] = current[u] /\ reached'[u] = reached[u]
    BY <1>1 DEF GuardInv, Typed
  <1> QED
    BY <1>1, <1>4, <1>6, <1>7, OthersFollow DEF z, Quiet

(* The top frame goes on from one place to another.                        *)
LEMMA TopStep ==
    ASSUME GuardInv, NEW t \in Threads, stack[t] # <<>>, NEW pc \in {"observe", "leave"},
           stack' = [stack EXCEPT ![t] = With(t, [Top(t) EXCEPT !.pc = pc])]
    PROVE  LET z == stack'[t]
               n == Len(stack[t])
           IN  /\ Len(z) = n
               /\ z[n].role = Top(t).role /\ z[n].local = Top(t).local
               /\ z[n].layer = Top(t).layer /\ z[n].op = Top(t).op /\ z[n].pc = pc
               /\ \A i \in 1 .. n : i # n => z[i] = stack[t][i]
               /\ \A u \in Threads : u # t => stack'[u] = stack[u]
  <1>1. Top(t) \in Frames /\ stack \in [Threads -> Seq(Frames)]
    BY TopTyped DEF GuardInv, Typed
  <1> DEFINE f == [Top(t) EXCEPT !.pc = pc]
             z == stack'[t]
             n == Len(stack[t])
  <1>2. /\ f \in Frames /\ f.role = Top(t).role /\ f.local = Top(t).local
        /\ f.layer = Top(t).layer /\ f.op = Top(t).op /\ f.pc = pc
    BY <1>1 DEF Frames
  <1>3. z = With(t, f) /\ \A u \in Threads : u # t => stack'[u] = stack[u]
    BY <1>1
  <1> HIDE DEF f, z
  <1>4. Len(z) = n /\ z[n] = f /\ \A i \in 1 .. n : i # n => z[i] = stack[t][i]
    BY <1>2, <1>3, WithTyped DEF GuardInv
  <1> QED
    BY <1>2, <1>3, <1>4 DEF z

LEMMA ApplyProgress ==
    ASSUME GuardInv, ProgressInv, NEW t \in Threads, Apply(t)
    PROVE  ProgressInv' /\ (Applies(t) \/ Quiet)
  <1>0. "observe" \in {"observe", "leave"} /\ "native" # "dotnet"
    OBVIOUS
  <1>1. /\ stack[t] # <<>> /\ Top(t).pc = "apply"
        /\ scopes' = IF Top(t).local THEN scopes
                     ELSE [scopes EXCEPT ![Top(t).layer] = Applied(@, Top(t).op)]
        /\ stack' = [stack EXCEPT ![t] = With(t, [Top(t) EXCEPT !.pc = "observe"])]
        /\ reached' = IF Top(t).local \/ Top(t).role = "callback" THEN reached
                      ELSE [reached EXCEPT ![t] = @ \cup {Top(t).layer}]
        /\ current' = current
    BY DEF Apply, At
  <1>2. reached \in [Threads -> SUBSET Layers] /\ stack[t] \in Seq(Frames)
    BY DEF GuardInv, Typed
  <1> DEFINE s == stack[t]
             z == stack'[t]
             n == Len(s)
             top == Top(t)
             op == current[t]
             done == reached[t]
  <1>3. /\ Len(z) = n
        /\ z[n].role = top.role /\ z[n].local = top.local
        /\ z[n].layer = top.layer /\ z[n].op = top.op /\ z[n].pc = "observe"
        /\ \A i \in 1 .. n : i # n => z[i] = s[i]
        /\ \A u \in Threads : u # t => stack'[u] = stack[u]
    BY <1>0, <1>1, TopStep
  <1>4. Follows(t, s, op, done)
    BY DEF ProgressInv
  <1>5. /\ top \in Frames
        /\ \/ n = 1 /\ top = s[1] /\ top.role = "call"
           \/ /\ n = 2 /\ top = s[2] /\ top.role = "forward" /\ ~top.local
              /\ s[1] \in Frames /\ ~s[1].local /\ s[1].pc = "return"
              /\ top.layer = Other(s[1].layer) /\ top.op = s[1].op
    BY <1>1, FramesOf
  <1>6. /\ top.pc = "apply" /\ current' = current
        /\ IF top.local \/ top.role = "callback" THEN reached' = reached
           ELSE reached' = [reached EXCEPT ![t] = done \cup {top.layer}]
        /\ IF top.local THEN scopes' = scopes
           ELSE scopes' = [scopes EXCEPT ![top.layer] = Applied(@, top.op)]
        /\ current'[t] = op
    BY <1>1
  <1>7. \A u \in Threads : u # t =>
            stack'[u] = stack[u] /\ current'[u] = current[u] /\ reached'[u] = reached[u]
    BY <1>1, <1>2, <1>3
  <1> SUFFICES Follows(t, z, op, reached'[t]) /\ (Applies(t) \/ Quiet)
    BY <1>6, <1>7, OthersFollow
  <1> HIDE DEF s, z, n, top, op, done
  <1>8. top.layer \in Layers
    BY <1>5 DEF Frames
  <1>9. CASE n = 1
    <2>1. /\ Len(s) = 1 /\ Len(z) = 1 /\ s[1] = top /\ top.role = "call"
          /\ z[1].role = top.role /\ z[1].local = top.local
          /\ z[1].layer = top.layer /\ z[1].op = top.op /\ z[1].pc = "observe"
      BY <1>3, <1>5, <1>9 DEF n
    <2>2. \A i \in 1 .. Len(z) : z[i].role # "callback"
      BY <2>1
    <2>3. CASE top.local
      <3>1. op = None /\ done = {} /\ reached' = reached
        BY <1>4, <1>6, <2>1, <2>3 DEF Follows
      <3>2. Follows(t, z, op, done)
        BY <2>1, <2>2, <2>3, <3>1 DEF Follows
      <3> QED
        BY <1>6, <2>3, <3>1, <3>2 DEF Quiet, done
    <2>4. CASE ~top.local
      <3>1. /\ op = top.op /\ op \in OpsOf("dotnet", t) /\ done = {}
            /\ top.layer = "native" => op.kind # "set_trace"
        BY <1>4, <1>6, <2>1, <2>4 DEF Follows
      <3>2. reached' = [reached EXCEPT ![t] = done \cup {top.layer}] /\ reached'[t] = {top.layer}
        BY <1>2, <1>6, <2>1, <2>4, <3>1
      <3>3. Follows(t, z, op, {top.layer})
        BY <2>1, <2>2, <2>4, <3>1 DEF Follows
      <3>4. Applies(t)
        BY <1>6, <1>8, <2>4, <3>1, <3>2 DEF Applies, op, done
      <3> QED
        BY <3>2, <3>3, <3>4
    <2> QED
      BY <2>3, <2>4
  <1>10. CASE n = 2
    <2>1. /\ Len(s) = 2 /\ Len(z) = 2 /\ s[2] = top /\ top.role = "forward" /\ ~top.local
          /\ s[1] \in Frames /\ ~s[1].local /\ s[1].pc = "return"
          /\ top.layer = Other(s[1].layer) /\ top.op = s[1].op
          /\ z[1] = s[1] /\ z[2].pc = "observe" /\ z[2].role = top.role
      BY <1>3, <1>5, <1>10 DEF n
    <2>2. \A i \in 1 .. Len(z) : z[i].role # "callback"
      BY <1>4, <2>1 DEF Follows
    <2>3. /\ op = top.op /\ op \in OpsOf("dotnet", t) /\ done = {s[1].layer}
          /\ s[1].layer = "native" => op.kind # "set_trace"
      BY <1>4, <1>6, <2>1 DEF Follows
    <2>4. top.layer \notin done /\ done \cup {top.layer} = Layers
      BY <1>0, <2>1, <2>3 DEF Other, Frames, Layers
    <2>5. reached' = [reached EXCEPT ![t] = done \cup {top.layer}] /\ reached'[t] = Layers
      BY <1>2, <1>6, <2>1, <2>4
    <2>6. Follows(t, z, op, Layers)
      BY <2>1, <2>2, <2>3 DEF Follows
    <2>7. Applies(t)
      BY <1>6, <1>8, <2>1, <2>3, <2>4, <2>5 DEF Applies, op, done
    <2> QED
      BY <2>5, <2>6, <2>7
  <1> QED
    BY <1>5, <1>9, <1>10

LEMMA IgnoreProgress ==
    ASSUME GuardInv, ProgressInv, NEW t \in Threads, Ignore(t)
    PROVE  ProgressInv' /\ Quiet
  <1>0. "leave" \in {"observe", "leave"}
    OBVIOUS
  <1>1. /\ stack[t] # <<>> /\ Top(t).pc = "observe" /\ ~Forwards(t)
        /\ stack' = [stack EXCEPT ![t] = With(t, [Top(t) EXCEPT !.pc = "leave"])]
        /\ UNCHANGED <<scopes, current, reached>>
    BY DEF Ignore, At
  <1> DEFINE s == stack[t]
             z == stack'[t]
             n == Len(s)
             top == Top(t)
             op == current[t]
             done == reached[t]
  <1>2. /\ Len(z) = n
        /\ z[n].role = top.role /\ z[n].local = top.local
        /\ z[n].layer = top.layer /\ z[n].op = top.op /\ z[n].pc = "leave"
        /\ \A i \in 1 .. n : i # n => z[i] = s[i]
        /\ \A u \in Threads : u # t => stack'[u] = stack[u]
    BY <1>0, <1>1, TopStep
  <1>3. Follows(t, s, op, done)
    BY DEF ProgressInv
  <1>4. /\ top \in Frames
        /\ \/ /\ n = 1 /\ top = s[1] /\ top.role = "call" /\ (inLocalScope[t] <=> top.local)
              /\ depth["native"][t] = 0 /\ depth["dotnet"][t] = 0
           \/ n = 2 /\ top = s[2] /\ top.role = "forward" /\ ~s[1].local
    BY <1>1, FramesOf
  <1>5. n = 1 => top.local
    <2> SUFFICES ASSUME n = 1, ~top.local PROVE FALSE
      BY <1>4
    <2>1. ~inLocalScope[t] /\ ~IsSyncing(top.layer, t)
      BY <1>4 DEF IsSyncing, Frames, Layers
    <2>2. top.layer = "native" => top.op.kind # "set_trace"
      BY <1>3, <1>4 DEF Follows
    <2> QED
      BY <1>1, <2>1, <2>2 DEF Forwards
  <1> SUFFICES Follows(t, z, op, done)
    BY <1>1, <1>2, OthersFollow DEF Quiet
  <1>6. top.pc = "observe"
    BY <1>1
  <1> HIDE DEF s, z, n, top, op, done
  <1>7. CASE n = 1
    <2>1. /\ Len(s) = 1 /\ Len(z) = 1 /\ s[1] = top /\ top.local /\ top.role = "call"
          /\ z[1].role = top.role /\ z[1].local
      BY <1>2, <1>4, <1>5, <1>7 DEF n
    <2> QED
      BY <1>3, <2>1 DEF Follows
  <1>8. CASE n = 2
    <2>1. /\ Len(s) = 2 /\ Len(z) = 2 /\ s[2] = top /\ top.role = "forward" /\ ~s[1].local
          /\ z[1] = s[1] /\ z[2].pc = "leave" /\ z[2].role = top.role
      BY <1>2, <1>4, <1>8 DEF n
    <2> QED
      BY <1>3, <1>6, <2>1 DEF Follows
  <1> QED
    BY <1>4, <1>7, <1>8

LEMMA ReturnProgress ==
    ASSUME GuardInv, ProgressInv, NEW t \in Threads, Return(t)
    PROVE  ProgressInv' /\ Quiet
  <1>0. "leave" \in {"observe", "leave"}
    OBVIOUS
  <1>1. /\ stack[t] # <<>> /\ Top(t).pc = "return"
        /\ stack' = [stack EXCEPT ![t] = With(t, [Top(t) EXCEPT !.pc = "leave"])]
        /\ UNCHANGED <<scopes, current, reached>>
    BY DEF Return, At
  <1> DEFINE s == stack[t]
             z == stack'[t]
             n == Len(s)
             top == Top(t)
             op == current[t]
             done == reached[t]
  <1>2. /\ Len(z) = n
        /\ z[n].role = top.role /\ z[n].local = top.local
        /\ z[n].layer = top.layer /\ z[n].op = top.op /\ z[n].pc = "leave"
        /\ \A u \in Threads : u # t => stack'[u] = stack[u]
    BY <1>0, <1>1, TopStep
  <1>3. Follows(t, s, op, done)
    BY DEF ProgressInv
  <1>4. n = 1 /\ top = s[1] /\ top.role = "call"
    BY <1>1, FramesOf
  <1> SUFFICES Follows(t, z, op, done)
    BY <1>1, <1>2, OthersFollow DEF Quiet
  <1>5. top.pc = "return"
    BY <1>1
  <1> HIDE DEF s, z, n, top, op, done
  <1>6. /\ Len(s) = 1 /\ Len(z) = 1 /\ s[1] = top /\ top.role = "call"
        /\ z[1].role = top.role /\ z[1].local = top.local
        /\ z[1].layer = top.layer /\ z[1].op = top.op /\ z[1].pc = "leave"
    BY <1>2, <1>4 DEF n
  <1> QED
    BY <1>3, <1>5, <1>6 DEF Follows

LEMMA ForwardProgress ==
    ASSUME GuardInv, ProgressInv, NEW t \in Threads, Forward(t)
    PROVE  ProgressInv' /\ Quiet
  <1>1. /\ stack[t] # <<>> /\ Top(t).pc = "observe" /\ Forwards(t)
        /\ stack' = [stack EXCEPT ![t] = Append(With(t, [Top(t) EXCEPT !.pc = "return"]),
                                                Frame(Other(Top(t).layer), Top(t).op, "forward"))]
        /\ UNCHANGED <<scopes, inLocalScope, current, reached>>
    BY DEF Forward, At
  <1>2. stack \in [Threads -> Seq(Frames)]
    BY DEF GuardInv, Typed
  <1> DEFINE s == stack[t]
             z == stack'[t]
             n == Len(s)
             top == Top(t)
             op == current[t]
             done == reached[t]
  <1>3. Follows(t, s, op, done)
    BY DEF ProgressInv
  <1>4. top \in Frames /\ n = 1 /\ top = s[1] /\ top.role = "call"
    BY <1>1, FramesOf DEF Forwards, IsSyncing, Frames, Layers
  <1>5. ~top.local
    BY <1>1, <1>4, LocalKept DEF Forwards, Frames
  <1> DEFINE f == [top EXCEPT !.pc = "return"]
             g == Frame(Other(top.layer), top.op, "forward")
             w == With(t, f)
  <1>6. /\ f \in Frames /\ f.role = top.role /\ f.local = top.local /\ f.layer = top.layer
        /\ f.op = top.op /\ f.pc = "return"
        /\ g \in Frames /\ g.role = "forward" /\ g.pc = "apply"
    <2>1. Other(top.layer) \in Layers
      BY DEF Other, Layers
    <2> QED
      BY <1>4, <2>1 DEF Frame, Frames
  <1>7. z = Append(w, g) /\ \A u \in Threads : u # t => stack'[u] = stack[u]
    BY <1>1, <1>2
  <1> SUFFICES Follows(t, z, op, done)
    BY <1>1, <1>7, OthersFollow DEF Quiet
  <1> HIDE DEF f, g
  <1>8. w \in Seq(Frames) /\ Len(w) = n /\ w[n] = f
    BY <1>1, <1>6, WithTyped DEF GuardInv
  <1>9. top.pc = "observe"
    BY <1>1
  <1> HIDE DEF s, z, n, top, op, done, w
  <1>10. Len(w) = 1 /\ w[1] = f /\ Len(s) = 1 /\ s[1] = top
    BY <1>4, <1>8 DEF n
  <1>11. Len(z) = 2 /\ z[1] = f /\ z[2] = g
    <2>1. z = Append(w, g) /\ w \in Seq(Frames) /\ g \in Frames
      BY <1>6, <1>7, <1>8
    <2>2. Len(z) = Len(w) + 1 /\ z[Len(w) + 1] = g /\ \A i \in 1 .. Len(w) : z[i] = w[i]
      BY <2>1
    <2> QED
      BY <1>10, <2>2
  <1> QED
    BY <1>3, <1>4, <1>5, <1>6, <1>9, <1>10, <1>11 DEF Follows

LEMMA LeaveProgress ==
    ASSUME GuardInv, ProgressInv, NEW t \in Threads, Leave(t)
    PROVE  ProgressInv' /\ (Ends(t) \/ Quiet)
  <1>1. /\ stack[t] # <<>> /\ Top(t).pc = "leave"
        /\ stack' = [stack EXCEPT ![t] = SubSeq(@, 1, Len(@) - 1)]
        /\ current' = [current EXCEPT ![t] = IF Len(stack[t]) = 1 THEN None ELSE @]
        /\ reached' = [reached EXCEPT ![t] = IF Len(stack[t]) = 1 THEN {} ELSE @]
        /\ scopes' = scopes
    BY DEF Leave, At
  <1>2. /\ stack \in [Threads -> Seq(Frames)] /\ reached \in [Threads -> SUBSET Layers]
        /\ current \in [Threads -> AllOps \cup {None}]
    BY DEF GuardInv, Typed
  <1> DEFINE s == stack[t]
             z == stack'[t]
             n == Len(s)
             top == Top(t)
             op == current[t]
             done == reached[t]
  <1>3. Follows(t, s, op, done)
    BY DEF ProgressInv
  <1>4. \/ n = 1 /\ top = s[1] /\ top.role = "call"
        \/ n = 2 /\ top = s[2] /\ top.role = "forward" /\ ~s[1].local /\ s[1].pc = "return"
    BY <1>1, FramesOf
  <1>5. z = SubSeq(s, 1, n - 1) /\ \A u \in Threads : u # t => stack'[u] = stack[u]
    BY <1>1, <1>2
  <1>6. Len(z) = n - 1 /\ \A i \in 1 .. n - 1 : z[i] = s[i]
    <2> HIDE DEF z
    <2> QED
      BY <1>1, <1>5, PopTyped DEF GuardInv
  <1>7. \A u \in Threads : u # t => current'[u] = current[u] /\ reached'[u] = reached[u]
    BY <1>1, <1>2
  <1>8. /\ n = 1 => /\ current'[t] = None /\ reached'[t] = {}
                    /\ current' = [current EXCEPT ![t] = None] /\ reached' = [reached EXCEPT ![t] = {}]
        /\ n = 2 => current' = current /\ reached' = reached
    <2>1. CASE n = 1
      BY <1>1, <1>2, <2>1
    <2>2. CASE n = 2
      <3>1. current' = [current EXCEPT ![t] = @] /\ reached' = [reached EXCEPT ![t] = @]
        BY <1>1, <2>2
      <3> QED
        BY <1>2, <2>2, <3>1
    <2> QED
      BY <1>4, <2>1, <2>2
  <1> SUFFICES Follows(t, z, current'[t], reached'[t]) /\ (Ends(t) \/ Quiet)
    BY <1>5, <1>7, OthersFollow
  <1>9. top.pc = "leave" /\ scopes' = scopes
    BY <1>1
  <1> HIDE DEF s, z, n, top, op, done
  <1>10. CASE n = 1
    <2>1. /\ Len(z) = 0 /\ Len(s) = 1 /\ s[1] = top
      BY <1>4, <1>6, <1>10 DEF n
    <2>2. Follows(t, z, None, {})
      BY <2>1 DEF Follows
    <2>3. CASE top.local
      <3>1. op = None /\ done = {}
        BY <1>3, <2>1, <2>3 DEF Follows
      <3>2. current' = current
        BY <1>2, <1>8, <1>10, <3>1 DEF op
      <3>3. reached' = reached
        BY <1>2, <1>8, <1>10, <3>1 DEF done
      <3> QED
        BY <1>8, <1>9, <1>10, <2>2, <3>2, <3>3 DEF Quiet
    <2>4. CASE ~top.local
      <3>1. op \in OpsOf("dotnet", t) /\ done = Layers
        BY <1>3, <1>9, <2>1, <2>4 DEF Follows
      <3>2. Ends(t)
        BY <1>8, <1>9, <1>10, <3>1 DEF Ends, op, done
      <3> QED
        BY <1>8, <1>10, <2>2, <3>2
    <2> QED
      BY <2>3, <2>4
  <1>11. CASE n = 2
    <2>1. /\ Len(s) = 2 /\ Len(z) = 1 /\ s[2] = top /\ z[1] = s[1] /\ ~s[1].local
          /\ s[1].pc = "return"
      BY <1>4, <1>6, <1>11 DEF n
    <2>2. \A i \in 1 .. Len(z) : z[i].role # "callback"
      BY <1>3, <2>1 DEF Follows
    <2>3. Follows(t, z, op, done)
      BY <1>3, <1>9, <2>1, <2>2 DEF Follows
    <2> QED
      BY <1>8, <1>9, <1>11, <2>3 DEF Quiet, op, done
  <1> QED
    BY <1>4, <1>10, <1>11

THEOREM ProgressInit == Init => ProgressInv
  <1> SUFFICES ASSUME Init, NEW t \in Threads
               PROVE  Follows(t, stack[t], current[t], reached[t])
    BY DEF ProgressInv
  <1>1. Len(stack[t]) = 0 /\ current[t] = None /\ reached[t] = {}
    BY DEF Init
  <1> QED
    BY <1>1 DEF Follows

THEOREM ProgressNext ==
    ASSUME NoCallbacks, GuardInv, ProgressInv, [Next]_vars
    PROVE  /\ ProgressInv'
           /\ Quiet \/ \E t \in Threads : Begins(t) \/ Applies(t) \/ Ends(t)
  <1>1. CASE UNCHANGED vars
    BY <1>1 DEF vars, ProgressInv, Quiet
  <1>2. CASE Next
    <2>1. PICK t \in Threads :
              \/ Call(t) \/ Capture(t) \/ BeforeSend(t) \/ BeforeBreadcrumb(t)
              \/ Apply(t) \/ Forward(t) \/ Ignore(t) \/ Return(t) \/ Leave(t)
      BY <1>2 DEF Next
    <2>2. ~BeforeSend(t) /\ ~BeforeBreadcrumb(t)
      BY DEF NoCallbacks, BeforeSend, BeforeBreadcrumb
    <2>3. Call(t) => ProgressInv' /\ Begins(t)
      BY CallProgress
    <2>4. Capture(t) \/ Forward(t) \/ Ignore(t) \/ Return(t) => ProgressInv' /\ Quiet
      BY CaptureProgress, ForwardProgress, IgnoreProgress, ReturnProgress
    <2>5. Apply(t) => ProgressInv' /\ (Applies(t) \/ Quiet)
      BY ApplyProgress
    <2>6. Leave(t) => ProgressInv' /\ (Ends(t) \/ Quiet)
      BY LeaveProgress
    <2> QED
      BY <2>1, <2>2, <2>3, <2>4, <2>5, <2>6
  <1> QED
    BY <1>1, <1>2

-----------------------------------------------------------------------------
(* Each layer's scope implements ScopeLayer: a step that begins, applies or *)
(* ends an operation does so there, or does nothing there.                 *)
LEMMA PendingBegins ==
    ASSUME ScopeSyncAssumption, GuardInv, NEW layer \in Layers, NEW t \in Threads, Begins(t)
    PROVE  /\ Pending(layer)[t] = None
           /\ \E op \in AllOps :
                (Pending(layer))' = [Pending(layer) EXCEPT ![t] = [op |-> op, applied |-> FALSE]]
  <1>1. PICK op \in OpsOf("dotnet", t) :
            /\ current[t] = None
            /\ current' = [current EXCEPT ![t] = op] /\ reached' = [reached EXCEPT ![t] = {}]
    BY DEF Begins
  <1>2. op \in AllOps /\ op # None
    BY DEF AllOps, ScopeSyncAssumption
  <1>3. /\ \A u \in Threads : u # t => current'[u] = current[u] /\ reached'[u] = reached[u]
        /\ current'[t] = op /\ reached'[t] = {}
    BY <1>1 DEF GuardInv, Typed
  <1> DEFINE r == [op |-> op, applied |-> FALSE]
             p == Pending(layer)
             q == (Pending(layer))'
  <1>4. q = [u \in Threads |-> IF current'[u] = None THEN None
                              ELSE [op |-> current'[u], applied |-> layer \in reached'[u]]]
    BY DEF Pending
  <1>5. q[t] = r
    <2> DEFINE b == layer \in reached'[t]
    <2>1. q[t] = [op |-> op, applied |-> b]
      BY <1>2, <1>3, <1>4
    <2>2. b = FALSE
      BY <1>3
    <2> HIDE DEF b, q
    <2> QED
      BY <2>1, <2>2
  <1>6. ASSUME NEW u \in Threads, u # t PROVE q[u] = p[u]
    BY <1>3, <1>4, <1>6 DEF Pending
  <1>7. q = [u \in Threads |-> q[u]] /\ p = [u \in Threads |-> p[u]]
    BY <1>4 DEF Pending
  <1>8. p[t] = None
    BY <1>1 DEF Pending
  <1> HIDE DEF p, q, r
  <1>9. q = [p EXCEPT ![t] = r]
    BY <1>5, <1>6, <1>7
  <1> QED
    BY <1>2, <1>8, <1>9 DEF p, q, r

LEMMA PendingApplies ==
    ASSUME ScopeSyncAssumption, GuardInv, NEW layer \in Layers, NEW t \in Threads,
           current[t] \in OpsOf("dotnet", t), layer \notin reached[t],
           reached' = [reached EXCEPT ![t] = @ \cup {layer}], current' = current
    PROVE  /\ Pending(layer)[t] # None /\ ~Pending(layer)[t].applied
           /\ Pending(layer)[t].op = current[t]
           /\ (Pending(layer))' = [Pending(layer) EXCEPT ![t].applied = TRUE]
  <1>1. current[t] \in AllOps /\ current[t] # None
    BY DEF AllOps, ScopeSyncAssumption
  <1>2. /\ \A u \in Threads : u # t => current'[u] = current[u] /\ reached'[u] = reached[u]
        /\ current'[t] = current[t] /\ layer \in reached'[t]
    BY DEF GuardInv, Typed
  <1> DEFINE r == [op |-> current[t], applied |-> FALSE]
             a == [op |-> current[t], applied |-> TRUE]
             p == Pending(layer)
             q == (Pending(layer))'
  <1>3. q = [u \in Threads |-> IF current'[u] = None THEN None
                              ELSE [op |-> current'[u], applied |-> layer \in reached'[u]]]
    BY DEF Pending
  <1>4. q[t] = a
    BY <1>1, <1>2, <1>3
  <1>5. p[t] = r
    <2> DEFINE b == layer \in reached[t]
    <2>1. p[t] = [op |-> current[t], applied |-> b]
      BY <1>1 DEF Pending
    <2>2. b = FALSE
      OBVIOUS
    <2> HIDE DEF b, p
    <2> QED
      BY <2>1, <2>2
  <1>6. ASSUME NEW u \in Threads, u # t PROVE q[u] = p[u]
    BY <1>2, <1>3, <1>6 DEF Pending
  <1>7. q = [u \in Threads |-> q[u]] /\ p = [u \in Threads |-> p[u]]
    BY <1>3 DEF Pending
  <1>8. r # None /\ r.applied = FALSE /\ r.op = current[t] /\ [r EXCEPT !.applied = TRUE] = a
    <2>1. r \in [op : AllOps, applied : BOOLEAN]
      BY <1>1
    <2>2. r # None
      BY <2>1 DEF ScopeSyncAssumption
    <2>3. r.applied = FALSE /\ r.op = current[t]
      OBVIOUS
    <2>4. [r EXCEPT !.applied = TRUE] = a
      <3> DEFINE no == FALSE
                 yes == TRUE
      <3> HIDE DEF no, yes
      <3>1. [[op |-> current[t], applied |-> no] EXCEPT !.applied = yes]
                = [op |-> current[t], applied |-> yes]
        OBVIOUS
      <3> QED
        BY <3>1 DEF no, yes
    <2> QED
      BY <2>2, <2>3, <2>4
  <1> HIDE DEF p, q, r, a
  <1>9. q = [p EXCEPT ![t] = a]
    BY <1>4, <1>6, <1>7
  <1>10. q = [p EXCEPT ![t].applied = TRUE]
    BY <1>5, <1>8, <1>9
  <1> QED
    BY <1>5, <1>8, <1>10 DEF p, q

LEMMA PendingEnds ==
    ASSUME ScopeSyncAssumption, GuardInv, NEW layer \in Layers, NEW t \in Threads, Ends(t)
    PROVE  /\ Pending(layer)[t] # None /\ Pending(layer)[t].applied
           /\ (Pending(layer))' = [Pending(layer) EXCEPT ![t] = None]
  <1>1. /\ current[t] \in AllOps /\ current[t] # None /\ layer \in reached[t]
        /\ current' = [current EXCEPT ![t] = None] /\ reached' = [reached EXCEPT ![t] = {}]
    BY DEF Ends, AllOps, ScopeSyncAssumption
  <1>2. /\ \A u \in Threads : u # t => current'[u] = current[u] /\ reached'[u] = reached[u]
        /\ current'[t] = None
    BY <1>1 DEF GuardInv, Typed
  <1> DEFINE a == [op |-> current[t], applied |-> TRUE]
             p == Pending(layer)
             q == (Pending(layer))'
  <1>3. q = [u \in Threads |-> IF current'[u] = None THEN None
                              ELSE [op |-> current'[u], applied |-> layer \in reached'[u]]]
    BY DEF Pending
  <1>4. q[t] = None
    BY <1>2, <1>3
  <1>5. p[t] = a
    BY <1>1 DEF Pending
  <1>6. ASSUME NEW u \in Threads, u # t PROVE q[u] = p[u]
    BY <1>2, <1>3, <1>6 DEF Pending
  <1>7. q = [u \in Threads |-> q[u]] /\ p = [u \in Threads |-> p[u]]
    BY <1>3 DEF Pending
  <1>8. a # None /\ a.applied = TRUE
    <2>1. a \in [op : AllOps, applied : BOOLEAN]
      BY <1>1
    <2>2. a # None
      BY <2>1 DEF ScopeSyncAssumption
    <2> QED
      BY <2>2
  <1> HIDE DEF p, q, a
  <1>9. q = [p EXCEPT ![t] = None]
    BY <1>4, <1>6, <1>7
  <1> QED
    BY <1>5, <1>8, <1>9 DEF p, q

(* What is applied in one layer is not seen in the other.                  *)
LEMMA PendingElsewhere ==
    ASSUME GuardInv, NEW layer \in Layers, NEW other \in Layers, other # layer,
           NEW t \in Threads,
           reached' = [reached EXCEPT ![t] = @ \cup {other}], current' = current
    PROVE  (Pending(layer))' = Pending(layer)
  <1>1. \A u \in Threads : current'[u] = current[u] /\ (layer \in reached'[u] <=> layer \in reached[u])
    BY DEF GuardInv, Typed
  <1> QED
    BY <1>1 DEF Pending

LEMMA NativeStep ==
    ASSUME ScopeSyncAssumption, GuardInv,
           Quiet \/ \E t \in Threads : Begins(t) \/ Applies(t) \/ Ends(t)
    PROVE  [Native!Next]_(Native!vars)
  <1>0. scopes \in [Layers -> ScopeRecord] /\ "native" \in Layers /\ "dotnet" \in Layers
        /\ "native" # "dotnet"
    BY DEF GuardInv, Typed, Layers
  <1>1. CASE Quiet
    BY <1>1 DEF Quiet, Native!vars, Pending
  <1>2. ASSUME NEW t \in Threads, Begins(t) PROVE Native!Begin(t)
    <2>1. scopes' = scopes
      BY <1>2 DEF Begins
    <2> QED
      BY <1>0, <1>2, <2>1, PendingBegins DEF Native!Begin
  <1>3. ASSUME NEW t \in Threads, Applies(t)
        PROVE  Native!Apply(t) \/ UNCHANGED Native!vars
    <2>1. PICK layer \in Layers :
              /\ current[t] \in OpsOf("dotnet", t) /\ layer \notin reached[t]
              /\ scopes' = [scopes EXCEPT ![layer] = Applied(@, current[t])]
              /\ reached' = [reached EXCEPT ![t] = @ \cup {layer}] /\ current' = current
      BY <1>3 DEF Applies
    <2>2. CASE layer = "native"
      <3>1. scopes'["native"] = Applied(scopes["native"], current[t])
        BY <1>0, <2>1, <2>2
      <3>2. /\ Pending("native")[t] # None /\ ~Pending("native")[t].applied
            /\ Pending("native")[t].op = current[t]
            /\ (Pending("native"))' = [Pending("native") EXCEPT ![t].applied = TRUE]
        BY <1>0, <2>1, <2>2, PendingApplies
      <3> QED
        BY <3>1, <3>2 DEF Native!Apply
    <2>3. CASE layer # "native"
      <3>1. scopes'["native"] = scopes["native"]
        BY <1>0, <2>1, <2>3
      <3>2. (Pending("native"))' = Pending("native")
        BY <1>0, <2>1, <2>3, PendingElsewhere
      <3> QED
        BY <3>1, <3>2 DEF Native!vars
    <2> QED
      BY <2>2, <2>3
  <1>4. ASSUME NEW t \in Threads, Ends(t) PROVE Native!End(t)
    <2>1. scopes' = scopes
      BY <1>4 DEF Ends
    <2> QED
      BY <1>0, <1>4, <2>1, PendingEnds DEF Native!End
  <1> QED
    BY <1>1, <1>2, <1>3, <1>4 DEF Native!Next

LEMMA DotnetStep ==
    ASSUME ScopeSyncAssumption, GuardInv,
           Quiet \/ \E t \in Threads : Begins(t) \/ Applies(t) \/ Ends(t)
    PROVE  [Dotnet!Next]_(Dotnet!vars)
  <1>0. scopes \in [Layers -> ScopeRecord] /\ "native" \in Layers /\ "dotnet" \in Layers
        /\ "native" # "dotnet"
    BY DEF GuardInv, Typed, Layers
  <1>1. CASE Quiet
    BY <1>1 DEF Quiet, Dotnet!vars, Pending
  <1>2. ASSUME NEW t \in Threads, Begins(t) PROVE Dotnet!Begin(t)
    <2>1. scopes' = scopes
      BY <1>2 DEF Begins
    <2> QED
      BY <1>0, <1>2, <2>1, PendingBegins DEF Dotnet!Begin
  <1>3. ASSUME NEW t \in Threads, Applies(t)
        PROVE  Dotnet!Apply(t) \/ UNCHANGED Dotnet!vars
    <2>1. PICK layer \in Layers :
              /\ current[t] \in OpsOf("dotnet", t) /\ layer \notin reached[t]
              /\ scopes' = [scopes EXCEPT ![layer] = Applied(@, current[t])]
              /\ reached' = [reached EXCEPT ![t] = @ \cup {layer}] /\ current' = current
      BY <1>3 DEF Applies
    <2>2. CASE layer = "dotnet"
      <3>1. scopes'["dotnet"] = Applied(scopes["dotnet"], current[t])
        BY <1>0, <2>1, <2>2
      <3>2. /\ Pending("dotnet")[t] # None /\ ~Pending("dotnet")[t].applied
            /\ Pending("dotnet")[t].op = current[t]
            /\ (Pending("dotnet"))' = [Pending("dotnet") EXCEPT ![t].applied = TRUE]
        BY <1>0, <2>1, <2>2, PendingApplies
      <3> QED
        BY <3>1, <3>2 DEF Dotnet!Apply
    <2>3. CASE layer # "dotnet"
      <3>1. scopes'["dotnet"] = scopes["dotnet"]
        BY <1>0, <2>1, <2>3
      <3>2. (Pending("dotnet"))' = Pending("dotnet")
        BY <1>0, <2>1, <2>3, PendingElsewhere
      <3> QED
        BY <3>1, <3>2 DEF Dotnet!vars
    <2> QED
      BY <2>2, <2>3
  <1>4. ASSUME NEW t \in Threads, Ends(t) PROVE Dotnet!End(t)
    <2>1. scopes' = scopes
      BY <1>4 DEF Ends
    <2> QED
      BY <1>0, <1>4, <2>1, PendingEnds DEF Dotnet!End
  <1> QED
    BY <1>1, <1>2, <1>3, <1>4 DEF Dotnet!Next

THEOREM ProgressInvariant ==
    ASSUME ScopeSyncAssumption, NoCallbacks
    PROVE  Spec => [](GuardInv /\ ProgressInv)
  <1>1. Init => GuardInv /\ ProgressInv
    BY GuardInit, ProgressInit
  <1>2. (GuardInv /\ ProgressInv) /\ [Next]_vars => (GuardInv /\ ProgressInv)'
    BY GuardNext, ProgressNext
  <1> QED
    BY <1>1, <1>2, PTL DEF Spec

(* Every operation that the program calls, in whichever layer, is applied   *)
(* to each layer's scope exactly once between its call and its return, and  *)
(* nothing else changes a scope (DotnetScopeObserver, GodotScopeObserver).  *)
THEOREM LayersAreImplemented ==
    ASSUME ScopeSyncAssumption, NoCallbacks PROVE Spec => LayersImplement
  <1>1. Init => Native!Init /\ Dotnet!Init
    <2> SUFFICES ASSUME Init PROVE Native!Init /\ Dotnet!Init
      OBVIOUS
    <2>1. scopes["native"] = Fresh /\ scopes["dotnet"] = Fresh
      BY DEF Init, Layers
    <2>2. /\ Pending("native") = [t \in Threads |-> None]
          /\ Pending("dotnet") = [t \in Threads |-> None]
      BY DEF Init, Pending
    <2> QED
      BY <2>1, <2>2 DEF Native!Init, Dotnet!Init
  <1>2. (GuardInv /\ ProgressInv) /\ [Next]_vars =>
            [Native!Next]_(Native!vars) /\ [Dotnet!Next]_(Dotnet!vars)
    BY ProgressNext, NativeStep, DotnetStep
  <1>3. Spec => [](GuardInv /\ ProgressInv)
    BY ProgressInvariant
  <1>4. Spec => Native!Spec /\ Dotnet!Spec
    BY <1>1, <1>2, <1>3, PTL DEF Spec, Native!Spec, Dotnet!Spec
  <1> QED
    BY <1>4 DEF LayersImplement

-----------------------------------------------------------------------------
(* With threads that change nothing in common, what a layer holds that the *)
(* other does not is what an operation has reached only one layer with.    *)
Kinds == {"set_tag", "set_user", "set_trace"}
Sets(op, kind, k) == op # None /\ op.kind = kind /\ (kind = "set_tag" => op.key = k)
Reads(scope, kind, k) ==
    IF kind = "set_tag" THEN scope.tags[k] ELSE IF kind = "set_user" THEN scope.user ELSE scope.trace

SlotAgrees(kind, k) ==
    /\ \A t \in Threads, l \in Layers :
           l \in reached[t] /\ Sets(current[t], kind, k) => Reads(scopes[l], kind, k) = current[t].value
    /\ (\A t \in Threads : Sets(current[t], kind, k) => reached[t] \in {{}, Layers}) =>
           Reads(scopes["native"], kind, k) = Reads(scopes["dotnet"], kind, k)

Ahead(layer) == {t \in Threads : current[t] = Breadcrumb /\ reached[t] = {layer}}
CrumbsAgree ==
    Cardinality(Ahead("native")) + scopes["dotnet"].crumbs
        = Cardinality(Ahead("dotnet")) + scopes["native"].crumbs

AgreeInv ==
    /\ \A kind \in Kinds, k \in Keys \cup {None} : (kind = "set_tag" => k \in Keys) => SlotAgrees(kind, k)
    /\ CrumbsAgree

LEMMA Owned ==
    ASSUME ProgressInv, NEW t \in Threads
    PROVE  (current[t] = None /\ reached[t] = {}) \/ current[t] \in OpsOf("dotnet", t)
  BY DEF ProgressInv, Follows

LEMMA OpsDisjoint ==
    ASSUME Separate, NEW t \in Threads, NEW u \in Threads, NEW kind \in Kinds, NEW k,
           NEW op \in OpsOf("dotnet", t), NEW other \in OpsOf("dotnet", u),
           Sets(op, kind, k), Sets(other, kind, k)
    PROVE  t = u
  <1>1. CASE kind = "set_tag"
    <2>1. k \in KeysOf[t]
      BY <1>1 DEF OpsOf, Sets, SetTag, RemoveTag, SetUser, RemoveUser, SetTrace, Breadcrumb
    <2>2. k \in KeysOf[u]
      BY <1>1 DEF OpsOf, Sets, SetTag, RemoveTag, SetUser, RemoveUser, SetTrace, Breadcrumb
    <2> QED
      BY <2>1, <2>2 DEF Separate
  <1>2. CASE kind # "set_tag"
    <2>1. t \in UserThreads
      BY <1>2 DEF Kinds, OpsOf, Sets, SetTag, RemoveTag, SetUser, RemoveUser, SetTrace, Breadcrumb
    <2>2. u \in UserThreads
      BY <1>2 DEF Kinds, OpsOf, Sets, SetTag, RemoveTag, SetUser, RemoveUser, SetTrace, Breadcrumb
    <2> QED
      BY <2>1, <2>2 DEF Separate
  <1> QED
    BY <1>1, <1>2

(* What an operation does to what is read of a scope.                      *)
LEMMA AppliedReads ==
    ASSUME ScopeSyncAssumption, NEW scope \in ScopeRecord, NEW op \in AllOps,
           NEW kind \in Kinds, NEW k, kind = "set_tag" => k \in Keys
    PROVE  Reads(Applied(scope, op), kind, k)
               = IF Sets(op, kind, k) THEN op.value ELSE Reads(scope, kind, k)
  <1>0. op # None
    BY DEF ScopeSyncAssumption
  <1>1. CASE op.kind = "set_tag"
    <2>1. op.key \in Keys
      BY <1>1, OpsTyped
    <2>2. Applied(scope, op) = [scope EXCEPT !.tags[op.key] = op.value]
      BY <1>1 DEF Applied
    <2> QED
      BY <1>0, <1>1, <2>1, <2>2 DEF Reads, Sets, ScopeRecord, Kinds
  <1>2. CASE op.kind = "set_user"
    <2>1. Applied(scope, op) = [scope EXCEPT !.user = op.value]
      BY <1>2 DEF Applied
    <2> QED
      BY <1>0, <1>2, <2>1 DEF Reads, Sets, ScopeRecord, Kinds
  <1>3. CASE op.kind = "set_trace"
    <2>1. Applied(scope, op) = [scope EXCEPT !.trace = op.value]
      BY <1>3 DEF Applied
    <2> QED
      BY <1>0, <1>3, <2>1 DEF Reads, Sets, ScopeRecord, Kinds
  <1>4. CASE op.kind = "add_breadcrumb"
    <2>1. Applied(scope, op) = [scope EXCEPT !.crumbs = @ + 1]
      BY <1>4 DEF Applied
    <2> QED
      BY <1>0, <1>4, <2>1 DEF Reads, Sets, ScopeRecord, Kinds
  <1> QED
    BY <1>1, <1>2, <1>3, <1>4, OpsTyped

LEMMA AppliedCrumbs ==
    ASSUME ScopeSyncAssumption, NEW scope \in ScopeRecord, NEW op \in AllOps
    PROVE  Applied(scope, op).crumbs = IF op = Breadcrumb THEN scope.crumbs + 1 ELSE scope.crumbs
  <1>1. CASE op.kind = "add_breadcrumb"
    <2>1. op = Breadcrumb /\ Applied(scope, op) = [scope EXCEPT !.crumbs = @ + 1]
      BY <1>1, OpsTyped DEF Applied
    <2> QED
      BY <2>1 DEF ScopeRecord
  <1>2. CASE op.kind # "add_breadcrumb"
    <2>1. op # Breadcrumb
      BY <1>2 DEF Breadcrumb
    <2>2. Applied(scope, op).crumbs = scope.crumbs
      BY <1>2, OpsTyped DEF Applied, ScopeRecord
    <2> QED
      BY <2>1, <2>2
  <1> QED
    BY <1>1, <1>2

LEMMA SlotBegins ==
    ASSUME GuardInv, NEW t \in Threads, Begins(t), NEW kind \in Kinds, NEW k, SlotAgrees(kind, k)
    PROVE  SlotAgrees(kind, k)'
  <1>1. /\ reached[t] = {} /\ reached'[t] = {} /\ scopes' = scopes
        /\ \A u \in Threads : u # t => current'[u] = current[u] /\ reached'[u] = reached[u]
    BY DEF Begins, GuardInv, Typed
  <1> QED
    BY <1>1 DEF SlotAgrees

LEMMA SlotEnds ==
    ASSUME GuardInv, NEW t \in Threads, Ends(t), NEW kind \in Kinds, NEW k, SlotAgrees(kind, k)
    PROVE  SlotAgrees(kind, k)'
  <1>1. /\ reached[t] = Layers /\ reached'[t] = {} /\ scopes' = scopes
        /\ \A u \in Threads : u # t => current'[u] = current[u] /\ reached'[u] = reached[u]
    BY DEF Ends, GuardInv, Typed
  <1> QED
    BY <1>1 DEF SlotAgrees

LEMMA SlotApplies ==
    ASSUME ScopeSyncAssumption, Separate, GuardInv, ProgressInv, NEW t \in Threads, Applies(t),
           NEW kind \in Kinds, NEW k, kind = "set_tag" => k \in Keys, SlotAgrees(kind, k)
    PROVE  SlotAgrees(kind, k)'
  <1>1. PICK layer \in Layers :
            /\ current[t] \in OpsOf("dotnet", t) /\ layer \notin reached[t]
            /\ scopes' = [scopes EXCEPT ![layer] = Applied(@, current[t])]
            /\ reached' = [reached EXCEPT ![t] = @ \cup {layer}] /\ current' = current
    BY DEF Applies
  <1> DEFINE op == current[t]
  <1>2. op \in AllOps /\ scopes \in [Layers -> ScopeRecord] /\ reached \in [Threads -> SUBSET Layers]
    BY <1>1 DEF AllOps, GuardInv, Typed
  <1>3. /\ reached'[t] = reached[t] \cup {layer}
        /\ \A u \in Threads : u # t => reached'[u] = reached[u]
        /\ \A u \in Threads : current'[u] = current[u]
    BY <1>1, <1>2
  <1>4. \A l \in Layers : Reads(scopes'[l], kind, k) =
            IF l = layer /\ Sets(op, kind, k) THEN op.value ELSE Reads(scopes[l], kind, k)
    <2>1. Reads(Applied(scopes[layer], op), kind, k)
              = IF Sets(op, kind, k) THEN op.value ELSE Reads(scopes[layer], kind, k)
      BY <1>2, AppliedReads
    <2>2. /\ scopes'[layer] = Applied(scopes[layer], op)
          /\ \A l \in Layers : l # layer => scopes'[l] = scopes[l]
      BY <1>1, <1>2
    <2> QED
      BY <2>1, <2>2
  <1>5. CASE ~Sets(op, kind, k)
    <2>1. \A l \in Layers : Reads(scopes'[l], kind, k) = Reads(scopes[l], kind, k)
      BY <1>4, <1>5
    <2>2. "native" \in Layers /\ "dotnet" \in Layers
      BY DEF Layers
    <2> QED
      BY <1>3, <1>5, <2>1, <2>2 DEF SlotAgrees
  <1>6. CASE Sets(op, kind, k)
    <2>1. \A u \in Threads : Sets(current[u], kind, k) => u = t
      <3> SUFFICES ASSUME NEW u \in Threads, Sets(current[u], kind, k) PROVE u = t
        OBVIOUS
      <3>1. current[u] \in OpsOf("dotnet", u)
        BY Owned DEF Sets
      <3> QED
        BY <1>1, <1>6, <3>1, OpsDisjoint
    <2>2. \A l \in Layers : l \in reached'[t] => Reads(scopes'[l], kind, k) = op.value
      BY <1>3, <1>4, <1>6 DEF SlotAgrees
    <2>3. \A u \in Threads, l \in Layers :
              l \in reached'[u] /\ Sets(current'[u], kind, k) =>
                  Reads(scopes'[l], kind, k) = current'[u].value
      BY <1>3, <2>1, <2>2
    <2>4. ASSUME \A u \in Threads : Sets(current'[u], kind, k) => reached'[u] \in {{}, Layers}
          PROVE  Reads(scopes'["native"], kind, k) = Reads(scopes'["dotnet"], kind, k)
      <3>1. reached'[t] = Layers
        BY <1>3, <1>6, <2>4
      <3> QED
        BY <2>2, <3>1 DEF Layers
    <2> QED
      BY <2>3, <2>4 DEF SlotAgrees
  <1> QED
    BY <1>5, <1>6

LEMMA AheadTyped ==
    ASSUME ScopeSyncAssumption, NEW layer
    PROVE  IsFiniteSet(Ahead(layer)) /\ Cardinality(Ahead(layer)) \in Nat
  <1>1. IsFiniteSet(Threads) /\ Ahead(layer) \subseteq Threads
    BY DEF ScopeSyncAssumption, Ahead
  <1> QED
    BY <1>1, FS_Subset, FS_CardinalityType

LEMMA CrumbsKept ==
    ASSUME CrumbsAgree, Ahead("native")' = Ahead("native"), Ahead("dotnet")' = Ahead("dotnet"),
           scopes'["native"].crumbs = scopes["native"].crumbs,
           scopes'["dotnet"].crumbs = scopes["dotnet"].crumbs
    PROVE  CrumbsAgree'
  BY DEF CrumbsAgree

LEMMA CrumbsBegin ==
    ASSUME GuardInv, NEW t \in Threads, Begins(t) \/ Ends(t), CrumbsAgree
    PROVE  CrumbsAgree'
  <1>1. /\ reached[t] = {} \/ reached[t] = Layers
        /\ reached'[t] = {} /\ scopes' = scopes
        /\ \A u \in Threads : u # t => current'[u] = current[u] /\ reached'[u] = reached[u]
    BY DEF Begins, Ends, GuardInv, Typed
  <1>2. Ahead("native")' = Ahead("native") /\ Ahead("dotnet")' = Ahead("dotnet")
    BY <1>1 DEF Ahead, Layers
  <1> QED
    BY <1>1, <1>2, CrumbsKept

LEMMA CrumbsApply ==
    ASSUME ScopeSyncAssumption, GuardInv, NEW t \in Threads, Applies(t), CrumbsAgree
    PROVE  CrumbsAgree'
  <1>1. PICK layer \in Layers :
            /\ current[t] \in OpsOf("dotnet", t) /\ layer \notin reached[t]
            /\ scopes' = [scopes EXCEPT ![layer] = Applied(@, current[t])]
            /\ reached' = [reached EXCEPT ![t] = @ \cup {layer}] /\ current' = current
    BY DEF Applies
  <1> DEFINE op == current[t]
             other == Other(layer)
  <1>2. /\ op \in AllOps /\ scopes \in [Layers -> ScopeRecord]
        /\ reached \in [Threads -> SUBSET Layers]
    BY <1>1 DEF AllOps, GuardInv, Typed
  <1>3. /\ reached'[t] = reached[t] \cup {layer}
        /\ \A u \in Threads : u # t => reached'[u] = reached[u]
        /\ \A u \in Threads : current'[u] = current[u]
    BY <1>1, <1>2
  <1>4. /\ other \in Layers /\ other # layer /\ Layers = {layer, other}
        /\ {layer, other} = {"native", "dotnet"}
    BY DEF Other, Layers
  <1>5. scopes'[layer] = Applied(scopes[layer], op) /\ scopes'[other] = scopes[other]
    BY <1>1, <1>2, <1>4
  <1>6. scopes'[layer].crumbs = IF op = Breadcrumb THEN scopes[layer].crumbs + 1 ELSE scopes[layer].crumbs
    BY <1>2, <1>5, AppliedCrumbs
  <1>7. scopes[layer].crumbs \in Nat /\ scopes[other].crumbs \in Nat
    BY <1>2, <1>4 DEF ScopeRecord
  <1> DEFINE a == Ahead(layer)
             b == Ahead(other)
             c == Ahead(layer)'
             d == Ahead(other)'
  <1>8. /\ IsFiniteSet(a) /\ IsFiniteSet(b) /\ Cardinality(a) \in Nat /\ Cardinality(b) \in Nat
    BY AheadTyped
  <1>9. CrumbsAgree <=> Cardinality(a) + scopes[other].crumbs = Cardinality(b) + scopes[layer].crumbs
    <2>1. CASE layer = "native"
      BY <2>1 DEF CrumbsAgree, Other
    <2>2. CASE layer = "dotnet"
      BY <1>4, <2>2 DEF CrumbsAgree, Other
    <2> QED
      BY <2>1, <2>2 DEF Layers
  <1>10. CrumbsAgree' <=> Cardinality(c) + scopes'[other].crumbs = Cardinality(d) + scopes'[layer].crumbs
    <2>1. CASE layer = "native"
      BY <2>1 DEF CrumbsAgree, Other
    <2>2. CASE layer = "dotnet"
      BY <1>4, <2>2 DEF CrumbsAgree, Other
    <2> QED
      BY <2>1, <2>2 DEF Layers
  <1>11. CASE op # Breadcrumb
    <2>1. c = a /\ d = b
      BY <1>3, <1>11 DEF Ahead
    <2> QED
      BY <1>5, <1>6, <1>9, <1>10, <1>11, <2>1
  <1>12. CASE op = Breadcrumb /\ reached[t] = {}
    <2>1. c = a \cup {t} /\ d = b /\ t \notin a
      BY <1>3, <1>4, <1>12 DEF Ahead
    <2>2. Cardinality(c) = Cardinality(a) + 1
      BY <1>8, <2>1, FS_AddElement
    <2> HIDE DEF a, b, c, d
    <2> QED
      BY <1>5, <1>6, <1>7, <1>8, <1>9, <1>10, <1>12, <2>1, <2>2
  <1>13. CASE op = Breadcrumb /\ reached[t] = {other}
    <2>1. c = a /\ d = b \ {t} /\ t \in b
      BY <1>3, <1>4, <1>13 DEF Ahead
    <2>2. Cardinality(d) = Cardinality(b) - 1
      BY <1>8, <2>1, FS_RemoveElement
    <2> HIDE DEF a, b, c, d
    <2> QED
      BY <1>5, <1>6, <1>7, <1>8, <1>9, <1>10, <1>13, <2>1, <2>2
  <1>14. reached[t] = {} \/ reached[t] = {other}
    BY <1>1, <1>2, <1>4
  <1> QED
    BY <1>11, <1>12, <1>13, <1>14

THEOREM AgreeInit == ASSUME ScopeSyncAssumption PROVE Init => AgreeInv
  <1> SUFFICES ASSUME Init PROVE AgreeInv
    OBVIOUS
  <1>1. /\ scopes["native"] = Fresh /\ scopes["dotnet"] = Fresh
        /\ \A t \in Threads : reached[t] = {}
    BY DEF Init, Layers
  <1>2. Ahead("native") = {} /\ Ahead("dotnet") = {}
    BY <1>1 DEF Ahead
  <1> QED
    BY <1>1, <1>2 DEF AgreeInv, SlotAgrees, CrumbsAgree

THEOREM AgreeNext ==
    ASSUME ScopeSyncAssumption, Separate, GuardInv, ProgressInv, AgreeInv, [Next]_vars
    PROVE  AgreeInv'
  <1>0. NoCallbacks
    BY DEF Separate
  <1>1. Quiet \/ \E t \in Threads : Begins(t) \/ Applies(t) \/ Ends(t)
    BY <1>0, ProgressNext
  <1>2. CASE Quiet
    BY <1>2 DEF Quiet, AgreeInv, SlotAgrees, CrumbsAgree, Ahead
  <1>3. ASSUME NEW t \in Threads, Begins(t) \/ Applies(t) \/ Ends(t) PROVE AgreeInv'
    <2>1. ASSUME NEW kind \in Kinds, NEW k \in Keys \cup {None}, kind = "set_tag" => k \in Keys
          PROVE  SlotAgrees(kind, k)'
      <3>1. SlotAgrees(kind, k)
        BY <2>1 DEF AgreeInv
      <3> QED
        BY <1>3, <2>1, <3>1, SlotBegins, SlotApplies, SlotEnds
    <2>2. CrumbsAgree'
      BY <1>3, CrumbsBegin, CrumbsApply DEF AgreeInv
    <2> QED
      BY <2>1, <2>2 DEF AgreeInv
  <1> QED
    BY <1>1, <1>2, <1>3

LEMMA AgreedAtRest ==
    ASSUME GuardInv, ProgressInv, AgreeInv, AtRest
    PROVE  scopes["native"] = scopes["dotnet"]
  <1>1. \A t \in Threads : reached[t] = {}
    <2> SUFFICES ASSUME NEW t \in Threads PROVE reached[t] = {}
      OBVIOUS
    <2>1. Len(stack[t]) = 0
      BY DEF AtRest
    <2> QED
      BY <2>1 DEF ProgressInv, Follows
  <1> DEFINE a == scopes["native"]
             b == scopes["dotnet"]
  <1>2. a \in ScopeRecord /\ b \in ScopeRecord
    BY DEF GuardInv, Typed, Layers
  <1>3. \A kind \in Kinds, k \in Keys \cup {None} :
            (kind = "set_tag" => k \in Keys) => Reads(a, kind, k) = Reads(b, kind, k)
    BY <1>1 DEF AgreeInv, SlotAgrees
  <1>4. a.crumbs = b.crumbs
    <2>1. Ahead("native") = {} /\ Ahead("dotnet") = {}
      BY <1>1 DEF Ahead
    <2>2. a.crumbs \in Nat /\ b.crumbs \in Nat
      BY <1>2 DEF ScopeRecord
    <2> QED
      BY <2>1, <2>2, FS_EmptySet DEF AgreeInv, CrumbsAgree
  <1> HIDE DEF a, b
  <1>5. \A k \in Keys : a.tags[k] = b.tags[k]
    <2>1. "set_tag" \in Kinds
      BY DEF Kinds
    <2> QED
      BY <1>3, <2>1 DEF Reads
  <1>6. a.user = b.user
    <2>1. "set_user" \in Kinds
      BY DEF Kinds
    <2> QED
      BY <1>3, <2>1 DEF Reads
  <1>7. a.trace = b.trace
    <2>1. "set_trace" \in Kinds
      BY DEF Kinds
    <2> QED
      BY <1>3, <2>1 DEF Reads
  <1>8. a.tags = b.tags
    BY <1>2, <1>5 DEF ScopeRecord
  <1>9. a = b
    BY <1>2, <1>4, <1>6, <1>7, <1>8 DEF ScopeRecord
  <1> QED
    BY <1>9 DEF a, b

(* Unless two threads, or a callback, change the same tag, user or trace,   *)
(* both layers hold the same once every call has returned.                  *)
THEOREM SeparateLayersAgree ==
    ASSUME ScopeSyncAssumption, Separate PROVE Spec => []LayersAgree
  <1>0. NoCallbacks
    BY DEF Separate
  <1>1. Init => AgreeInv
    BY AgreeInit
  <1>2. GuardInv /\ ProgressInv /\ AgreeInv /\ [Next]_vars => AgreeInv'
    BY AgreeNext
  <1>3. Spec => [](GuardInv /\ ProgressInv)
    BY <1>0, ProgressInvariant
  <1>4. GuardInv /\ ProgressInv /\ AgreeInv => LayersAgree
    BY AgreedAtRest DEF LayersAgree
  <1> QED
    BY <1>1, <1>2, <1>3, <1>4, PTL DEF Spec

(* The guards and the scopes together, as the run checks them.             *)
THEOREM LayersStayInStep == ASSUME ScopeSyncAssumption PROVE Spec => []LayersInStep
  <1>1. Spec => [](TypeOK /\ GuardsReleased)
    BY GuardsAreReleased
  <1>2. CASE Separate
    <2>1. Spec => []LayersAgree
      BY <1>2, SeparateLayersAgree
    <2>2. TypeOK /\ GuardsReleased /\ LayersAgree => LayersInStep
      BY DEF LayersInStep
    <2> QED
      BY <1>1, <2>1, <2>2, PTL
  <1>3. CASE ~Separate
    <2>1. TypeOK /\ GuardsReleased => LayersInStep
      BY <1>3 DEF LayersInStep
    <2> QED
      BY <1>1, <2>1, PTL
  <1> QED
    BY <1>2, <1>3

=============================================================================
