----------------------------- MODULE ScopeSync -----------------------------
(***************************************************************************)
(* The scopes of the native layer and of .NET, kept the same: an operation *)
(* in one layer is applied there, then forwarded by its observer into the  *)
(* other, whose observer would forward it back.  A guard for each thread   *)
(* and layer stops that.  A call is a stack of frames, one for each entry  *)
(* into a layer.                                                           *)
(***************************************************************************)
EXTENDS Integers, Sequences, FiniteSets

CONSTANTS
    Threads,
    Keys, Values,
    KeysOf,            \* the keys whose tags a thread changes
    UserThreads,       \* the threads that set the user or the trace
    InCallbacks,       \* the tags that a .NET before-breadcrumb callback sets
    InCaptures,        \* the tags that a .NET before-send callback sets
    MaxCalls,          \* bound: calls of each thread
    None

VARIABLES
    scopes,            \* of both layers
    stack,             \* of each thread: its frames, the innermost last
    depth,             \* of each layer and thread: SyncGuard
    inLocalScope,      \* of each thread: LocalScopeGuard
    calls,             \* of each thread: calls so far
    current, reached   \* history: the operation called, and the layers it was applied to

vars == <<scopes, stack, depth, inLocalScope, calls, current, reached>>

Layers == {"native", "dotnet"}
Other(layer) == IF layer = "native" THEN "dotnet" ELSE "native"

(***************************************************************************)
(* Operations on a scope                                                   *)
(***************************************************************************)
SetTag(k, v) == [kind |-> "set_tag", key |-> k, value |-> v]
RemoveTag(k) == [kind |-> "set_tag", key |-> k, value |-> None]
SetUser(u) == [kind |-> "set_user", value |-> u]
RemoveUser == SetUser(None)
SetTrace(i) == [kind |-> "set_trace", value |-> i]
Breadcrumb == [kind |-> "add_breadcrumb"]

OpsOf(layer, t) ==
    {SetTag(k, v) : k \in KeysOf[t], v \in Values} \cup {RemoveTag(k) : k \in KeysOf[t]}
    \cup {Breadcrumb}
    \cup (IF t \in UserThreads THEN {SetUser(u) : u \in Values} \cup {RemoveUser} ELSE {})
    \cup (IF t \in UserThreads /\ layer = "dotnet" THEN {SetTrace(i) : i \in Values} ELSE {})

AllOps == UNION {OpsOf("dotnet", t) : t \in Threads}

ScopeSyncAssumption ==
    /\ IsFiniteSet(Threads)
    /\ KeysOf \in [Threads -> SUBSET Keys] /\ UserThreads \subseteq Threads
    /\ InCallbacks \subseteq Keys /\ InCaptures \subseteq Keys
    /\ MaxCalls \in Nat /\ None \notin Values
    /\ None \notin AllOps /\ None \notin [op : AllOps, applied : BOOLEAN]

Fresh == [tags |-> [k \in Keys |-> None], user |-> None, trace |-> None, crumbs |-> 0]
Applied(scope, op) ==
    CASE op.kind = "set_tag" -> [scope EXCEPT !.tags[op.key] = op.value]
      [] op.kind = "set_user" -> [scope EXCEPT !.user = op.value]
      [] op.kind = "set_trace" -> [scope EXCEPT !.trace = op.value]
      [] op.kind = "add_breadcrumb" -> [scope EXCEPT !.crumbs = @ + 1]

(***************************************************************************)
(* Frames                                                                  *)
(***************************************************************************)
\* role: of the program's own call, of a forwarded one, or of a callback.
Frame(layer, op, role) ==
    [layer |-> layer, op |-> op, role |-> role, local |-> FALSE, prev |-> FALSE,
     asked |-> FALSE, pc |-> "apply"]
Top(t) == stack[t][Len(stack[t])]
With(t, frame) == [stack[t] EXCEPT ![Len(stack[t])] = frame]
At(t, pc) == stack[t] # <<>> /\ Top(t).pc = pc
IsSyncing(layer, t) == depth[layer][t] > 0

Init ==
    /\ scopes = [l \in Layers |-> Fresh]
    /\ stack = [t \in Threads |-> <<>>]
    /\ depth = [l \in Layers |-> [t \in Threads |-> 0]]
    /\ inLocalScope = [t \in Threads |-> FALSE]
    /\ calls = [t \in Threads |-> 0]
    /\ current = [t \in Threads |-> None] /\ reached = [t \in Threads |-> {}]

\* The program calls an operation of SentrySDK or of Sentry.Godot.SentrySdk.
Call(t) == \E layer \in Layers : \E op \in OpsOf(layer, t) :
    /\ stack[t] = <<>> /\ calls[t] < MaxCalls
    /\ stack' = [stack EXCEPT ![t] = <<Frame(layer, op, "call")>>]
    /\ calls' = [calls EXCEPT ![t] = @ + 1]
    /\ current' = [current EXCEPT ![t] = op] /\ reached' = [reached EXCEPT ![t] = {}]
    /\ UNCHANGED <<scopes, depth, inLocalScope>>

\* A capture in .NET configures a scope of its own.
Capture(t) == \E op \in OpsOf("dotnet", t) :
    /\ stack[t] = <<>> /\ calls[t] < MaxCalls
    /\ stack' = [stack EXCEPT ![t] = <<[Frame("dotnet", op, "call") EXCEPT
                                         !.local = TRUE, !.prev = inLocalScope[t]]>>]
    /\ inLocalScope' = [inLocalScope EXCEPT ![t] = TRUE]
    /\ calls' = [calls EXCEPT ![t] = @ + 1]
    /\ UNCHANGED <<scopes, depth, current, reached>>

\* A before-send callback of that capture sets a tag of the global scope.
BeforeSend(t) == \E k \in InCaptures, v \in Values :
    /\ At(t, "leave") /\ Top(t).local /\ ~Top(t).asked
    /\ stack' = [stack EXCEPT ![t] = Append(With(t, [Top(t) EXCEPT !.asked = TRUE]),
                                            Frame("dotnet", SetTag(k, v), "callback"))]
    /\ UNCHANGED <<scopes, depth, inLocalScope, calls, current, reached>>

\* A before-breadcrumb callback sets a tag.
BeforeBreadcrumb(t) == \E k \in InCallbacks, v \in Values :
    /\ At(t, "apply") /\ Top(t).layer = "dotnet" /\ Top(t).op = Breadcrumb /\ ~Top(t).asked
    /\ stack' = [stack EXCEPT ![t] = Append(With(t, [Top(t) EXCEPT !.asked = TRUE]),
                                            Frame("dotnet", SetTag(k, v), "callback"))]
    /\ UNCHANGED <<scopes, depth, inLocalScope, calls, current, reached>>

\* The operation on the layer's scope, or on the capture's own.
Apply(t) ==
    /\ At(t, "apply")
    /\ scopes' = IF Top(t).local THEN scopes
                 ELSE [scopes EXCEPT ![Top(t).layer] = Applied(@, Top(t).op)]
    /\ stack' = [stack EXCEPT ![t] = With(t, [Top(t) EXCEPT !.pc = "observe"])]
    /\ reached' = IF Top(t).local \/ Top(t).role = "callback" THEN reached
                  ELSE [reached EXCEPT ![t] = @ \cup {Top(t).layer}]
    /\ UNCHANGED <<depth, inLocalScope, calls, current>>

\* The native facade tells no observer of a trace.
Forwards_Unguarded(t) ==
    IF Top(t).layer = "native" THEN Top(t).op.kind # "set_trace" ELSE ~inLocalScope[t]
Forwards(t) ==
    /\ ~IsSyncing(Top(t).layer, t)
    /\ IF Top(t).layer = "native" THEN Top(t).op.kind # "set_trace" ELSE ~inLocalScope[t]

\* The observer's guard, and the guard of the other layer's entry
Forward(t) ==
    /\ At(t, "observe") /\ Forwards(t)
    /\ depth' = [l \in Layers |-> [depth[l] EXCEPT ![t] = @ + 1]]
    /\ stack' = [stack EXCEPT ![t] = Append(With(t, [Top(t) EXCEPT !.pc = "return"]),
                                            Frame(Other(Top(t).layer), Top(t).op, "forward"))]
    /\ UNCHANGED <<scopes, inLocalScope, calls, current, reached>>

Ignore(t) ==
    /\ At(t, "observe") /\ ~Forwards(t)
    /\ stack' = [stack EXCEPT ![t] = With(t, [Top(t) EXCEPT !.pc = "leave"])]
    /\ UNCHANGED <<scopes, depth, inLocalScope, calls, current, reached>>

Return(t) ==
    /\ At(t, "return")
    /\ depth' = [depth EXCEPT ![Top(t).layer][t] = @ - 1]
    /\ stack' = [stack EXCEPT ![t] = With(t, [Top(t) EXCEPT !.pc = "leave"])]
    /\ UNCHANGED <<scopes, inLocalScope, calls, current, reached>>

\* The guard of the entry is released, and that of a capture.
Released_Not(t) == depth
Released(t) == [depth EXCEPT ![Top(t).layer][t] = IF Top(t).role = "forward" THEN @ - 1 ELSE @]
Leave(t) ==
    /\ At(t, "leave")
    /\ depth' = Released(t)
    /\ inLocalScope' = [inLocalScope EXCEPT ![t] = IF Top(t).local THEN Top(t).prev ELSE @]
    /\ stack' = [stack EXCEPT ![t] = SubSeq(@, 1, Len(@) - 1)]
    /\ current' = [current EXCEPT ![t] = IF Len(stack[t]) = 1 THEN None ELSE @]
    /\ reached' = [reached EXCEPT ![t] = IF Len(stack[t]) = 1 THEN {} ELSE @]
    /\ UNCHANGED <<scopes, calls>>

Next == \E t \in Threads :
    \/ Call(t) \/ Capture(t) \/ BeforeSend(t) \/ BeforeBreadcrumb(t)
    \/ Apply(t) \/ Forward(t) \/ Ignore(t) \/ Return(t) \/ Leave(t)

Spec == Init /\ [][Next]_vars

(***************************************************************************)
(* Properties                                                              *)
(***************************************************************************)
AtRest == \A t \in Threads : stack[t] = <<>>

TypeOK ==
    /\ \A l \in Layers : scopes[l].user \in Values \cup {None} /\ scopes[l].crumbs \in Nat
    /\ depth \in [Layers -> [Threads -> Nat]]
    /\ \A t \in Threads : Len(stack[t]) <= 3

\* Once every call has returned, both layers have the same tags, user, trace and
\* number of breadcrumbs (GodotScopeObserver and DotnetScopeObserver).
LayersAgree == AtRest => scopes["native"] = scopes["dotnet"]

\* Once a thread's call has returned no guard of it is held, so that its next
\* change is forwarded again (SyncGuard and LocalScopeGuard).
GuardsReleased ==
    \A t \in Threads : stack[t] = <<>> =>
      ~inLocalScope[t] /\ \A l \in Layers : depth[l][t] = 0

\* No two threads change the same, and no callback changes anything: a change and its
\* forwarding are not one step, so that two changes may cross and stay apart.
NoCallbacks == InCallbacks = {} /\ InCaptures = {}
Separate ==
    /\ NoCallbacks
    /\ \A t, u \in Threads : KeysOf[t] \cap KeysOf[u] # {} => t = u
    /\ \A t, u \in UserThreads : t = u

\* All of this, however the calls of the threads and the callbacks within them interleave.
LayersInStep == TypeOK /\ GuardsReleased /\ (Separate => LayersAgree)

\* Each layer applies every operation once, and no scope of a capture
\* (ScopeLayer).
Pending(layer) ==
    [t \in Threads |-> IF current[t] = None THEN None
                       ELSE [op |-> current[t], applied |-> layer \in reached[t]]]
Native == INSTANCE ScopeLayer WITH
    Ops <- AllOps, Idle <- None, scope <- scopes["native"], pending <- Pending("native")
Dotnet == INSTANCE ScopeLayer WITH
    Ops <- AllOps, Idle <- None, scope <- scopes["dotnet"], pending <- Pending("dotnet")
LayersImplement == Native!Spec /\ Dotnet!Spec
=============================================================================
