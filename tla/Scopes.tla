------------------------------- MODULE Scopes -------------------------------
(***************************************************************************)
(* Thread-local scope stacks of the SentrySDK facade, discarded lazily     *)
(* through a global epoch (src/src/sentry/sentry_sdk.{h,cpp},              *)
(* sentry_scope.{h,cpp}, util/thread_guard.h).                             *)
(*                                                                         *)
(* Every thread owns a list `current_scopes`.  init() and close(), which   *)
(* only the main thread may call, bump `scopes_epoch` and clear the list   *)
(* of the calling thread; every other thread notices the new epoch at its  *)
(* next get_current_scope() and throws its own list away.  A call that     *)
(* needs the current scope reads the epoch first (ReadEpoch), works on     *)
(* thread-local state after that (Resolve...), and a capture hands the     *)
(* scope to the backend last (Submit), so that init() and close() of the   *)
(* main thread can fall between any two of these steps.                    *)
(***************************************************************************)
EXTENDS Integers, Sequences, FiniteSets, SequencesExt

CONSTANTS
    Thread,     \* threads that use the SDK
    MainThread, \* OS::get_main_thread_id()
    Scope,      \* scope objects that can be created
    NoScope,    \* null Ref<SentryScope>
    MaxEpoch,   \* bound on the number of invalidations
    MaxDepth,   \* bound on nested with_scope() and init() calls of a thread
    MaxWrites   \* bound on the writes remembered at a time

ASSUME ConstantsAssumption ==
    /\ MainThread \in Thread
    /\ NoScope \notin Scope
    /\ MaxEpoch \in Nat
    /\ MaxDepth \in Nat
    /\ MaxWrites \in Nat

VARIABLES
    epoch,        \* SentrySDK::scopes_epoch
    localEpoch,   \* SentrySDK::local_scopes_epoch, thread_local
    stack,        \* SentrySDK::current_scopes, thread_local
    allocated,    \* scope objects that exist
    owner,        \* SentryScope::_thread_owner
    data,         \* what has been written to each scope, as a set of writes
    frames,       \* per thread, its with_scope() and init() calls in progress
    call,         \* per thread, the call that is resolving a scope
    enabled,      \* internal_sdk->is_enabled()
    phase,        \* where the main thread is inside init() or close()
    born,         \* history: the epoch each scope was created under
    sessionEpoch  \* history: the epoch of the last successful init()

lifecycleVars == <<enabled, phase, sessionEpoch>>
heapVars == <<allocated, owner, data, born>>
vars == <<epoch, localEpoch, stack, frames, call, heapVars, lifecycleVars>>

(* A write remembers who wrote it, to which scope, and under which epoch.  *)
Write == [by : Thread, to : Scope, at : Nat]

(* A call of with_scope(), or of init() while its configuration callback   *)
(* runs.  `parent` is the scope the fork was cloned from, `epoch` the      *)
(* epoch under which that happened.                                        *)
Frame == [kind : {"with_scope", "init"}, scope : Scope \cup {NoScope},
          parent : Scope \cup {NoScope}, epoch : Nat]

InitFrame == [kind |-> "init", scope |-> NoScope, parent |-> NoScope, epoch |-> 0]

Operation == {"get_current_scope", "with_scope", "capture_event"}

Call == [stage : {"idle", "read", "resolved"}, op : Operation,
         epoch : Nat, scope : Scope \cup {NoScope}]

Idle == [stage |-> "idle", op |-> "get_current_scope", epoch |-> 0, scope |-> NoScope]

TypeOK ==
    /\ epoch \in Nat
    /\ localEpoch \in [Thread -> Nat]
    /\ stack \in [Thread -> Seq(Scope)]
    /\ allocated \subseteq Scope
    /\ owner \in [Scope -> Thread]
    /\ data \in [Scope -> SUBSET Write]
    /\ frames \in [Thread -> Seq(Frame)]
    /\ call \in [Thread -> Call]
    /\ enabled \in BOOLEAN
    /\ phase \in {"idle", "initializing", "closing"}
    /\ born \in [Scope -> Nat]
    /\ sessionEpoch \in Nat

Init ==
    /\ epoch = 0
    /\ localEpoch = [t \in Thread |-> 0]
    /\ stack = [t \in Thread |-> <<>>]
    /\ allocated = {}
    /\ owner = [s \in Scope |-> MainThread]
    /\ data = [s \in Scope |-> {}]
    /\ frames = [t \in Thread |-> <<>>]
    /\ call = [t \in Thread |-> Idle]
    /\ enabled = FALSE
    /\ phase = "idle"
    /\ born = [s \in Scope |-> 0]
    /\ sessionEpoch = 0

-----------------------------------------------------------------------------
(* A thread can start something new when it is in no SDK call.  The main   *)
(* thread is busy while init() or close() is between its steps.            *)
Free(t) == call[t].stage = "idle" /\ (t = MainThread => phase = "idle")

(* Opening another frame is bounded, because every frame may fork a scope. *)
MayNest(t) == Len(frames[t]) < MaxDepth

(* get_current_scope(): uint32_t epoch = scopes_epoch.get().               *)
ReadEpoch(t, op) ==
    /\ Free(t)
    /\ op = "with_scope" => MayNest(t)
    /\ call' = [call EXCEPT ![t] = [stage |-> "read", op |-> op,
                                    epoch |-> epoch, scope |-> NoScope]]
    /\ UNCHANGED <<epoch, localEpoch, stack, frames, heapVars, lifecycleVars>>

(* Mutant: the epoch is read but never compared.                           *)
SyncedStack_NeverStale(t) == stack[t]

(* The list of thread t once the epoch it has read was compared.           *)
SyncedStack(t) == IF localEpoch[t] # call[t].epoch THEN <<>> ELSE stack[t]

(* The constructors of SentryScope record the calling thread.  A root      *)
(* starts empty, a clone with the data of its source.                      *)
Construct(t, s, contents, e) ==
    /\ s \notin allocated
    /\ allocated' = allocated \cup {s}
    /\ owner' = [owner EXCEPT ![s] = t]
    /\ data' = [data EXCEPT ![s] = contents]
    /\ born' = [born EXCEPT ![s] = e]

(* get_current_scope() when the list is not empty, and what its caller     *)
(* does next: with_scope() clones and pushes, a capture keeps the scope.   *)
ResolveExisting(t) ==
    /\ call[t].stage = "read"
    /\ call[t].op # "with_scope"
    /\ SyncedStack(t) # <<>>
    /\ localEpoch' = [localEpoch EXCEPT ![t] = call[t].epoch]
    /\ stack' = [stack EXCEPT ![t] = SyncedStack(t)]
    /\ call' = [call EXCEPT ![t] =
                  IF @.op = "capture_event"
                  THEN [@ EXCEPT !.stage = "resolved", !.scope = Last(SyncedStack(t))]
                  ELSE Idle]
    /\ UNCHANGED <<epoch, frames, heapVars, lifecycleVars>>

(* The same when the list is empty: a root scope is created and pushed.    *)
(* For with_scope() the call goes on, now with a list that is not empty.   *)
ResolveRoot(t, s) ==
    /\ call[t].stage = "read"
    /\ SyncedStack(t) = <<>>
    /\ Construct(t, s, {}, call[t].epoch)
    /\ localEpoch' = [localEpoch EXCEPT ![t] = call[t].epoch]
    /\ stack' = [stack EXCEPT ![t] = <<s>>]
    /\ call' = [call EXCEPT ![t] =
                  CASE @.op = "capture_event" -> [@ EXCEPT !.stage = "resolved", !.scope = s]
                    [] @.op = "with_scope" -> @
                    [] OTHER -> Idle]
    /\ UNCHANGED <<epoch, frames, lifecycleVars>>

(* Mutant: the fork is pushed at the wrong end of the list.                *)
PushScope_PushFront(t, s) ==
    /\ call[t].stage = "read"
    /\ call[t].op = "with_scope"
    /\ SyncedStack(t) # <<>>
    /\ LET parent == Last(SyncedStack(t)) IN
         /\ Construct(t, s, data[parent], call[t].epoch)
         /\ stack' = [stack EXCEPT ![t] = <<s>> \o SyncedStack(t)]
         /\ frames' = [frames EXCEPT ![t] =
                         Append(@, [kind |-> "with_scope", scope |-> s,
                                    parent |-> parent, epoch |-> call[t].epoch])]
    /\ localEpoch' = [localEpoch EXCEPT ![t] = call[t].epoch]
    /\ call' = [call EXCEPT ![t] = Idle]
    /\ UNCHANGED <<epoch, lifecycleVars>>

(* with_scope(): _push_scope() clones the current scope, pushes the clone  *)
(* and the callable starts.  clone() is refused on a foreign thread.       *)
PushScope(t, s) ==
    /\ call[t].stage = "read"
    /\ call[t].op = "with_scope"
    /\ SyncedStack(t) # <<>>
    /\ LET parent == Last(SyncedStack(t)) IN
         /\ owner[parent] = t
         /\ Construct(t, s, data[parent], call[t].epoch)
         /\ stack' = [stack EXCEPT ![t] = Append(SyncedStack(t), s)]
         /\ frames' = [frames EXCEPT ![t] =
                         Append(@, [kind |-> "with_scope", scope |-> s,
                                    parent |-> parent, epoch |-> call[t].epoch])]
    /\ localEpoch' = [localEpoch EXCEPT ![t] = call[t].epoch]
    /\ call' = [call EXCEPT ![t] = Idle]
    /\ UNCHANGED <<epoch, lifecycleVars>>

(* What a return from a with_scope() callable does to the calls.           *)
ReturnFromCallable(t) ==
    /\ Free(t)
    /\ frames[t] # <<>>
    /\ Last(frames[t]).kind = "with_scope"
    /\ frames' = [frames EXCEPT ![t] = Front(@)]
    /\ UNCHANGED <<epoch, localEpoch, call, heapVars, lifecycleVars>>

(* Mutants: the fork stays; whatever is last or first is removed instead.  *)
PopScope_KeepFork(t) == ReturnFromCallable(t) /\ UNCHANGED stack
PopScope_PopBack(t) ==
    /\ ReturnFromCallable(t)
    /\ stack' = [stack EXCEPT ![t] = IF @ = <<>> THEN @ ELSE Front(@)]

(* with_scope(): the callable has returned, _pop_scope() erases the fork.  *)
PopScope(t) ==
    /\ ReturnFromCallable(t)
    /\ stack' = [stack EXCEPT ![t] = RemoveFirst(@, Last(frames[t]).scope)]

(* internal_sdk->capture_event(scope, event): the event leaves with the    *)
(* scope's data, or is dropped when the backend is disabled.               *)
Submit(t) ==
    /\ call[t].stage = "resolved"
    /\ call' = [call EXCEPT ![t] = Idle]
    /\ UNCHANGED <<epoch, localEpoch, stack, frames, heapVars, lifecycleVars>>

(* Writes never steer control and every property speaks of one write at a  *)
(* time, so a bound on how many are remembered hides nothing.              *)
MayRemember(w) ==
    LET remembered == UNION {data[s] : s \in Scope} IN
    w \in remembered \/ Cardinality(remembered) < MaxWrites

RecordWrite(t, s) ==
    LET write == [by |-> t, to |-> s, at |-> epoch] IN
    /\ MayRemember(write)
    /\ data' = [data EXCEPT ![s] = @ \cup {write}]
    /\ UNCHANGED <<epoch, localEpoch, stack, frames, call, allocated, owner, born, lifecycleVars>>

(* Mutant: a setter without the thread guard.                              *)
WriteScope_Unguarded(t, s) == Free(t) /\ s \in allocated /\ RecordWrite(t, s)

(* The setters of SentryScope.  User code may hold a reference to any      *)
(* scope, also a stale one or one of another thread: the thread guard      *)
(* rejects the latter.                                                     *)
WriteScope(t, s) ==
    /\ Free(t)
    /\ s \in allocated
    /\ owner[s] = t
    /\ RecordWrite(t, s)

ClearScope(t, s) ==
    /\ Free(t)
    /\ s \in allocated
    /\ owner[s] = t
    /\ data' = [data EXCEPT ![s] = {}]
    /\ UNCHANGED <<epoch, localEpoch, stack, frames, call, allocated, owner, born, lifecycleVars>>

(* ~SentryScope(): the last reference went away.  The lists, the running    *)
(* with_scope() calls and a capture hold references; user code may too.    *)
Referenced(s) ==
    \E t \in Thread :
        \/ Contains(stack[t], s)
        \/ \E i \in DOMAIN frames[t] : frames[t][i].scope = s
        \/ call[t].scope = s

DestroyScope(s) ==
    /\ s \in allocated
    /\ ~Referenced(s)
    /\ allocated' = allocated \ {s}
    /\ data' = [data EXCEPT ![s] = {}]
    /\ owner' = [owner EXCEPT ![s] = MainThread]
    /\ born' = [born EXCEPT ![s] = 0]
    /\ UNCHANGED <<epoch, localEpoch, stack, frames, call, lifecycleVars>>

-----------------------------------------------------------------------------
(* Mutant: the epoch counts down.                                          *)
InvalidateScopes_Decrement ==
    /\ epoch' = epoch - 1
    /\ stack' = [stack EXCEPT ![MainThread] = <<>>]

(* _invalidate_scopes(): the epoch of everyone, the list of the caller.    *)
InvalidateScopes ==
    /\ epoch' = epoch + 1
    /\ stack' = [stack EXCEPT ![MainThread] = <<>>]

PendingInits == Len(SelectSeq(frames[MainThread], LAMBDA f : f.kind = "init"))

(* init() up to its configuration callback, which is user code and may     *)
(* call anything, init() included: is_enabled() is still false.            *)
InitBegin ==
    /\ Free(MainThread)
    /\ ~enabled
    /\ MayNest(MainThread)
    /\ epoch + PendingInits < MaxEpoch
    /\ frames' = [frames EXCEPT ![MainThread] = Append(@, InitFrame)]
    /\ UNCHANGED <<epoch, localEpoch, stack, call, heapVars, lifecycleVars>>

(* The callback has returned: processors, observers and attachments are    *)
(* set up, then the scopes are invalidated, still without a backend.       *)
InitInvalidate ==
    /\ Free(MainThread)
    /\ frames[MainThread] # <<>>
    /\ Last(frames[MainThread]).kind = "init"
    /\ frames' = [frames EXCEPT ![MainThread] = Front(@)]
    /\ InvalidateScopes
    /\ phase' = "initializing"
    /\ UNCHANGED <<localEpoch, call, heapVars, enabled, sessionEpoch>>

(* internal_sdk->init(), which may fail.                                   *)
InitBackend(ok) ==
    /\ phase = "initializing"
    /\ phase' = "idle"
    /\ enabled' = ok
    /\ sessionEpoch' = IF ok THEN epoch ELSE sessionEpoch
    /\ UNCHANGED <<epoch, localEpoch, stack, frames, call, heapVars>>

(* close(): the backend first, the scopes last.                            *)
CloseBackend ==
    /\ Free(MainThread)
    /\ enabled
    /\ epoch + PendingInits < MaxEpoch
    /\ enabled' = FALSE
    /\ phase' = "closing"
    /\ UNCHANGED <<epoch, localEpoch, stack, frames, call, heapVars, sessionEpoch>>

CloseInvalidate ==
    /\ phase = "closing"
    /\ phase' = "idle"
    /\ InvalidateScopes
    /\ UNCHANGED <<localEpoch, frames, call, heapVars, enabled, sessionEpoch>>

-----------------------------------------------------------------------------
ScopeStep(t) ==
    \/ \E op \in Operation : ReadEpoch(t, op)
    \/ ResolveExisting(t)
    \/ \E s \in Scope :
         \/ ResolveRoot(t, s)
         \/ PushScope(t, s)
         \/ WriteScope(t, s)
         \/ ClearScope(t, s)
    \/ PopScope(t)
    \/ Submit(t)

LifecycleStep ==
    \/ InitBegin
    \/ InitInvalidate
    \/ \E ok \in BOOLEAN : InitBackend(ok)
    \/ CloseBackend
    \/ CloseInvalidate

Next ==
    \/ \E t \in Thread : ScopeStep(t)
    \/ \E s \in Scope : DestroyScope(s)
    \/ LifecycleStep

Spec == Init /\ [][Next]_vars

-----------------------------------------------------------------------------
(***************************************************************************)
(* Properties.                                                             *)
(***************************************************************************)

(* A capture that started after init() had invalidated the scopes carries  *)
(* nothing that was written to a scope before that: no scope data leaks    *)
(* from one session into the next, whichever thread captures.  (A capture  *)
(* that read the epoch before the invalidation may still arrive with old   *)
(* data: the facade holds no lock over a capture.)                         *)
SessionIsolation ==
    \A t \in Thread :
        (call[t].stage = "resolved" /\ call[t].epoch >= sessionEpoch)
            => \A w \in data[call[t].scope] : w.at >= sessionEpoch

(* What a capture carries was written by the capturing thread, although    *)
(* any thread may hold a reference to any scope (SentryScope's guard).     *)
CapturesOwnThread ==
    \A t \in Thread : call[t].stage = "resolved"
        => \A w \in data[call[t].scope] : w.by = t

IsOpenFork(t, s) == \E i \in DOMAIN frames[t] : frames[t][i].scope = s

(* "Data written to the forked scope enriches only the telemetry captured  *)
(* inside the callable": every write a capture carries went to a root of   *)
(* the thread or to the fork of a with_scope() that is still running.      *)
ForkDataConfined ==
    \A t \in Thread : call[t].stage = "resolved"
        => \A w \in data[call[t].scope] : w.to = stack[t][1] \/ IsOpenFork(t, w.to)

(* "Inside a with_scope callable, [the current scope] is the scope forked  *)
(* for that callable", as long as nobody invalidated the scopes since.     *)
ForkIsCurrent ==
    \A t \in Thread : (Free(t) /\ frames[t] # <<>>) =>
        LET f == Last(frames[t]) IN
        (f.kind = "with_scope" /\ f.epoch = epoch)
            => stack[t] # <<>> /\ Last(stack[t]) = f.scope

(* A list holds a root and above it, once each, the forks of the innermost *)
(* running with_scope() calls, in the order of the calls.                  *)
ForksInOrder(t) ==
    /\ stack[t] # <<>> => ~IsOpenFork(t, stack[t][1])
    /\ \A i, j \in DOMAIN stack[t] : stack[t][i] = stack[t][j] => i = j
    /\ \A i \in 2..Len(stack[t]) : IsOpenFork(t, stack[t][i])
    /\ \A m, n \in DOMAIN frames[t], i \in DOMAIN stack[t] :
         (frames[t][m].scope = stack[t][i] /\ m < n /\ frames[t][n].kind = "with_scope")
            => \E j \in (i + 1)..Len(stack[t]) : frames[t][n].scope = stack[t][j]

(* No fork outlives its callable, also when the callable closed or         *)
(* re-initialized the SDK, and the innermost fork is the current scope.    *)
StackFollowsCalls ==
    /\ \A t \in Thread : ForksInOrder(t)
    /\ ForkIsCurrent

(* "Outside of any with_scope, the returned scope stays current": a root   *)
(* of the present epoch is never removed or replaced, not even by the end  *)
(* of a with_scope() that began in an earlier session.                     *)
KeepsRoot ==
    \A t \in Thread :
        (stack[t] # <<>> /\ localEpoch[t] = epoch')
            => stack'[t] # <<>> /\ Head(stack'[t]) = Head(stack[t])

(* "The fork is discarded once the callable returns, and the parent scope  *)
(* becomes current again", under the same condition.                       *)
RestoresParent ==
    \A t \in Thread :
        Len(frames'[t]) < Len(frames[t]) =>
            LET f == Last(frames[t]) IN
            (f.kind = "with_scope" /\ f.epoch = epoch)
                => stack'[t] # <<>> /\ Last(stack'[t]) = f.parent

(* No step replaces the root of the present epoch, and the end of every    *)
(* with_scope() makes the scope current that was current when it began.    *)
ParentRestored == [][KeepsRoot /\ RestoresParent]_vars
=============================================================================
