----------------------------- MODULE Attachments -----------------------------
(***************************************************************************)
(* Attachments of events.  The facade keeps those that a configuration     *)
(* callback adds until the backend has started; afterwards they go into    *)
(* the global scope of the platform's SDK.  clear_attachments() removes    *)
(* those of the user and keeps the default ones (log file, screenshot,     *)
(* scene tree), which every backend does in its own way.  Whatever the     *)
(* platforms do with attachments while they are off is left out.           *)
(***************************************************************************)
EXTENDS Integers, Sequences, FiniteSets, TLC

CONSTANTS
    Backends,          \* of "native", "cocoa", "android", "web"
    MayFail,           \* those that may fail to start
    Nested,            \* a callback of init() calls init()
    Threads, Main,
    Atts               \* attachments of the user

AttachmentsAssumption ==
    /\ Backends \subseteq {"native", "cocoa", "android", "web"} /\ MayFail \subseteq Backends
    /\ Nested \in BOOLEAN /\ Main \in Threads

VARIABLES
    backend, enabled,
    options,           \* the custom attachments, and how often it lists the default ones
    is_configuring,
    inits,             \* calls of init() that run, the innermost last
    scope,             \* copies of the defaults and of each attachment
    user_attachments,  \* that the native backend knows it has added
    pending,           \* of each thread: the rest of its add or clear
    wanted             \* history: the attachments that the user has added and not cleared

vars == <<backend, enabled, options, is_configuring, inits, scope, user_attachments, pending, wanted>>

Idle == [kind |-> "idle"]
NoUsers == [a \in Atts |-> 0]
Attached == {a \in Atts : scope.users[a] > 0}
Fresh == [custom |-> {}, defaults |-> 0]
InitIs(stage) == inits # <<>> /\ inits[Len(inits)] = stage
Free(t) == pending[t] = Idle /\ (t = Main => inits = <<>> \/ InitIs("callback"))
AddedUsers(atts) == [a \in Atts |-> scope.users[a] + IF a \in atts THEN 1 ELSE 0]

Init ==
    /\ backend \in Backends /\ enabled = FALSE
    /\ options = Fresh /\ is_configuring = FALSE /\ inits = <<>>
    /\ scope = [defaults |-> 0, users |-> NoUsers] /\ user_attachments = {}
    /\ pending = [t \in Threads |-> Idle] /\ wanted = {}

(***************************************************************************)
(* init() and close()                                                      *)
(***************************************************************************)
\* Fresh options; the callback comes next if there is one.
InitSDK == \E callback \in BOOLEAN :
    /\ Free(Main) /\ ~enabled /\ (inits # <<>> => Nested /\ Len(inits) < 2)
    /\ options' = Fresh
    /\ is_configuring' = (is_configuring \/ callback)
    /\ inits' = Append(inits, IF callback THEN "callback" ELSE "start")
    /\ wanted' = IF inits = <<>> THEN {} ELSE wanted
    /\ UNCHANGED <<backend, enabled, scope, user_attachments, pending>>

Configuring == FALSE
CallbackReturns ==
    /\ InitIs("callback") /\ pending[Main] = Idle
    /\ is_configuring' = Configuring
    /\ inits' = [inits EXCEPT ![Len(inits)] = "start"]
    /\ UNCHANGED <<backend, enabled, options, scope, user_attachments, pending, wanted>>

\* The scope of a backend that starts with these default attachments
Started(started, defaults) ==
    IF backend = "android" THEN [scope EXCEPT !.defaults = @ + defaults]
    ELSE [defaults |-> IF started THEN defaults ELSE 0, users |-> NoUsers]

StartBackend == \E started \in {TRUE} \cup (IF backend \in MayFail THEN {FALSE} ELSE {}) :
    /\ InitIs("start")
    /\ options' = [options EXCEPT !.defaults = @ + 1]
    /\ scope' = Started(started, options.defaults + 1)
    /\ enabled' = started
    /\ inits' = IF started THEN [inits EXCEPT ![Len(inits)] = "drain"]
                ELSE SubSeq(inits, 1, Len(inits) - 1)
    /\ UNCHANGED <<backend, is_configuring, user_attachments, pending, wanted>>

\* The custom attachments, once the backend runs
Drained == options.custom
Drain ==
    /\ InitIs("drain")
    /\ scope' = [scope EXCEPT !.users = AddedUsers(Drained)]
    /\ user_attachments' = IF backend = "native" THEN user_attachments \cup Drained ELSE {}
    /\ options' = [options EXCEPT !.custom = {}]
    /\ inits' = SubSeq(inits, 1, Len(inits) - 1)
    /\ UNCHANGED <<backend, enabled, is_configuring, pending, wanted>>

\* The native and the Android SDK drop what their scope holds; the scopes of
\* the JavaScript SDK live on.
Close ==
    /\ Free(Main) /\ inits = <<>> /\ enabled
    /\ enabled' = FALSE /\ wanted' = {} /\ user_attachments' = {}
    /\ scope' = IF backend = "web" THEN scope ELSE [defaults |-> 0, users |-> NoUsers]
    /\ UNCHANGED <<backend, options, is_configuring, inits, pending>>

(***************************************************************************)
(* add_attachment() and clear_attachments()                                *)
(***************************************************************************)
Custom_add(t) == \E a \in Atts :
    /\ Free(t) /\ is_configuring /\ a \notin wanted \cup Attached
    /\ options' = [options EXCEPT !.custom = @ \cup {a}]
    /\ wanted' = wanted \cup {a}
    /\ UNCHANGED <<backend, enabled, is_configuring, inits, scope, user_attachments, pending>>

Custom_clear(t) ==
    /\ Free(t) /\ is_configuring
    /\ options' = [options EXCEPT !.custom = {}]
    /\ wanted' = {}
    /\ UNCHANGED <<backend, enabled, is_configuring, inits, scope, user_attachments, pending>>

\* The native backend then appends the handle to a vector without a lock.
Add(t) == \E a \in Atts :
    /\ Free(t) /\ ~is_configuring /\ enabled /\ a \notin wanted \cup Attached
    /\ scope' = [scope EXCEPT !.users = AddedUsers({a})]
    /\ wanted' = wanted \cup {a}
    /\ pending' = IF backend = "native"
                  THEN [pending EXCEPT ![t] = [kind |-> "push", next |-> user_attachments \cup {a}]]
                  ELSE pending
    /\ UNCHANGED <<backend, enabled, options, is_configuring, inits, user_attachments>>

\* The native backend removes what is in that vector and empties it, the other
\* ones clear the scope and add the default attachments again.
Cleared_All == [defaults |-> 0, users |-> NoUsers]
Cleared ==
    CASE backend = "native" ->
           [scope EXCEPT !.users = [a \in Atts |-> IF a \in user_attachments THEN 0 ELSE @[a]]]
      [] backend = "cocoa" -> [defaults |-> options.defaults, users |-> NoUsers]
      [] OTHER -> [defaults |-> 0, users |-> NoUsers]
Clear(t) ==
    /\ Free(t) /\ ~is_configuring /\ enabled
    /\ scope' = Cleared
    /\ wanted' = {}
    /\ pending' = CASE backend = "native" -> [pending EXCEPT ![t] = [kind |-> "push", next |-> {}]]
                    [] backend = "cocoa" -> pending
                    [] OTHER -> [pending EXCEPT ![t] = [kind |-> "defaults"]]
    /\ UNCHANGED <<backend, enabled, options, is_configuring, inits, user_attachments>>

Pushed(t) == pending[t].next
Push_back(t) ==
    /\ pending[t].kind = "push"
    /\ user_attachments' = Pushed(t)
    /\ pending' = [pending EXCEPT ![t] = Idle]
    /\ UNCHANGED <<backend, enabled, options, is_configuring, inits, scope, wanted>>

Add_default_attachments(t) ==
    /\ pending[t].kind = "defaults"
    /\ scope' = [scope EXCEPT !.defaults = @ + options.defaults]
    /\ pending' = [pending EXCEPT ![t] = Idle]
    /\ UNCHANGED <<backend, enabled, options, is_configuring, inits, user_attachments, wanted>>

Next ==
    \/ InitSDK \/ CallbackReturns \/ StartBackend \/ Drain \/ Close
    \/ \E t \in Threads :
         \/ Custom_add(t) \/ Custom_clear(t) \/ Add(t) \/ Clear(t)
         \/ Push_back(t) \/ Add_default_attachments(t)

Spec == Init /\ [][Next]_vars

(***************************************************************************)
(* Properties                                                              *)
(***************************************************************************)
AtRest == enabled /\ inits = <<>> /\ \A t \in Threads : pending[t] = Idle

TypeOK ==
    /\ scope.defaults \in Nat /\ scope.users \in [Atts -> Nat]
    /\ user_attachments \subseteq Atts /\ (backend # "native" => user_attachments = {})
    /\ options.custom \subseteq Atts /\ options.defaults \in 0..1
    /\ is_configuring => inits # <<>>

\* Events have every attachment that the user has added and not cleared, once,
\* those of the configuration callback included, and none of an earlier session
\* (SentrySDK::add_attachment(), SentrySDK::init()).
AttachmentsKept == AtRest => scope.users = [a \in Atts |-> IF a \in wanted THEN 1 ELSE 0]

\* Events have the default attachments, each once, whatever was cleared or
\* started before (SentryOptions::default_attachments).
DefaultsOnce == AtRest => scope.defaults = 1

\* clear_attachments() would remove every attachment of the user that the native
\* scope has, and no other (NativeSDK::user_attachments).
ClearReachesAll == AtRest /\ backend = "native" => user_attachments = Attached
=============================================================================
