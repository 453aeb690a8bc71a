------------------------- MODULE CoreClrExceptions -------------------------
(***************************************************************************)
(* CoreClrExceptionHandler with its FirstChanceExceptionPool, which finds  *)
(* the exceptions that the bridge caught while the debugger is active.     *)
(*                                                                         *)
(* A throw is seen twice: the pool queues the exception, on the thread that*)
(* throws, and the runtime emits an event, which carries the thread's id   *)
(* only.  A catch is seen as an event.  The listener's thread gets the     *)
(* events later; at a catch it takes as many exceptions from the thread's  *)
(* queue as were thrown since the last catch, and the last of these is the *)
(* one that was caught.  The queues of threads that have died are removed  *)
(* when a finalizer has reported the thread.                               *)
(***************************************************************************)
EXTENDS Integers, Sequences, FiniteSets, SequencesExt, FiniteSetsExt

CONSTANTS
    Thread, MaxThrown,  \* as in ExceptionCapture
    CleanupInterval,
    MaxLag,           \* an event waits no longer for the listener
    MaxTime           \* bound of the clock

CoreClrAssumption == {MaxThrown, CleanupInterval, MaxLag, MaxTime} \subseteq Nat

VARIABLES
    faults, thrown, inFlight, bridged, captured,  \* as in ExceptionCapture
    raising,      \* per thread: the first-chance handler is still to run
    alive,        \* per thread id: a thread has it
    sentinel,     \* per thread id: _sentinel of the living thread is set
    unfinalized,  \* per thread id: sentinels, of dead threads or replaced, to finalize
    pending,      \* _pending; ids without a queue are not in its domain
    listening,    \* the runtime's exception events are enabled
    events,       \* events for the listener, in the order they were emitted
    throwCounts,  \* _throwCounts; 0 where it has no entry
    cleaning,     \* the listener is about to call CleanupDeadThreads()
    deadIncoming, deadPending,  \* _deadThreadsIncoming, ..PendingCleanup
    lastCleanup,
    now           \* the clock

promise == <<faults, thrown, inFlight, bridged, captured>>
threads == <<alive, sentinel, unfinalized>>
dead == <<deadIncoming, deadPending, lastCleanup>>
vars == <<promise, raising, threads, pending, listening, events, throwCounts, cleaning,
          dead, now>>

Abstract == INSTANCE ExceptionCapture
Exception == 1..MaxThrown
Event == [kind : {"thrown", "catch"}, thread : Thread, bridge : BOOLEAN, at : Nat]

TypeOK ==
    /\ Abstract!TypeOK
    /\ {raising, alive, sentinel} \subseteq [Thread -> BOOLEAN]
    /\ unfinalized \in [Thread -> Nat]
    /\ {DOMAIN pending, deadPending} \subseteq SUBSET Thread
    /\ \A t \in DOMAIN pending : pending[t] \in Seq(Exception)
    /\ {listening, cleaning} \subseteq BOOLEAN
    /\ events \in Seq(Event)
    /\ throwCounts \in [Thread -> Nat]
    /\ deadIncoming \in Seq(Thread)
    /\ {lastCleanup, now} \subseteq Nat

(* The pool subscribes in a field initializer, before the base constructor *)
(* of the listener has the events enabled.                                 *)
Init ==
    /\ Abstract!Init
    /\ raising = [t \in Thread |-> FALSE]
    /\ alive = [t \in Thread |-> TRUE]
    /\ sentinel = [t \in Thread |-> FALSE]
    /\ unfinalized = [t \in Thread |-> 0]
    /\ deadPending = {} /\ deadIncoming = <<>>
    /\ pending = <<>> /\ events = <<>>
    /\ listening = ("early throw" \notin faults)
    /\ throwCounts = [t \in Thread |-> 0]
    /\ cleaning = FALSE
    /\ lastCleanup = 0 /\ now = 0

OnEventSourceCreated ==
    /\ ~listening
    /\ listening' = TRUE
    /\ UNCHANGED <<promise, raising, threads, pending, events, throwCounts, cleaning,
                   dead, now>>

Emit(kind, t, bridge) ==
    events' = IF listening
              THEN Append(events, [kind |-> kind, thread |-> t, bridge |-> bridge, at |-> now])
              ELSE events

-----------------------------------------------------------------------------
(* The threads: ExceptionThrown is emitted first, then the first-chance    *)
(* handlers run, then a catch is found.                                    *)
Throw(t) ==
    /\ alive[t] /\ ~raising[t]
    /\ Abstract!Throw(t)
    /\ raising' = [raising EXCEPT ![t] = TRUE]
    /\ Emit("thrown", t, FALSE)
    /\ UNCHANGED <<threads, pending, listening, throwCounts, cleaning, dead, now>>

(* A sentinel that nothing refers to any longer will be finalized.         *)
Abandoned(t) == [unfinalized EXCEPT ![t] = IF sentinel[t] THEN @ + 1 ELSE @]

(* A thread whose queue was removed gets a new one, and a new sentinel.    *)
OnFirstChanceException(t) ==
    /\ raising[t]
    /\ raising' = [raising EXCEPT ![t] = FALSE]
    /\ LET queue == IF t \in DOMAIN pending THEN pending[t] ELSE <<>> IN
       pending' = [s \in DOMAIN pending \cup {t} |->
                     IF s = t THEN Append(queue, Last(inFlight[t])) ELSE pending[s]]
    /\ sentinel' = [sentinel EXCEPT ![t] = @ \/ t \notin DOMAIN pending]
    /\ unfinalized' = IF t \in DOMAIN pending THEN unfinalized ELSE Abandoned(t)
    /\ UNCHANGED <<promise, alive, listening, events, throwCounts, cleaning, dead, now>>

Catch(t, bridge, left) ==
    /\ ~raising[t]
    /\ Abstract!Catch(t, bridge, left)
    /\ Emit("catch", t, bridge)
    /\ UNCHANGED <<raising, threads, pending, listening, throwCounts, cleaning, dead, now>>

Exit(t) ==
    /\ alive[t] /\ ~raising[t] /\ inFlight[t] = <<>>
    /\ alive' = [alive EXCEPT ![t] = FALSE]
    /\ sentinel' = [sentinel EXCEPT ![t] = FALSE]
    /\ unfinalized' = Abandoned(t)
    /\ UNCHANGED <<promise, raising, pending, listening, events, throwCounts, cleaning,
                   dead, now>>

Start(t) ==
    /\ "reused id" \in faults /\ ~alive[t]
    /\ alive' = [alive EXCEPT ![t] = TRUE]
    /\ UNCHANGED <<promise, raising, sentinel, unfinalized, pending, listening, events,
                   throwCounts, cleaning, dead, now>>

(* ~ThreadCleanupSentinel, whenever the garbage collector gets to it.      *)
Finalize(t) ==
    /\ unfinalized[t] > 0
    /\ unfinalized' = [unfinalized EXCEPT ![t] = @ - 1]
    /\ deadIncoming' = Append(deadIncoming, t)
    /\ UNCHANGED <<promise, raising, alive, sentinel, pending, listening, events,
                   throwCounts, cleaning, deadPending, lastCleanup, now>>

Tick ==
    /\ now < MaxTime
    /\ \A i \in DOMAIN events : now - events[i].at < MaxLag
    /\ now' = now + 1
    /\ UNCHANGED <<promise, raising, threads, pending, listening, events, throwCounts,
                   cleaning, dead>>

-----------------------------------------------------------------------------
(* The listener's thread.                                                  *)
Handles(kind) == events # <<>> /\ ~cleaning /\ Head(events).kind = kind

HandleExceptionThrown ==
    /\ Handles("thrown")
    /\ events' = Tail(events)
    /\ throwCounts' = [throwCounts EXCEPT ![Head(events).thread] = @ + 1]
    /\ UNCHANGED <<promise, raising, threads, pending, listening, cleaning, dead, now>>

(* What DrainPending() finds, and what it leaves in the queue.  When there *)
(* are too few, the queue is cleared and nothing matches.                  *)
CanDrain(t, count) == t \in DOMAIN pending /\ Len(pending[t]) >= count
Matched(t, count) == IF CanDrain(t, count) THEN {pending[t][count]} ELSE {}
(* Mutant: a queue with too few is left as it is.                          *)
Drained_KeepsUnderfilled(t, count) ==
    [s \in DOMAIN pending |->
       IF s = t /\ CanDrain(t, count) THEN SubSeq(pending[t], count + 1, Len(pending[t]))
       ELSE pending[s]]

Drained(t, count) ==
    [s \in DOMAIN pending |->
       IF s # t THEN pending[s]
       ELSE IF CanDrain(t, count) THEN SubSeq(pending[t], count + 1, Len(pending[t]))
       ELSE <<>>]

HandleExceptionCatchStart ==
    /\ Handles("catch")
    /\ LET event == Head(events)
           count == Max({throwCounts[event.thread], 1}) IN
       /\ pending' = Drained(event.thread, count)
       /\ captured' = [e \in Exception |->
                         IF event.bridge /\ e \in Matched(event.thread, count)
                         THEN captured[e] + 1 ELSE captured[e]]
       /\ throwCounts' = [throwCounts EXCEPT ![event.thread] = 0]
    /\ events' = Tail(events)
    /\ cleaning' = TRUE
    /\ UNCHANGED <<faults, thrown, inFlight, bridged, raising, threads, listening, dead, now>>

Due == lastCleanup + CleanupInterval <= now

RemoveThreads(threadIds) ==
    /\ pending' = [t \in DOMAIN pending \ threadIds |-> pending[t]]
    /\ throwCounts' = [t \in Thread |-> IF t \in threadIds THEN 0 ELSE throwCounts[t]]

(* Mutant: the threads reported since the last time go at once.            *)
CleanupDeadThreads_AtOnce ==
    /\ cleaning /\ cleaning' = FALSE
    /\ IF Due
       THEN /\ RemoveThreads(ToSet(deadIncoming)) /\ deadIncoming' = <<>>
            /\ lastCleanup' = now
       ELSE UNCHANGED <<pending, throwCounts, lastCleanup, deadIncoming>>
    /\ UNCHANGED <<promise, raising, threads, listening, events, deadPending, now>>

CleanupDeadThreads ==
    /\ cleaning /\ cleaning' = FALSE
    /\ IF Due
       THEN /\ RemoveThreads(deadPending)
            /\ deadPending' = ToSet(deadIncoming) /\ deadIncoming' = <<>>
            /\ lastCleanup' = now
       ELSE UNCHANGED <<pending, throwCounts, dead>>
    /\ UNCHANGED <<promise, raising, threads, listening, events, now>>

Listen == HandleExceptionThrown \/ HandleExceptionCatchStart \/ CleanupDeadThreads

Next ==
    \/ OnEventSourceCreated
    \/ \E t \in Thread :
         \/ Throw(t)
         \/ OnFirstChanceException(t)
         \/ \E bridge \in BOOLEAN, left \in 0..MaxThrown : Catch(t, bridge, left)
         \/ Exit(t)
         \/ Start(t)
         \/ Finalize(t)
    \/ Tick
    \/ Listen

(* The dispatch thread of the runtime delivers the events.                 *)
Spec == Init /\ [][Next]_vars /\ WF_vars(Listen)

-----------------------------------------------------------------------------
(***************************************************************************)
(* Properties.                                                             *)
(***************************************************************************)
(* "When ExceptionCatchStart reports a Godot bridge method as the catcher, *)
(* the exception is classified as unhandled by user code and sent": without*)
(* faults each exception caught by the bridge is captured in the end, once,*)
(* and no other is, however late the listener is.                          *)
CapturesWhatBridgeCaught == Abstract!Spec

(* The counts of the listener and the queue of a thread agree: when an     *)
(* event is handled, the queue holds exactly the exceptions of the events  *)
(* that are still to come, and of those already counted.                   *)
QueueLength(t) == IF t \in DOMAIN pending THEN Len(pending[t]) ELSE 0
ThrownAhead(t) == Cardinality({i \in DOMAIN events : events[i].thread = t
                                                  /\ events[i].kind = "thrown"})
QueueMatchesEvents ==
    \A t \in Thread :
        QueueLength(t) + (IF raising[t] THEN 1 ELSE 0) = throwCounts[t] + ThrownAhead(t)

(* "Dead threads observed this cycle are removed next cycle, so in-flight  *)
(* events have time to drain": without faults nothing is lost by the       *)
(* removal, provided the listener is less than an interval late; and the   *)
(* counts of the listener agree with the queues of the threads.            *)
CleanupAfterDrain ==
    [][faults = {} =>
         /\ \A t \in DOMAIN pending \ DOMAIN pending' : pending[t] = <<>>
         /\ QueueMatchesEvents']_vars

(* However a thread gets out of step by exceptions caught within finally   *)
(* blocks: once all its events are handled and nothing is in flight, no    *)
(* stale exception is left for its next catch ("clear the queue to avoid   *)
(* stale data").  This does not hold of a thread with the id of a dead one:*)
(* when the dead one's count and queue are removed between the event of a  *)
(* throw and its first-chance handler, the thread stays one exception off. *)
Quiet(t) == inFlight[t] = <<>> /\ \A i \in DOMAIN events : events[i].thread # t
BackInStep ==
    faults \subseteq {"inner catch"} =>
        \A t \in DOMAIN pending : Quiet(t) => pending[t] = <<>>

=============================================================================
