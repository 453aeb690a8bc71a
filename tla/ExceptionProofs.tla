-------------------------- MODULE ExceptionProofs --------------------------
(***************************************************************************)
(* What the two exception handlers promise, proved for any number of       *)
(* threads and exceptions: with faults nothing is captured twice, and what *)
(* goes wrong is contained; without faults the queues and the counts of    *)
(* the debugger's handler agree, its cleanup loses nothing, and each step  *)
(* of either handler is a step of ExceptionCapture.                        *)
(***************************************************************************)
EXTENDS MCExceptions, FiniteSetTheorems, SequenceTheorems, TLAPS

-----------------------------------------------------------------------------
(***************************************************************************)
(* The inductive invariants of CoreClrExceptions.                          *)
(***************************************************************************)
Queue(t) == IF t \in DOMAIN pending THEN pending[t] ELSE <<>>
InQueue(e, t) == \E i \in 1..Len(Queue(t)) : Queue(t)[i] = e

(* The exceptions that were thrown and not yet drained: in the queue of    *)
(* their thread, or with its first-chance handler.                         *)
Waiting(e, t) == InQueue(e, t) \/ (raising[t] /\ e = Last(inFlight[t]))

OnceInv ==
    /\ \A t \in Thread : raising[t] => inFlight[t] # <<>>
    /\ \A t \in Thread : \A i, j \in 1..Len(Queue(t)) :
         Queue(t)[i] = Queue(t)[j] => i = j
    /\ \A t \in Thread : raising[t] => ~InQueue(Last(inFlight[t]), t)
    /\ \A e \in Exception : \A s, t \in Thread : Waiting(e, s) /\ Waiting(e, t) => s = t
    /\ \A e \in Exception : \A t \in Thread : Waiting(e, t) => e <= thrown /\ captured[e] = 0
    /\ \A e \in Exception : captured[e] <= 1 /\ (captured[e] > 0 => e <= thrown)

(* Events of a thread, by their position.                                  *)
ThrownAt(es, t, i) == es[i].thread = t /\ es[i].kind = "thrown"
CatchAt(es, t, i) == es[i].thread = t /\ es[i].kind = "catch"
ThrownBefore(es, t, k) == Cardinality({i \in 1..(k - 1) : ThrownAt(es, t, i)})

(* Before event k, an exception of the thread is counted (there are c so   *)
(* far) or to be counted that no catch has ended.                          *)
OpenIn(es, c, t, k) ==
    \/ \E i \in 1..(k - 1) : /\ ThrownAt(es, t, i)
                             /\ \A j \in (i + 1)..(k - 1) : ~CatchAt(es, t, j)
    \/ c > 0 /\ \A j \in 1..(k - 1) : ~CatchAt(es, t, j)

(* The last event of the thread, if there is one, is no catch.             *)
ThrownLast(es, t) ==
    \A j \in 1..Len(es) : CatchAt(es, t, j) => \E i \in (j + 1)..Len(es) : ThrownAt(es, t, i)

(* Threads neither throw before the events are enabled nor reuse ids.      *)
InnerOnly == faults \subseteq {"inner catch"}

(* What is reported as dead is dead, and stays so: the sentinel of a       *)
(* living thread is never replaced, since its queue is not removed.        *)
DeadInv ==
    /\ listening
    /\ \A t \in Thread : ~alive[t] => ~raising[t] /\ inFlight[t] = <<>>
    /\ \A t \in Thread : sentinel[t] => alive[t] /\ t \in DOMAIN pending
    /\ \A t \in Thread : unfinalized[t] > 0 \/ t \in deadPending => ~alive[t]
    /\ \A i \in 1..Len(deadIncoming) : ~alive[deadIncoming[i]]

(* A thread's queue is never longer than its counts say; and where nothing *)
(* is in flight, the last event of the thread is a catch.                  *)
InStep(t) ==
    /\ Len(Queue(t)) + (IF raising[t] THEN 1 ELSE 0) <= throwCounts[t] + ThrownAhead(t)
    /\ inFlight[t] = <<>> => ~OpenIn(events, throwCounts[t], t, Len(events) + 1)
    /\ raising[t] => ThrownLast(events, t)
StepInv == \A t \in Thread : InStep(t)

(* Events reach the listener within MaxLag, and those of a thread that is  *)
(* to be removed are not younger than the last cleanup.                    *)
TimeInv ==
    /\ lastCleanup <= now
    /\ \A i \in 1..Len(events) : events[i].at <= now /\ now <= events[i].at + MaxLag
    /\ \A i \in 1..Len(events) : events[i].thread \in deadPending => events[i].at <= lastCleanup

(* Without faults a catch ends what was thrown since the last, and the     *)
(* counts, c now, lead in queue q to the exception that it has caught.     *)
Leads(es, c, q, t, bs, k) ==
    /\ OpenIn(es, c, t, k)
    /\ c + ThrownBefore(es, t, k) <= Len(q)
    /\ es[k].bridge => q[c + ThrownBefore(es, t, k)] \in bs
CatchesLead(es, c, q, t, bs) ==
    \A k \in 1..Len(es) : CatchAt(es, t, k) => Leads(es, c, q, t, bs, k)
Matches(t) ==
    /\ Len(Queue(t)) + (IF raising[t] THEN 1 ELSE 0) = throwCounts[t] + ThrownAhead(t)
    /\ inFlight[t] # <<>> => OpenIn(events, throwCounts[t], t, Len(events) + 1)
    /\ inFlight[t] # <<>> /\ ~raising[t] =>
         Queue(t) # <<>> /\ Last(Queue(t)) = Last(inFlight[t])
    /\ CatchesLead(events, throwCounts[t], Queue(t), t, bridged)
MatchInv == \A t \in Thread : Matches(t)

(* The listener is less than an interval late.                             *)
Prompt == MaxLag < CleanupInterval

DebuggerInv ==
    /\ TypeOK /\ OnceInv
    /\ InnerOnly => DeadInv /\ StepInv
    /\ faults = {} /\ Prompt => TimeInv /\ MatchInv

(***************************************************************************)
(* The inductive invariants of LoggerExceptions.                           *)
(***************************************************************************)
InFlight(e, t) == \E i \in 1..Len(inFlight[t]) : inFlight[t][i] = e
Of(e, t) == InFlight(e, t) \/ e = lastException[t] \/ e = logged[t]

(* An exception belongs to one thread until it is captured.                *)
OfInv ==
    /\ \A e \in Exception : \A s, t \in Thread : Of(e, s) /\ Of(e, t) => s = t
    /\ \A e \in Exception : \A t \in Thread : Of(e, t) => e <= thrown /\ captured[e] = 0
    /\ \A e \in Exception : captured[e] <= 1 /\ (captured[e] > 0 => e <= thrown)

(* What is logged was caught by the bridge, and nothing that is remembered *)
(* is older.                                                               *)
LastInv(t) ==
    /\ isProcessing[t] => lastException[t] = 0 /\ logged[t] = 0
    /\ \A e \in Exception : InFlight(e, t) /\ ~isProcessing[t] => e <= lastException[t]
    /\ logged[t] # 0 => /\ inFlight[t] = <<>> /\ logged[t] \in bridged
                        /\ logged[t] <= lastException[t]
    /\ faults = {} =>
         /\ inFlight[t] # <<>> /\ ~isProcessing[t] => lastException[t] = Last(inFlight[t])
         /\ logged[t] # 0 => lastException[t] = logged[t]

(* What was captured for another was, and the other never will be.         *)
TakenFor(e, b) ==
    /\ b < e /\ captured[b] = 0 /\ Logger!IsPrefix(typeOf[e], typeOf[b])
    /\ \A t \in Thread : lastException[t] # b
StaleInv ==
    \A e \in Exception : captured[e] > 0 /\ e \notin bridged =>
        \E b \in bridged : TakenFor(e, b)

LoggerInv == Logger!TypeOK /\ OfInv /\ (\A t \in Thread : LastInv(t)) /\ StaleInv

DebuggerRests ==
    /\ pending = <<>> /\ events = <<>>
    /\ raising = [t \in Thread |-> FALSE] /\ throwCounts = [t \in Thread |-> 0]

ExceptionsInv ==
    /\ setup \in DebuggerSetups \cup LoggerSetups
    /\ setup \in DebuggerSetups => DebuggerInv
    /\ setup \in LoggerSetups => LoggerInv /\ DebuggerRests

-----------------------------------------------------------------------------
(***************************************************************************)
(* Sequences and the count of a thread's events.                           *)
(***************************************************************************)
LEMMA AppendShape ==
    ASSUME NEW S, NEW q \in Seq(S), NEW x \in S
    PROVE  /\ Append(q, x) \in Seq(S)
           /\ Len(Append(q, x)) = Len(q) + 1
           /\ \A i \in 1..Len(q) : Append(q, x)[i] = q[i]
           /\ Append(q, x)[Len(q) + 1] = x
OBVIOUS

LEMMA TailShape ==
    ASSUME NEW S, NEW q \in Seq(S), q # <<>>
    PROVE  /\ Head(q) = q[1] /\ q[1] \in S
           /\ Len(q) \in Nat /\ Len(q) >= 1
           /\ Tail(q) \in Seq(S)
           /\ Len(Tail(q)) = Len(q) - 1
           /\ \A i \in 1..(Len(q) - 1) : Tail(q)[i] = q[i + 1]
BY HeadTailProperties

(* What is left of a queue from which the first exceptions were taken.     *)
LEMMA RestShape ==
    ASSUME NEW S, NEW q \in Seq(S), NEW n \in Nat, n <= Len(q)
    PROVE  /\ SubSeq(q, n + 1, Len(q)) \in Seq(S)
           /\ Len(SubSeq(q, n + 1, Len(q))) = Len(q) - n
           /\ \A i \in 1..(Len(q) - n) : SubSeq(q, n + 1, Len(q))[i] = q[i + n]
<1>1. Len(q) \in Nat /\ n + 1 \in Int /\ Len(q) \in Int  OBVIOUS
<1>2. \A i \in (n + 1)..Len(q) : q[i] \in S  BY <1>1
<1>3. /\ SubSeq(q, n + 1, Len(q)) \in Seq(S)
      /\ Len(SubSeq(q, n + 1, Len(q))) = IF n + 1 <= Len(q) THEN Len(q) - (n + 1) + 1 ELSE 0
      /\ \A i \in 1..(Len(q) - (n + 1) + 1) : SubSeq(q, n + 1, Len(q))[i] = q[(n + 1) + i - 1]
  BY <1>1, <1>2, SubSeqProperties
<1>. QED BY <1>1, <1>3

LEMMA MaxWithOne ==
    ASSUME NEW n \in Nat
    PROVE  Max({n, 1}) \in Nat /\ Max({n, 1}) = IF n >= 1 THEN n ELSE 1
<1>1. PICK m \in {n, 1} : \A k \in {n, 1} : m >= k  OBVIOUS
<1>2. Max({n, 1}) \in {n, 1} /\ \A k \in {n, 1} : Max({n, 1}) >= k  BY <1>1 DEF Max
<1>. QED BY <1>2

LEMMA CountType ==
    ASSUME NEW es, NEW t, NEW k \in Nat
    PROVE  /\ IsFiniteSet({i \in 1..(k - 1) : ThrownAt(es, t, i)})
           /\ ThrownBefore(es, t, k) \in Nat
           /\ ThrownBefore(es, t, k) >= 1 <=> \E i \in 1..(k - 1) : ThrownAt(es, t, i)
<1>. DEFINE T == {i \in 1..(k - 1) : ThrownAt(es, t, i)}
<1>1. IsFiniteSet(1..(k - 1))  BY FS_Interval
<1>2. IsFiniteSet(T)  BY <1>1, FS_Subset
<1>3. Cardinality(T) \in Nat /\ (Cardinality(T) = 0 <=> T = {})
  BY <1>2, FS_CardinalityType, FS_EmptySet
<1>. QED BY <1>2, <1>3 DEF ThrownBefore

(* An event that is appended counts as the last one.                       *)
LEMMA CountAppend ==
    ASSUME NEW es \in Seq(Event), NEW event \in Event, NEW t
    PROVE  /\ \A k \in 1..(Len(es) + 1) :
                ThrownBefore(Append(es, event), t, k) = ThrownBefore(es, t, k)
           /\ ThrownBefore(Append(es, event), t, Len(es) + 2)
                = ThrownBefore(es, t, Len(es) + 1)
                    + (IF event.thread = t /\ event.kind = "thrown" THEN 1 ELSE 0)
<1>. DEFINE app == Append(es, event)
            n == Len(es)
            T == {i \in 1..n : ThrownAt(es, t, i)}
<1>1. n \in Nat /\ (\A i \in 1..n : app[i] = es[i]) /\ app[n + 1] = event  BY AppendShape
<1>. HIDE DEF app, n
<1>2. ASSUME NEW k \in 1..(n + 1)
      PROVE  ThrownBefore(app, t, k) = ThrownBefore(es, t, k)
  <2>1. {i \in 1..(k - 1) : ThrownAt(app, t, i)} = {i \in 1..(k - 1) : ThrownAt(es, t, i)}
    BY <1>1 DEF ThrownAt
  <2>. QED BY <2>1 DEF ThrownBefore
<1>3. IsFiniteSet(T) /\ Cardinality(T) \in Nat
  <2>1. IsFiniteSet(1..n)  BY <1>1, FS_Interval
  <2>2. IsFiniteSet(T)  BY <2>1, FS_Subset
  <2>. QED BY <2>2, FS_CardinalityType
<1>4. (n + 1) - 1 = n /\ (n + 2) - 1 = n + 1  BY <1>1
<1>5. ThrownBefore(app, t, n + 2)
        = ThrownBefore(es, t, n + 1)
            + (IF event.thread = t /\ event.kind = "thrown" THEN 1 ELSE 0)
  <2>1. CASE event.thread = t /\ event.kind = "thrown"
    <3>1. {i \in 1..(n + 1) : ThrownAt(app, t, i)} = T \cup {n + 1}
      BY <1>1, <2>1 DEF ThrownAt
    <3>2. n + 1 \notin T  BY <1>1
    <3>3. Cardinality(T \cup {n + 1}) = Cardinality(T) + 1  BY <1>3, <3>2, FS_AddElement
    <3>. QED BY <1>3, <1>4, <2>1, <3>1, <3>3 DEF ThrownBefore
  <2>2. CASE ~(event.thread = t /\ event.kind = "thrown")
    <3>1. {i \in 1..(n + 1) : ThrownAt(app, t, i)} = T
      BY <1>1, <2>2 DEF ThrownAt
    <3>2. (IF event.thread = t /\ event.kind = "thrown" THEN 1 ELSE 0) = 0  BY <2>2
    <3>3. ThrownBefore(app, t, n + 2) = Cardinality(T)  BY <1>4, <3>1 DEF ThrownBefore
    <3>4. ThrownBefore(es, t, n + 1) = Cardinality(T)  BY <1>4 DEF ThrownBefore
    <3>. QED BY <1>3, <3>2, <3>3, <3>4
  <2>. QED BY <2>1, <2>2
<1>. QED BY <1>2, <1>5 DEF app, n

(* Without its first event a sequence counts one less, or the same.        *)
LEMMA CountTail ==
    ASSUME NEW es \in Seq(Event), es # <<>>, NEW t
    PROVE  \A k \in 1..Len(es) :
             ThrownBefore(es, t, k + 1)
               = ThrownBefore(Tail(es), t, k) + (IF ThrownAt(es, t, 1) THEN 1 ELSE 0)
<1>. SUFFICES ASSUME NEW k \in 1..Len(es)
              PROVE  ThrownBefore(es, t, k + 1)
                       = ThrownBefore(Tail(es), t, k) + (IF ThrownAt(es, t, 1) THEN 1 ELSE 0)
  OBVIOUS
<1>. DEFINE rest == Tail(es)
            R == {i \in 1..(k - 1) : ThrownAt(rest, t, i)}
            T == {i \in 1..k : ThrownAt(es, t, i)}
            U == {i \in 2..k : ThrownAt(es, t, i)}
            f == [i \in R |-> i + 1]
<1>1. Len(es) \in Nat /\ \A i \in 1..(Len(es) - 1) : rest[i] = es[i + 1]  BY TailShape
<1>. HIDE DEF rest
<1>2. IsFiniteSet(R) /\ Cardinality(R) \in Nat
  <2>1. IsFiniteSet(1..(k - 1))  BY <1>1, FS_Interval
  <2>2. IsFiniteSet(R)  BY <2>1, FS_Subset
  <2>. QED BY <2>2, FS_CardinalityType
<1>3. f \in Bijection(R, U)
  <2>1. \A i \in R : i + 1 \in U  BY <1>1 DEF ThrownAt
  <2>2. \A j \in U : j - 1 \in R /\ (j - 1) + 1 = j  BY <1>1 DEF ThrownAt
  <2>3. f \in [R -> U]  BY <2>1
  <2>4. \A i, j \in R : f[i] = f[j] => i = j  OBVIOUS
  <2>5. \A j \in U : \E i \in R : f[i] = j  BY <2>2
  <2>. QED BY <2>3, <2>4, <2>5 DEF Bijection, Injection, Surjection, IsInjective
<1>4. IsFiniteSet(U) /\ Cardinality(U) = Cardinality(R)
  <2>1. ExistsBijection(R, U)  BY <1>3 DEF ExistsBijection
  <2>. QED BY <1>2, <2>1, FS_Bijection
<1>5. (k + 1) - 1 = k  OBVIOUS
<1>6. CASE ThrownAt(es, t, 1)
  <2>1. T = U \cup {1}  BY <1>6
  <2>2. 1 \notin U  OBVIOUS
  <2>3. Cardinality(T) = Cardinality(U) + 1  BY <1>4, <2>1, <2>2, FS_AddElement
  <2>. QED BY <1>2, <1>4, <1>5, <1>6, <2>3 DEF ThrownBefore, rest
<1>7. CASE ~ThrownAt(es, t, 1)
  <2>1. T = U  BY <1>7
  <2>2. ThrownBefore(es, t, k + 1) = Cardinality(T)  BY <1>5 DEF ThrownBefore
  <2>3. ThrownBefore(rest, t, k) = Cardinality(R)  BY DEF ThrownBefore
  <2>4. (IF ThrownAt(es, t, 1) THEN 1 ELSE 0) = 0  BY <1>7
  <2>5. Cardinality(T) = Cardinality(R)  BY <1>4, <2>1
  <2>. HIDE DEF R, T
  <2>. QED BY <1>2, <2>2, <2>3, <2>4, <2>5 DEF rest
<1>. QED BY <1>6, <1>7

-----------------------------------------------------------------------------
(***************************************************************************)
(* Types of CoreClrExceptions.                                             *)
(***************************************************************************)
Types ==
    /\ faults \subseteq Abstract!Fault
    /\ thrown \in Nat /\ thrown <= MaxThrown
    /\ inFlight \in [Thread -> Seq(Exception)]
    /\ bridged \subseteq Exception /\ captured \in [Exception -> Nat]
    /\ raising \in [Thread -> BOOLEAN] /\ alive \in [Thread -> BOOLEAN]
    /\ sentinel \in [Thread -> BOOLEAN]
    /\ unfinalized \in [Thread -> Nat] /\ deadPending \subseteq Thread
    /\ DOMAIN pending \subseteq Thread
    /\ \A t \in DOMAIN pending : pending[t] \in Seq(Exception)
    /\ listening \in BOOLEAN /\ cleaning \in BOOLEAN
    /\ events \in Seq(Event)
    /\ throwCounts \in [Thread -> Nat]
    /\ deadIncoming \in Seq(Thread)
    /\ lastCleanup \in Nat /\ now \in Nat

LEMMA ConstantTypes ==
    /\ MaxThrown \in Nat /\ CleanupInterval \in Nat /\ MaxLag \in Nat /\ MaxTime \in Nat
    /\ t1 \in Thread
BY ExceptionsAssumption DEF CoreClrAssumption

LEMMA TypesAreTypeOK == TypeOK <=> Types
<1>1. Abstract!Exception = Exception  BY DEF Abstract!Exception, Exception
<1>2. thrown \in 0..MaxThrown <=> thrown \in Nat /\ thrown <= MaxThrown
  BY ConstantTypes
<1>. QED BY <1>1, <1>2 DEF TypeOK, Abstract!TypeOK, Types

LEMMA QueueType ==
    ASSUME Types, NEW t
    PROVE  /\ Queue(t) \in Seq(Exception) /\ Len(Queue(t)) \in Nat
           /\ QueueLength(t) = Len(Queue(t))
BY DEF Types, Queue, QueueLength

LEMMA InitTypes == Init => Types
<1>. SUFFICES ASSUME Init  PROVE  Types  OBVIOUS
<1>1. /\ faults \subseteq Abstract!Fault /\ thrown = 0 /\ bridged = {}
      /\ inFlight = [t \in Thread |-> <<>>] /\ captured = [e \in Exception |-> 0]
  BY DEF Init, Abstract!Init, Abstract!Exception, Exception
<1>2. pending = <<>> /\ events = <<>> /\ deadIncoming = <<>>  BY DEF Init
<1>3. DOMAIN pending = {}
  <2>1. <<>> \in Seq(Exception) /\ Len(<<>>) = 0  OBVIOUS
  <2>2. DOMAIN pending = 1..0  BY <1>2, <2>1
  <2>. QED BY <2>2
<1>4. events \in Seq(Event) /\ deadIncoming \in Seq(Thread)  BY <1>2
<1>5. /\ listening \in BOOLEAN /\ cleaning \in BOOLEAN
      /\ unfinalized \in [Thread -> Nat] /\ deadPending = {} /\ lastCleanup = 0 /\ now = 0
      /\ throwCounts = [t \in Thread |-> 0]
      /\ raising \in [Thread -> BOOLEAN] /\ alive \in [Thread -> BOOLEAN]
      /\ sentinel \in [Thread -> BOOLEAN]
  BY DEF Init
<1>. QED BY <1>1, <1>3, <1>4, <1>5, ConstantTypes DEF Types

(* An event that is emitted is the last one.                               *)
LEMMA EmitTypes ==
    ASSUME Types, NEW kind \in {"thrown", "catch"}, NEW t \in Thread, NEW bridge \in BOOLEAN,
           Emit(kind, t, bridge)
    PROVE  events' \in Seq(Event)
<1>. DEFINE event == [kind |-> kind, thread |-> t, bridge |-> bridge, at |-> now]
<1>1. event \in Event /\ events \in Seq(Event)  BY DEF Types, Event
<1>2. events' = Append(events, event) \/ events' = events  BY DEF Emit
<1>. HIDE DEF event
<1>. QED BY <1>1, <1>2, AppendShape

LEMMA ThrowTypes == ASSUME Types, NEW t \in Thread, Throw(t)  PROVE  Types'
<1>1. /\ thrown < MaxThrown /\ thrown' = thrown + 1
      /\ inFlight' = [inFlight EXCEPT ![t] = Append(@, thrown + 1)]
      /\ UNCHANGED <<faults, bridged, captured>>
  BY DEF Throw, Abstract!Throw
<1>2. /\ raising' = [raising EXCEPT ![t] = TRUE]
      /\ UNCHANGED <<threads, pending, listening, throwCounts, cleaning, dead, now>>
  BY DEF Throw
<1>3. events' \in Seq(Event)  BY EmitTypes DEF Throw
<1>4. thrown + 1 \in Exception /\ thrown' <= MaxThrown
  BY <1>1, ConstantTypes DEF Types, Exception
<1>5. inFlight' \in [Thread -> Seq(Exception)]  BY <1>1, <1>4 DEF Types
<1>. QED BY <1>1, <1>2, <1>3, <1>4, <1>5 DEF Types, threads, dead

LEMMA AbandonedType == ASSUME Types, NEW t \in Thread  PROVE  Abandoned(t) \in [Thread -> Nat]
<1>1. unfinalized[t] + 1 \in Nat  BY DEF Types
<1>. QED BY <1>1 DEF Abandoned, Types

(* The queue of a thread that has none yet begins with its first exception.*)
LEMMA FirstChanceEffect ==
    ASSUME Types, NEW t \in Thread, OnFirstChanceException(t), inFlight[t] # <<>>
    PROVE  /\ raising[t] /\ raising' = [raising EXCEPT ![t] = FALSE]
           /\ Last(inFlight[t]) \in Exception
           /\ DOMAIN pending' = DOMAIN pending \cup {t}
           /\ Queue(t)' = Append(Queue(t), Last(inFlight[t]))
           /\ \A s \in Thread : s # t => Queue(s)' = Queue(s)
           /\ sentinel' \in [Thread -> BOOLEAN] /\ unfinalized' \in [Thread -> Nat]
           /\ UNCHANGED <<promise, alive, listening, events, throwCounts, cleaning, dead, now>>
<1>1. pending' = [s \in DOMAIN pending \cup {t} |->
                    IF s = t THEN Append(Queue(t), Last(inFlight[t])) ELSE pending[s]]
  BY DEF OnFirstChanceException, Queue
<1>2. Last(inFlight[t]) \in Exception  BY DEF Types, Last
<1>3. sentinel' = [sentinel EXCEPT ![t] = @ \/ t \notin DOMAIN pending]
  BY DEF OnFirstChanceException
<1>4. sentinel' \in [Thread -> BOOLEAN]  BY <1>3, Zenon DEF Types
<1>5. DOMAIN pending' = DOMAIN pending \cup {t}  BY <1>1
<1>6. pending'[t] = Append(Queue(t), Last(inFlight[t]))  BY <1>1
<1>7. \A s \in DOMAIN pending : s # t => pending'[s] = pending[s]  BY <1>1
<1>8. unfinalized' \in [Thread -> Nat]
  <2>1. Abandoned(t) \in [Thread -> Nat]  BY AbandonedType
  <2>. QED BY <2>1 DEF OnFirstChanceException, Types
<1>. QED BY <1>2, <1>4, <1>5, <1>6, <1>7, <1>8 DEF OnFirstChanceException, Queue

LEMMA FirstChanceTypes ==
    ASSUME Types, NEW t \in Thread, OnFirstChanceException(t), inFlight[t] # <<>>
    PROVE  Types'
<1>1. /\ raising' = [raising EXCEPT ![t] = FALSE]
      /\ Last(inFlight[t]) \in Exception
      /\ DOMAIN pending' = DOMAIN pending \cup {t}
      /\ Queue(t)' = Append(Queue(t), Last(inFlight[t]))
      /\ \A s \in Thread : s # t => Queue(s)' = Queue(s)
      /\ sentinel' \in [Thread -> BOOLEAN] /\ unfinalized' \in [Thread -> Nat]
      /\ UNCHANGED <<promise, alive, listening, events, throwCounts, cleaning, dead, now>>
  BY FirstChanceEffect
<1>2. Queue(t)' \in Seq(Exception)  BY <1>1, QueueType, AppendShape
<1>3. \A s \in DOMAIN pending' : pending'[s] \in Seq(Exception)
  <2>. SUFFICES ASSUME NEW s \in DOMAIN pending'  PROVE  pending'[s] \in Seq(Exception)
    OBVIOUS
  <2>1. pending'[s] = Queue(s)'  BY DEF Queue
  <2>2. CASE s = t  BY <1>2, <2>1, <2>2
  <2>3. CASE s # t
    <3>1. s \in Thread  BY <1>1, <2>3 DEF Types
    <3>. QED BY <1>1, <2>1, <2>3, <3>1, QueueType
  <2>. QED BY <2>2, <2>3
<1>. QED BY <1>1, <1>3 DEF Types, promise, dead

LEMMA CatchTypes ==
    ASSUME Types, NEW t \in Thread, NEW bridge \in BOOLEAN, NEW left \in 0..MaxThrown,
           Catch(t, bridge, left)
    PROVE  Types'
<1>1. /\ inFlight[t] # <<>> /\ left < Len(inFlight[t])
      /\ bridged' = IF bridge THEN bridged \cup {inFlight[t][Len(inFlight[t])]} ELSE bridged
      /\ inFlight' = [inFlight EXCEPT ![t] = SubSeq(@, 1, left)]
      /\ UNCHANGED <<faults, thrown, captured>>
  BY DEF Catch, Abstract!Catch
<1>2. UNCHANGED <<raising, threads, pending, listening, throwCounts, cleaning, dead, now>>
  BY DEF Catch
<1>3. events' \in Seq(Event)  BY EmitTypes DEF Catch
<1>4. inFlight[t] \in Seq(Exception) /\ left \in Nat  BY DEF Types
<1>5. bridged' \subseteq Exception
  <2>1. inFlight[t][Len(inFlight[t])] \in Exception  BY <1>1, <1>4
  <2>. QED BY <1>1, <2>1 DEF Types
<1>6. SubSeq(inFlight[t], 1, left) \in Seq(Exception)
  <2>1. \A i \in 1..left : inFlight[t][i] \in Exception  BY <1>1, <1>4
  <2>. QED BY <1>4, <2>1, SubSeqProperties
<1>7. inFlight' \in [Thread -> Seq(Exception)]  BY <1>1, <1>6 DEF Types
<1>. QED BY <1>1, <1>2, <1>3, <1>5, <1>7 DEF Types, threads, dead

LEMMA ThreadTypes ==
    ASSUME Types, NEW t \in Thread, Exit(t) \/ Start(t) \/ Finalize(t)
    PROVE  Types'
<1>1. CASE Exit(t)
  <2>1. unfinalized' \in [Thread -> Nat]  BY <1>1, AbandonedType DEF Exit
  <2>. QED BY <1>1, <2>1 DEF Exit, Types, promise, dead
<1>2. CASE Start(t)
  BY <1>2 DEF Start, Types, promise, dead
<1>3. CASE Finalize(t)
  <2>1. deadIncoming' \in Seq(Thread)  BY <1>3, AppendShape DEF Finalize, Types
  <2>2. unfinalized' \in [Thread -> Nat]  BY <1>3 DEF Finalize, Types
  <2>. QED BY <1>3, <2>1, <2>2 DEF Finalize, Types, promise
<1>. QED BY <1>1, <1>2, <1>3

(* The event that the listener handles.                                    *)
LEMMA HeadEvent ==
    ASSUME Types, events # <<>>
    PROVE  /\ Head(events) = events[1] /\ events[1] \in Event
           /\ events[1].thread \in Thread /\ events[1].bridge \in BOOLEAN
           /\ events[1].kind \in {"thrown", "catch"}
           /\ Len(events) \in Nat /\ Len(events) >= 1
           /\ Tail(events) \in Seq(Event) /\ Len(Tail(events)) = Len(events) - 1
           /\ \A i \in 1..(Len(events) - 1) : Tail(events)[i] = events[i + 1]
<1>1. events \in Seq(Event)  BY DEF Types
<1>2. /\ Head(events) = events[1] /\ events[1] \in Event
      /\ Len(events) \in Nat /\ Len(events) >= 1
      /\ Tail(events) \in Seq(Event) /\ Len(Tail(events)) = Len(events) - 1
      /\ \A i \in 1..(Len(events) - 1) : Tail(events)[i] = events[i + 1]
  BY <1>1, TailShape
<1>. QED BY <1>2 DEF Event

LEMMA HandleThrownEffect ==
    ASSUME Types, HandleExceptionThrown
    PROVE  /\ events # <<>> /\ events[1].kind = "thrown" /\ events[1].thread \in Thread
           /\ events' = Tail(events)
           /\ throwCounts' = [throwCounts EXCEPT ![events[1].thread] = @ + 1]
           /\ UNCHANGED <<promise, raising, threads, pending, listening, cleaning, dead, now>>
BY HeadEvent DEF HandleExceptionThrown, Handles

LEMMA HandleThrownTypes == ASSUME Types, HandleExceptionThrown  PROVE  Types'
<1>1. /\ events # <<>> /\ events[1].thread \in Thread
      /\ events' = Tail(events)
      /\ throwCounts' = [throwCounts EXCEPT ![events[1].thread] = @ + 1]
      /\ UNCHANGED <<promise, raising, threads, pending, listening, cleaning, dead, now>>
  BY HandleThrownEffect
<1>2. events' \in Seq(Event)  BY <1>1, HeadEvent
<1>3. throwCounts' \in [Thread -> Nat]  BY <1>1 DEF Types
<1>. QED BY <1>1, <1>2, <1>3 DEF Types, promise, threads, dead

(* A catch drains as many as were counted, one at least, or clears a queue *)
(* that has too few; only the last of those drained is captured.           *)
DrainCount(t) == IF throwCounts[t] >= 1 THEN throwCounts[t] ELSE 1
LEMMA HandleCatchEffect ==
    ASSUME Types, HandleExceptionCatchStart, NEW t \in Thread, t = events[1].thread
    PROVE  LET n == DrainCount(t) IN
           /\ events # <<>> /\ events[1].kind = "catch"
           /\ n \in Nat /\ n >= 1 /\ n >= throwCounts[t]
           /\ events' = Tail(events)
           /\ throwCounts' = [throwCounts EXCEPT ![t] = 0]
           /\ cleaning' = TRUE
           /\ DOMAIN pending' = DOMAIN pending
           /\ \A s \in Thread : s # t => Queue(s)' = Queue(s)
           /\ Len(Queue(t)) >= n =>
                /\ Queue(t)' = SubSeq(Queue(t), n + 1, Len(Queue(t)))
                /\ captured' = [e \in Exception |->
                                  IF events[1].bridge /\ e = Queue(t)[n]
                                  THEN captured[e] + 1 ELSE captured[e]]
           /\ Len(Queue(t)) < n => Queue(t)' = <<>> /\ captured' = captured
           /\ UNCHANGED <<faults, thrown, inFlight, bridged, raising, threads, listening, dead,
                          now>>
<1>. DEFINE n == DrainCount(t)
<1>1. events # <<>> /\ Head(events).kind = "catch"  BY DEF HandleExceptionCatchStart, Handles
<1>2. Head(events) = events[1]  BY <1>1, HeadEvent
<1>3. throwCounts[t] \in Nat  BY DEF Types
<1>4. n \in Nat /\ n >= 1 /\ n >= throwCounts[t] /\ Max({throwCounts[t], 1}) = n
  BY <1>3, MaxWithOne DEF DrainCount
<1>. HIDE DEF n
<1>5. /\ pending' = Drained(t, n)
      /\ captured' = [e \in Exception |->
                        IF events[1].bridge /\ e \in Matched(t, n)
                        THEN captured[e] + 1 ELSE captured[e]]
      /\ throwCounts' = [throwCounts EXCEPT ![t] = 0]
      /\ events' = Tail(events) /\ cleaning' = TRUE
      /\ UNCHANGED <<faults, thrown, inFlight, bridged, raising, threads, listening, dead, now>>
  BY <1>2, <1>4 DEF HandleExceptionCatchStart
<1>6. CanDrain(t, n) <=> Len(Queue(t)) >= n
  <2>1. CASE t \in DOMAIN pending  BY <2>1 DEF CanDrain, Queue
  <2>2. CASE t \notin DOMAIN pending
    <3>1. Len(Queue(t)) = 0  BY <2>2 DEF Queue
    <3>. QED BY <1>4, <2>2, <3>1 DEF CanDrain
  <2>. QED BY <2>1, <2>2
<1>7. DOMAIN pending' = DOMAIN pending  BY <1>5 DEF Drained
<1>8. ASSUME NEW s \in Thread, s # t  PROVE  Queue(s)' = Queue(s)
  <2>1. s \in DOMAIN pending => pending'[s] = pending[s]  BY <1>5, <1>8 DEF Drained
  <2>. QED BY <1>7, <2>1 DEF Queue
<1>9. ASSUME Len(Queue(t)) >= n
      PROVE  /\ Queue(t)' = SubSeq(Queue(t), n + 1, Len(Queue(t)))
             /\ captured' = [e \in Exception |->
                               IF events[1].bridge /\ e = Queue(t)[n]
                               THEN captured[e] + 1 ELSE captured[e]]
  <2>1. CanDrain(t, n) /\ t \in DOMAIN pending  BY <1>6, <1>9 DEF CanDrain
  <2>2. pending'[t] = SubSeq(pending[t], n + 1, Len(pending[t]))
    BY <1>5, <2>1 DEF Drained
  <2>3. Queue(t) = pending[t] /\ Queue(t)' = pending'[t]  BY <1>7, <2>1 DEF Queue
  <2>4. \A e : e \in Matched(t, n) <=> e = Queue(t)[n]  BY <2>1, <2>3 DEF Matched
  <2>. QED BY <1>5, <2>2, <2>3, <2>4
<1>10. ASSUME Len(Queue(t)) < n  PROVE  Queue(t)' = <<>> /\ captured' = captured
  <2>1. Len(Queue(t)) \in Nat  BY QueueType
  <2>2. ~CanDrain(t, n)  BY <1>4, <1>6, <1>10, <2>1
  <2>3. t \in DOMAIN pending => pending'[t] = <<>>  BY <1>5, <2>2 DEF Drained
  <2>4. Queue(t)' = <<>>  BY <1>7, <2>3 DEF Queue
  <2>5. Matched(t, n) = {}  BY <2>2 DEF Matched
  <2>6. captured' = [e \in Exception |-> captured[e]]  BY <1>5, <2>5
  <2>7. captured' = captured  BY <2>6 DEF Types
  <2>. QED BY <2>4, <2>7
<1>. QED BY <1>1, <1>2, <1>4, <1>5, <1>7, <1>8, <1>9, <1>10 DEF n

LEMMA HandleCatchTypes == ASSUME Types, HandleExceptionCatchStart  PROVE  Types'
<1>0. events # <<>>  BY DEF HandleExceptionCatchStart, Handles
<1>1. PICK t \in Thread : t = events[1].thread  BY <1>0, HeadEvent
<1>. DEFINE n == DrainCount(t)
<1>2. /\ n \in Nat /\ n >= 1
      /\ events' = Tail(events)
      /\ throwCounts' = [throwCounts EXCEPT ![t] = 0]
      /\ cleaning' = TRUE
      /\ DOMAIN pending' = DOMAIN pending
      /\ \A s \in Thread : s # t => Queue(s)' = Queue(s)
      /\ Len(Queue(t)) >= n =>
           /\ Queue(t)' = SubSeq(Queue(t), n + 1, Len(Queue(t)))
           /\ captured' = [e \in Exception |->
                             IF events[1].bridge /\ e = Queue(t)[n]
                             THEN captured[e] + 1 ELSE captured[e]]
      /\ Len(Queue(t)) < n => Queue(t)' = <<>> /\ captured' = captured
      /\ UNCHANGED <<faults, thrown, inFlight, bridged, raising, threads, listening, dead, now>>
  BY <1>1, HandleCatchEffect
<1>. HIDE DEF n
<1>3. events' \in Seq(Event)  BY <1>0, <1>2, HeadEvent
<1>4. Queue(t) \in Seq(Exception) /\ Len(Queue(t)) \in Nat  BY QueueType
<1>5. Queue(t)' \in Seq(Exception) /\ captured' \in [Exception -> Nat]
  <2>1. CASE Len(Queue(t)) >= n
    <3>1. Queue(t)' \in Seq(Exception)  BY <1>2, <1>4, <2>1, RestShape
    <3>2. \A e \in Exception : captured[e] \in Nat /\ captured[e] + 1 \in Nat  BY DEF Types
    <3>3. captured' = [e \in Exception |-> IF events[1].bridge /\ e = Queue(t)[n]
                                           THEN captured[e] + 1 ELSE captured[e]]
      BY <1>2, <2>1
    <3>4. captured' \in [Exception -> Nat]  BY <3>2, <3>3
    <3>. QED BY <3>1, <3>4
  <2>2. CASE Len(Queue(t)) < n  BY <1>2, <2>2 DEF Types
  <2>. QED BY <1>2, <1>4, <2>1, <2>2
<1>6. ASSUME NEW s \in DOMAIN pending'  PROVE  pending'[s] \in Seq(Exception)
  <2>1. pending'[s] = Queue(s)' /\ s \in Thread  BY <1>2 DEF Queue, Types
  <2>2. CASE s = t  BY <1>5, <2>1, <2>2
  <2>3. CASE s # t  BY <1>2, <2>1, <2>3, QueueType
  <2>. QED BY <2>2, <2>3
<1>7. throwCounts' \in [Thread -> Nat]  BY <1>2 DEF Types
<1>. QED BY <1>2, <1>3, <1>5, <1>6, <1>7 DEF Types, threads, dead

(* A cleanup removes the queues and counts of the threads that were        *)
(* reported before the last cleanup, or does nothing.                      *)
LEMMA CleanupEffect ==
    ASSUME Types, CleanupDeadThreads
    PROVE  /\ cleaning' = FALSE
           /\ UNCHANGED <<promise, raising, threads, listening, events, now>>
           /\ \/ /\ lastCleanup + CleanupInterval <= now /\ lastCleanup' = now
                 /\ \A t \in Thread : Queue(t)' = IF t \in deadPending THEN <<>> ELSE Queue(t)
                 /\ DOMAIN pending' = DOMAIN pending \ deadPending
                 /\ throwCounts' =
                      [t \in Thread |-> IF t \in deadPending THEN 0 ELSE throwCounts[t]]
                 /\ deadPending' = {deadIncoming[i] : i \in 1..Len(deadIncoming)}
                 /\ deadIncoming' = <<>>
              \/ /\ \A t \in Thread : Queue(t)' = Queue(t)
                 /\ UNCHANGED <<pending, throwCounts, dead>>
<1>1. CASE Due
  <2>1. /\ pending' = [t \in DOMAIN pending \ deadPending |-> pending[t]]
        /\ throwCounts' = [t \in Thread |-> IF t \in deadPending THEN 0 ELSE throwCounts[t]]
        /\ deadPending' = ToSet(deadIncoming) /\ deadIncoming' = <<>>
        /\ lastCleanup' = now /\ cleaning' = FALSE
        /\ UNCHANGED <<promise, raising, threads, listening, events, now>>
    BY <1>1 DEF CleanupDeadThreads, RemoveThreads
  <2>2. ToSet(deadIncoming) = {deadIncoming[i] : i \in 1..Len(deadIncoming)}
    <3>1. DOMAIN deadIncoming = 1..Len(deadIncoming)  BY DEF Types
    <3>. QED BY <3>1 DEF ToSet
  <2>3. DOMAIN pending' = DOMAIN pending \ deadPending  BY <2>1
  <2>4. ASSUME NEW t \in Thread
        PROVE  Queue(t)' = IF t \in deadPending THEN <<>> ELSE Queue(t)
    <3>1. t \in DOMAIN pending' => pending'[t] = pending[t]  BY <2>1, <2>3
    <3>. QED BY <2>3, <3>1 DEF Queue
  <2>. QED BY <1>1, <2>1, <2>2, <2>3, <2>4 DEF Due
<1>2. CASE ~Due
  BY <1>2 DEF CleanupDeadThreads, Queue
<1>. QED BY <1>1, <1>2

LEMMA CleanupTypes == ASSUME Types, CleanupDeadThreads  PROVE  Types'
<1>1. cleaning' = FALSE /\ UNCHANGED <<promise, raising, threads, listening, events, now>>
  BY CleanupEffect
<1>2. CASE UNCHANGED <<pending, throwCounts, dead>>
  BY <1>1, <1>2 DEF Types, promise, threads, dead
<1>3. CASE /\ lastCleanup + CleanupInterval <= now /\ lastCleanup' = now
           /\ \A t \in Thread : Queue(t)' = IF t \in deadPending THEN <<>> ELSE Queue(t)
           /\ DOMAIN pending' = DOMAIN pending \ deadPending
           /\ throwCounts' = [t \in Thread |-> IF t \in deadPending THEN 0 ELSE throwCounts[t]]
           /\ deadPending' = {deadIncoming[i] : i \in 1..Len(deadIncoming)}
           /\ deadIncoming' = <<>>
  <2>1. throwCounts' \in [Thread -> Nat]  BY <1>3 DEF Types
  <2>2. deadPending' \subseteq Thread /\ deadIncoming' \in Seq(Thread)  BY <1>3 DEF Types
  <2>3. ASSUME NEW t \in DOMAIN pending'  PROVE  pending'[t] \in Seq(Exception)
    <3>1. t \in Thread /\ t \notin deadPending /\ pending'[t] = Queue(t)'
      BY <1>3 DEF Types, Queue
    <3>. QED BY <1>3, <3>1, QueueType
  <2>4. DOMAIN pending' \subseteq Thread  BY <1>3 DEF Types
  <2>5. lastCleanup' \in Nat  BY <1>3 DEF Types
  <2>. QED BY <1>1, <2>1, <2>2, <2>3, <2>4, <2>5 DEF Types, promise, threads
<1>. QED BY <1>2, <1>3, CleanupEffect

LEMMA OtherTypes == ASSUME Types, OnEventSourceCreated \/ Tick \/ UNCHANGED vars  PROVE  Types'
<1>1. CASE OnEventSourceCreated
  BY <1>1 DEF OnEventSourceCreated, Types, promise, threads, dead
<1>2. CASE Tick
  BY <1>2 DEF Tick, Types, promise, threads, dead
<1>3. CASE UNCHANGED vars
  BY <1>3 DEF vars, Types, promise, threads, dead
<1>. QED BY <1>1, <1>2, <1>3

LEMMA NextTypes == ASSUME Types, OnceInv, [Next]_vars  PROVE  Types'
<1>1. CASE OnEventSourceCreated \/ Tick \/ UNCHANGED vars  BY <1>1, OtherTypes
<1>2. ASSUME NEW t \in Thread, Throw(t)  PROVE  Types'  BY <1>2, ThrowTypes
<1>3. ASSUME NEW t \in Thread, OnFirstChanceException(t)  PROVE  Types'
  <2>1. inFlight[t] # <<>>  BY <1>3 DEF OnceInv, OnFirstChanceException
  <2>. QED BY <1>3, <2>1, FirstChanceTypes
<1>4. ASSUME NEW t \in Thread, NEW bridge \in BOOLEAN, NEW left \in 0..MaxThrown,
             Catch(t, bridge, left)
      PROVE  Types'
  BY <1>4, CatchTypes
<1>5. ASSUME NEW t \in Thread, Exit(t) \/ Start(t) \/ Finalize(t)  PROVE  Types'
  BY <1>5, ThreadTypes
<1>6. CASE Listen  BY <1>6, HandleThrownTypes, HandleCatchTypes, CleanupTypes DEF Listen
<1>. QED BY <1>1, <1>2, <1>3, <1>4, <1>5, <1>6 DEF Next

-----------------------------------------------------------------------------
(***************************************************************************)
(* Nothing is captured twice, whatever the faults.                         *)
(***************************************************************************)
LEMMA InitOnce == Init => OnceInv
<1>. SUFFICES ASSUME Init  PROVE  OnceInv  OBVIOUS
<1>1. \A t \in Thread : ~raising[t]  BY DEF Init
<1>2. \A t : Queue(t) = <<>>
  <2>1. pending = <<>>  BY DEF Init
  <2>2. <<>> \in Seq(Exception) /\ Len(<<>>) = 0  OBVIOUS
  <2>3. DOMAIN pending = 1..0  BY <2>1, <2>2
  <2>4. DOMAIN pending = {}  BY <2>3
  <2>. QED BY <2>4 DEF Queue
<1>3. \A e, t : ~InQueue(e, t)  BY <1>2 DEF InQueue
<1>4. \A e \in Exception : captured[e] = 0
  BY DEF Init, Abstract!Init, Abstract!Exception, Exception
<1>. QED BY <1>1, <1>2, <1>3, <1>4 DEF OnceInv, Waiting

(* Queues lose exceptions at their heads, and only what is lost by all of  *)
(* them is captured.                                                       *)
LEMMA OnceDrained ==
    ASSUME Types, OnceInv, thrown' = thrown, raising' = raising,
           \A t \in Thread : raising[t] => inFlight'[t] = inFlight[t],
           \A t \in Thread : \E n \in Nat : \A i \in 1..Len(Queue(t)') :
             i + n \in 1..Len(Queue(t)) /\ Queue(t)'[i] = Queue(t)[i + n],
           \A e \in Exception :
             \/ captured'[e] = captured[e]
             \/ /\ captured'[e] = captured[e] + 1
                /\ \E t \in Thread : Waiting(e, t)
                /\ \A t \in Thread : ~Waiting(e, t)'
    PROVE  OnceInv'
<1>1. \A t \in Thread : \A e : InQueue(e, t)' => InQueue(e, t)
  BY DEF InQueue
<1>2. \A t \in Thread : \A e : Waiting(e, t)' => Waiting(e, t)
  BY <1>1 DEF Waiting
<1>3. \A t \in Thread : raising'[t] => inFlight'[t] # <<>>
  BY DEF OnceInv
<1>4. ASSUME NEW t \in Thread, NEW i \in 1..Len(Queue(t)'), NEW j \in 1..Len(Queue(t)'),
             Queue(t)'[i] = Queue(t)'[j]
      PROVE  i = j
  <2>1. PICK n \in Nat : \A k \in 1..Len(Queue(t)') :
          k + n \in 1..Len(Queue(t)) /\ Queue(t)'[k] = Queue(t)[k + n]
    OBVIOUS
  <2>2. i + n = j + n  BY <1>4, <2>1 DEF OnceInv
  <2>. QED BY <2>2
<1>5. \A t \in Thread : raising'[t] => inFlight'[t] = inFlight[t] /\ raising[t]
  OBVIOUS
<1>6. \A t \in Thread : \A e : raising'[t] /\ e = Last(inFlight'[t]) => ~InQueue(e, t)'
  BY <1>1, <1>5 DEF OnceInv
<1>7. \A e \in Exception : captured[e] \in Nat /\ thrown \in Nat  BY DEF Types
<1>8. ASSUME NEW e \in Exception
      PROVE  /\ \A t \in Thread : Waiting(e, t)' => e <= thrown' /\ captured'[e] = 0
             /\ captured'[e] <= 1 /\ (captured'[e] > 0 => e <= thrown')
  <2>1. CASE captured'[e] = captured[e]  BY <1>2, <2>1 DEF OnceInv
  <2>2. CASE /\ captured'[e] = captured[e] + 1
             /\ \E t \in Thread : Waiting(e, t)
             /\ \A t \in Thread : ~Waiting(e, t)'
    <3>1. captured[e] = 0 /\ e <= thrown  BY <2>2 DEF OnceInv
    <3>. QED BY <2>2, <3>1
  <2>. QED BY <2>1, <2>2
<1>9. \A e \in Exception : \A s, t \in Thread : Waiting(e, s)' /\ Waiting(e, t)' => s = t
  BY <1>2 DEF OnceInv
<1>10. \A t \in Thread : \A i, j \in 1..Len(Queue(t)') : Queue(t)'[i] = Queue(t)'[j] => i = j
  BY <1>4
<1>. QED BY <1>3, <1>6, <1>8, <1>9, <1>10 DEF OnceInv

LEMMA OnceRests ==
    ASSUME Types, OnceInv, UNCHANGED <<thrown, raising, pending, captured>>,
           \A t \in Thread : raising[t] => inFlight'[t] = inFlight[t]
    PROVE  OnceInv'
<1>1. \A t \in Thread : Queue(t)' = Queue(t)  BY DEF Queue
<1>2. ASSUME NEW t \in Thread
      PROVE  \A i \in 1..Len(Queue(t)') :
               i + 0 \in 1..Len(Queue(t)) /\ Queue(t)'[i] = Queue(t)[i + 0]
  BY <1>1, QueueType
<1>3. \A t \in Thread : \E n \in Nat : \A i \in 1..Len(Queue(t)') :
        i + n \in 1..Len(Queue(t)) /\ Queue(t)'[i] = Queue(t)[i + n]
  BY <1>2
<1>. QED BY <1>3, OnceDrained

LEMMA OnceThrow == ASSUME Types, OnceInv, NEW t \in Thread, Throw(t)  PROVE  OnceInv'
<1>. DEFINE new == thrown + 1
<1>1. /\ thrown' = new /\ captured' = captured /\ pending' = pending
      /\ inFlight' = [inFlight EXCEPT ![t] = Append(@, new)]
      /\ raising' = [raising EXCEPT ![t] = TRUE] /\ ~raising[t]
      /\ thrown < MaxThrown
  BY DEF Throw, Abstract!Throw
<1>2. new \in Exception /\ thrown \in Nat  BY <1>1, ConstantTypes DEF Types, Exception
<1>3. inFlight'[t] = Append(inFlight[t], new) /\ inFlight[t] \in Seq(Exception)
  BY <1>1 DEF Types
<1>4. Last(inFlight'[t]) = new /\ inFlight'[t] # <<>>
  <2>1. inFlight'[t] \in Seq(Exception) /\ Len(inFlight'[t]) = Len(inFlight[t]) + 1
        /\ inFlight'[t][Len(inFlight[t]) + 1] = new
    BY <1>2, <1>3, AppendShape
  <2>2. Len(inFlight[t]) \in Nat  BY <1>3
  <2>. QED BY <2>1, <2>2 DEF Last
<1>. HIDE DEF new
<1>5. \A s \in Thread : Queue(s)' = Queue(s)  BY <1>1 DEF Queue
<1>6. \A s \in Thread : \A e : InQueue(e, s)' <=> InQueue(e, s)  BY <1>5 DEF InQueue
<1>7. \A s \in Thread : s # t => inFlight'[s] = inFlight[s] /\ raising'[s] = raising[s]
  BY <1>1 DEF Types
<1>8. raising'[t]  BY <1>1 DEF Types
<1>9. \A s \in Thread : \A e : Waiting(e, s)' <=> Waiting(e, s) \/ (s = t /\ e = new)
  BY <1>1, <1>4, <1>6, <1>7, <1>8 DEF Waiting
<1>10. \A e \in Exception : e \in Nat /\ captured[e] \in Nat
  BY ConstantTypes DEF Exception, Types
<1>11. \A s \in Thread : ~Waiting(new, s) /\ captured[new] = 0
  BY <1>2, <1>10 DEF OnceInv, new
<1>12. \A s \in Thread : raising'[s] => inFlight'[s] # <<>>
  BY <1>4, <1>7 DEF OnceInv
<1>13. \A s \in Thread : \A e : raising'[s] /\ e = Last(inFlight'[s]) => ~InQueue(e, s)'
  <2>1. ~InQueue(new, t)  BY <1>11 DEF Waiting
  <2>2. ASSUME NEW s \in Thread, raising'[s], s # t
        PROVE  ~InQueue(Last(inFlight'[s]), s)
    BY <1>7, <2>2 DEF OnceInv
  <2>. QED BY <1>4, <1>6, <2>1, <2>2
<1>14. \A e \in Exception : \A r, s \in Thread : Waiting(e, r)' /\ Waiting(e, s)' => r = s
  BY <1>2, <1>9, <1>11 DEF OnceInv
<1>15. ASSUME NEW e \in Exception
       PROVE  /\ \A s \in Thread : Waiting(e, s)' => e <= thrown' /\ captured'[e] = 0
              /\ captured'[e] <= 1 /\ (captured'[e] > 0 => e <= thrown')
  <2>1. e <= thrown => e <= thrown'  BY <1>1, <1>2, <1>10 DEF new
  <2>2. new <= thrown'  BY <1>1, <1>2 DEF new
  <2>. QED BY <1>1, <1>9, <1>11, <2>1, <2>2 DEF OnceInv
<1>16. \A s \in Thread : \A i, j \in 1..Len(Queue(s)') : Queue(s)'[i] = Queue(s)'[j] => i = j
  BY <1>5 DEF OnceInv
<1>. QED BY <1>12, <1>13, <1>14, <1>15, <1>16 DEF OnceInv

LEMMA OnceFirstChance ==
    ASSUME Types, OnceInv, NEW t \in Thread, OnFirstChanceException(t)
    PROVE  OnceInv'
<1>1. inFlight[t] # <<>>  BY DEF OnceInv, OnFirstChanceException
<1>2. PICK last \in Exception : last = Last(inFlight[t])
  BY <1>1, FirstChanceEffect
<1>3. /\ raising[t] /\ raising' = [raising EXCEPT ![t] = FALSE]
      /\ Queue(t)' = Append(Queue(t), last)
      /\ \A s \in Thread : s # t => Queue(s)' = Queue(s)
      /\ UNCHANGED <<thrown, inFlight, captured>>
  BY <1>1, <1>2, FirstChanceEffect DEF promise
<1>4. Queue(t) \in Seq(Exception) /\ Len(Queue(t)) \in Nat  BY QueueType
<1>5. /\ Len(Queue(t)') = Len(Queue(t)) + 1 /\ Queue(t)'[Len(Queue(t)) + 1] = last
      /\ \A i \in 1..Len(Queue(t)) : Queue(t)'[i] = Queue(t)[i]
  BY <1>3, <1>4, AppendShape
<1>6. ~raising'[t] /\ \A s \in Thread : s # t => raising'[s] = raising[s]
  BY <1>3 DEF Types
<1>7. ~InQueue(last, t)  BY <1>2, <1>3 DEF OnceInv
<1>8. \A e : InQueue(e, t)' <=> InQueue(e, t) \/ e = last
  <2>1. \A i \in 1..Len(Queue(t)') : i \in 1..Len(Queue(t)) \/ i = Len(Queue(t)) + 1
    BY <1>4, <1>5
  <2>2. \A i \in 1..Len(Queue(t)) : i \in 1..Len(Queue(t)')  BY <1>4, <1>5
  <2>3. Len(Queue(t)) + 1 \in 1..Len(Queue(t)')  BY <1>4, <1>5
  <2>. QED BY <1>5, <2>1, <2>2, <2>3 DEF InQueue
<1>9. \A s \in Thread : s # t => \A e : InQueue(e, s)' <=> InQueue(e, s)
  BY <1>3 DEF InQueue
<1>10. \A s \in Thread : \A e : Waiting(e, s)' <=> Waiting(e, s)
  <2>1. \A e : Waiting(e, t)' <=> Waiting(e, t)
    BY <1>2, <1>3, <1>6, <1>8 DEF Waiting
  <2>2. ASSUME NEW s \in Thread, s # t  PROVE  \A e : Waiting(e, s)' <=> Waiting(e, s)
    BY <1>3, <1>6, <1>9, <2>2 DEF Waiting
  <2>. QED BY <2>1, <2>2
<1>11. \A s \in Thread : raising'[s] => inFlight'[s] # <<>>
  BY <1>3, <1>6 DEF OnceInv
<1>12. \A s \in Thread : \A e : raising'[s] /\ e = Last(inFlight'[s]) => ~InQueue(e, s)'
  BY <1>3, <1>6, <1>9 DEF OnceInv
<1>13. ASSUME NEW s \in Thread
       PROVE  \A i, j \in 1..Len(Queue(s)') : Queue(s)'[i] = Queue(s)'[j] => i = j
  <2>1. CASE s # t  BY <1>3, <2>1 DEF OnceInv
  <2>2. CASE s = t
    <3>1. \A i \in 1..Len(Queue(t)') : i \in 1..Len(Queue(t)) \/ i = Len(Queue(t)) + 1
      BY <1>4, <1>5
    <3>2. \A i \in 1..Len(Queue(t)) : Queue(t)'[i] # last  BY <1>5, <1>7 DEF InQueue
    <3>3. \A i, j \in 1..Len(Queue(t)) : Queue(t)'[i] = Queue(t)'[j] => i = j
      BY <1>5 DEF OnceInv
    <3>. QED BY <1>5, <2>2, <3>1, <3>2, <3>3
  <2>. QED BY <2>1, <2>2
<1>. QED BY <1>3, <1>10, <1>11, <1>12, <1>13 DEF OnceInv

LEMMA OnceHandleCatch ==
    ASSUME Types, OnceInv, HandleExceptionCatchStart
    PROVE  OnceInv'
<1>0. events # <<>>  BY DEF HandleExceptionCatchStart, Handles
<1>1. PICK t \in Thread : t = events[1].thread  BY <1>0, HeadEvent
<1>2. PICK n \in Nat : n = DrainCount(t) /\ n >= 1  BY <1>1, HandleCatchEffect
<1>3. /\ \A s \in Thread : s # t => Queue(s)' = Queue(s)
      /\ Len(Queue(t)) >= n =>
           /\ Queue(t)' = SubSeq(Queue(t), n + 1, Len(Queue(t)))
           /\ captured' = [e \in Exception |->
                             IF events[1].bridge /\ e = Queue(t)[n]
                             THEN captured[e] + 1 ELSE captured[e]]
      /\ Len(Queue(t)) < n => Queue(t)' = <<>> /\ captured' = captured
      /\ UNCHANGED <<thrown, inFlight, raising>>
  BY <1>1, <1>2, HandleCatchEffect
<1>4. Queue(t) \in Seq(Exception) /\ Len(Queue(t)) \in Nat  BY QueueType
<1>5. \A s \in Thread : s # t => \A i \in 1..Len(Queue(s)') :
        i + 0 \in 1..Len(Queue(s)) /\ Queue(s)'[i] = Queue(s)[i + 0]
  BY <1>3, QueueType
<1>6. CASE Len(Queue(t)) < n
  <2>1. Queue(t)' = <<>> /\ captured' = captured  BY <1>3, <1>6
  <2>2. 1..Len(Queue(t)') = {}  BY <2>1
  <2>3. \A s \in Thread : \E k \in Nat : \A i \in 1..Len(Queue(s)') :
          i + k \in 1..Len(Queue(s)) /\ Queue(s)'[i] = Queue(s)[i + k]
    BY <1>5, <2>2
  <2>. QED BY <1>3, <2>1, <2>3, OnceDrained
<1>7. CASE Len(Queue(t)) >= n
  <2>1. /\ Len(Queue(t)') = Len(Queue(t)) - n
        /\ \A i \in 1..(Len(Queue(t)) - n) : Queue(t)'[i] = Queue(t)[i + n]
    BY <1>3, <1>4, <1>7, RestShape
  <2>2. \A i \in 1..Len(Queue(t)') :
          i + n \in 1..Len(Queue(t)) /\ Queue(t)'[i] = Queue(t)[i + n]
    BY <1>4, <2>1
  <2>3. \A s \in Thread : \E k \in Nat : \A i \in 1..Len(Queue(s)') :
          i + k \in 1..Len(Queue(s)) /\ Queue(s)'[i] = Queue(s)[i + k]
    BY <1>5, <2>2
  <2>4. n \in 1..Len(Queue(t))  BY <1>2, <1>4, <1>7
  <2>5. PICK drained \in Exception : drained = Queue(t)[n]  BY <1>4, <2>4
  <2>6. InQueue(drained, t) /\ Waiting(drained, t)  BY <2>4, <2>5 DEF InQueue, Waiting
  <2>7. ASSUME NEW s \in Thread  PROVE  ~Waiting(drained, s)'
    <3>1. CASE s # t
      <4>1. ~Waiting(drained, s)  BY <2>6, <3>1 DEF OnceInv
      <4>. QED BY <1>3, <3>1, <4>1 DEF Waiting, InQueue
    <3>2. CASE s = t
      <4>1. \A i \in 1..Len(Queue(t)') : i + n # n  BY <1>4
      <4>2. \A i \in 1..Len(Queue(t)') : Queue(t)'[i] # drained
        BY <2>2, <2>4, <2>5, <4>1 DEF OnceInv
      <4>3. ~InQueue(drained, t)'  BY <4>2 DEF InQueue
      <4>4. raising[t] => drained # Last(inFlight[t])  BY <2>6 DEF OnceInv
      <4>. QED BY <1>3, <3>2, <4>3, <4>4 DEF Waiting
    <3>. QED BY <3>1, <3>2
  <2>8. captured' = [e \in Exception |-> IF events[1].bridge /\ e = drained
                                        THEN captured[e] + 1 ELSE captured[e]]
    BY <1>3, <1>7, <2>5
  <2>9. \A e \in Exception :
          \/ captured'[e] = captured[e]
          \/ /\ captured'[e] = captured[e] + 1
             /\ \E s \in Thread : Waiting(e, s)
             /\ \A s \in Thread : ~Waiting(e, s)'
    BY <2>6, <2>7, <2>8
  <2>. QED BY <1>3, <2>3, <2>9, OnceDrained
<1>. QED BY <1>2, <1>4, <1>6, <1>7

LEMMA OnceCleanup == ASSUME Types, OnceInv, CleanupDeadThreads  PROVE  OnceInv'
<1>1. UNCHANGED <<thrown, inFlight, captured, raising>>  BY CleanupEffect DEF promise
<1>2. \A t \in Thread : Queue(t)' = Queue(t) \/ Queue(t)' = <<>>  BY CleanupEffect
<1>3. ASSUME NEW t \in Thread
      PROVE  \A i \in 1..Len(Queue(t)') :
               i + 0 \in 1..Len(Queue(t)) /\ Queue(t)'[i] = Queue(t)[i + 0]
  <2>1. CASE Queue(t)' = Queue(t)  BY <2>1, QueueType
  <2>2. CASE Queue(t)' = <<>>
    <3>1. 1..Len(Queue(t)') = {}  BY <2>2
    <3>. QED BY <3>1
  <2>. QED BY <1>2, <2>1, <2>2
<1>4. \A t \in Thread : \E n \in Nat : \A i \in 1..Len(Queue(t)') :
        i + n \in 1..Len(Queue(t)) /\ Queue(t)'[i] = Queue(t)[i + n]
  BY <1>3
<1>. QED BY <1>1, <1>4, OnceDrained

LEMMA NextOnce == ASSUME Types, OnceInv, [Next]_vars  PROVE  OnceInv'
<1>1. CASE OnEventSourceCreated \/ Tick \/ UNCHANGED vars
  <2>1. UNCHANGED <<thrown, raising, pending, captured, inFlight>>
    BY <1>1 DEF OnEventSourceCreated, Tick, vars, promise
  <2>. QED BY <2>1, OnceRests
<1>2. ASSUME NEW t \in Thread, Throw(t)  PROVE  OnceInv'  BY <1>2, OnceThrow
<1>3. ASSUME NEW t \in Thread, OnFirstChanceException(t)  PROVE  OnceInv'
  BY <1>3, OnceFirstChance
<1>4. ASSUME NEW t \in Thread, NEW bridge \in BOOLEAN, NEW left \in 0..MaxThrown,
             Catch(t, bridge, left)
      PROVE  OnceInv'
  <2>1. ~raising[t] /\ UNCHANGED <<thrown, raising, pending, captured>>
    BY <1>4 DEF Catch, Abstract!Catch
  <2>2. \A s \in Thread : s # t => inFlight'[s] = inFlight[s]
    BY <1>4 DEF Catch, Abstract!Catch, Types
  <2>. QED BY <2>1, <2>2, OnceRests
<1>5. ASSUME NEW t \in Thread, Exit(t) \/ Start(t) \/ Finalize(t)  PROVE  OnceInv'
  <2>1. UNCHANGED <<thrown, raising, pending, captured, inFlight>>
    BY <1>5 DEF Exit, Start, Finalize, promise
  <2>. QED BY <2>1, OnceRests
<1>6. CASE HandleExceptionThrown
  <2>1. UNCHANGED <<thrown, raising, pending, captured, inFlight>>
    BY <1>6, HandleThrownEffect DEF promise
  <2>. QED BY <2>1, OnceRests
<1>. QED BY <1>1, <1>2, <1>3, <1>4, <1>5, <1>6, OnceHandleCatch, OnceCleanup DEF Next, Listen

-----------------------------------------------------------------------------
(***************************************************************************)
(* Where finally blocks catch exceptions, a thread gets back in step.      *)
(***************************************************************************)
LEMMA OpenAppend ==
    ASSUME NEW es \in Seq(Event), NEW event \in Event, NEW c, NEW t
    PROVE  /\ \A k \in 1..(Len(es) + 1) :
                OpenIn(Append(es, event), c, t, k) <=> OpenIn(es, c, t, k)
           /\ event.thread # t =>
                (OpenIn(Append(es, event), c, t, Len(es) + 2) <=> OpenIn(es, c, t, Len(es) + 1))
           /\ event.thread = t =>
                (OpenIn(Append(es, event), c, t, Len(es) + 2) <=> event.kind = "thrown")
<1>. DEFINE n == Len(es)
            app == Append(es, event)
<1>1. n \in Nat /\ (\A i \in 1..n : app[i] = es[i]) /\ app[n + 1] = event  BY AppendShape
<1>2. event.kind = "thrown" \/ event.kind = "catch"  BY DEF Event
<1>. HIDE DEF n, app
<1>3. \A i \in 1..n : /\ ThrownAt(app, t, i) <=> ThrownAt(es, t, i)
                      /\ CatchAt(app, t, i) <=> CatchAt(es, t, i)
  BY <1>1 DEF ThrownAt, CatchAt
<1>4. ASSUME NEW k \in 1..(n + 1)  PROVE  OpenIn(app, c, t, k) <=> OpenIn(es, c, t, k)
  <2>1. k - 1 \in Nat /\ k - 1 <= n  BY <1>1
  <2>2. \A i \in 1..(k - 1) : i \in 1..n /\ \A j \in (i + 1)..(k - 1) : j \in 1..n
    BY <1>1, <2>1
  <2>. QED BY <1>3, <2>2 DEF OpenIn
<1>5. (n + 2) - 1 = n + 1 /\ (n + 1) - 1 = n  BY <1>1
<1>6. ASSUME event.thread # t
      PROVE  OpenIn(app, c, t, n + 2) <=> OpenIn(es, c, t, n + 1)
  <2>1. ~ThrownAt(app, t, n + 1) /\ ~CatchAt(app, t, n + 1)
    BY <1>1, <1>6 DEF ThrownAt, CatchAt
  <2>2. \A j \in 1..(n + 1) : j \in 1..n \/ j = n + 1  BY <1>1
  <2>3. \A j \in 1..n : j \in 1..(n + 1)  BY <1>1
  <2>4. (\A j \in 1..(n + 1) : ~CatchAt(app, t, j)) <=> (\A j \in 1..n : ~CatchAt(es, t, j))
    BY <1>3, <2>1, <2>2, <2>3
  <2>5. ASSUME NEW i \in 1..n
        PROVE  (\A j \in (i + 1)..(n + 1) : ~CatchAt(app, t, j))
                 <=> (\A j \in (i + 1)..n : ~CatchAt(es, t, j))
    <3>1. \A j \in (i + 1)..(n + 1) : j \in (i + 1)..n \/ j = n + 1  BY <1>1
    <3>2. \A j \in (i + 1)..n : j \in (i + 1)..(n + 1) /\ j \in 1..n  BY <1>1
    <3>. QED BY <1>3, <2>1, <3>1, <3>2
  <2>. QED BY <1>3, <1>5, <2>1, <2>2, <2>3, <2>4, <2>5 DEF OpenIn
<1>7. ASSUME event.thread = t, event.kind = "thrown"
      PROVE  OpenIn(app, c, t, n + 2)
  <2>1. ThrownAt(app, t, n + 1)  BY <1>1, <1>7 DEF ThrownAt
  <2>2. n + 1 \in 1..(n + 1) /\ ((n + 1) + 1)..(n + 1) = {}  BY <1>1
  <2>. QED BY <1>5, <2>1, <2>2 DEF OpenIn
<1>8. ASSUME event.thread = t, event.kind = "catch"
      PROVE  ~OpenIn(app, c, t, n + 2)
  <2>1. CatchAt(app, t, n + 1) /\ ~ThrownAt(app, t, n + 1)
    BY <1>1, <1>8 DEF ThrownAt, CatchAt
  <2>2. \A i \in 1..(n + 1) : i = n + 1 \/ n + 1 \in (i + 1)..(n + 1)  BY <1>1
  <2>3. n + 1 \in 1..(n + 1)  BY <1>1
  <2>. QED BY <1>5, <2>1, <2>2, <2>3 DEF OpenIn
<1>. QED BY <1>2, <1>4, <1>6, <1>7, <1>8 DEF n, app

(* A throw that is handled is counted, and a catch ends the count.         *)
LEMMA OpenTail ==
    ASSUME NEW es \in Seq(Event), es # <<>>, NEW c \in Nat, NEW t, NEW k \in 1..Len(es)
    PROVE  /\ ThrownAt(es, t, 1) =>
                (OpenIn(Tail(es), c + 1, t, k) <=> OpenIn(es, c, t, k + 1))
           /\ CatchAt(es, t, 1) => (OpenIn(Tail(es), 0, t, k) <=> OpenIn(es, c, t, k + 1))
           /\ es[1].thread # t => (OpenIn(Tail(es), c, t, k) <=> OpenIn(es, c, t, k + 1))
<1>. DEFINE n == Len(es)
            rest == Tail(es)
            Caught(i) == \E j \in (i + 1)..k : CatchAt(es, t, j)
<1>1. n \in Nat /\ n >= 1 /\ \A i \in 1..(n - 1) : rest[i] = es[i + 1]  BY TailShape
<1>. HIDE DEF n, rest
<1>2. k \in Nat /\ k >= 1 /\ k <= n /\ (k + 1) - 1 = k  BY <1>1 DEF n
<1>3. \A i \in 1..(k - 1) : /\ ThrownAt(rest, t, i) <=> ThrownAt(es, t, i + 1)
                            /\ CatchAt(rest, t, i) <=> CatchAt(es, t, i + 1)
  BY <1>1, <1>2 DEF ThrownAt, CatchAt
<1>4. ASSUME NEW i \in 0..(k - 1)
      PROVE  (\A j \in (i + 1)..(k - 1) : ~CatchAt(rest, t, j)) <=> ~Caught(i + 1)
  <2>1. \A j \in (i + 1)..(k - 1) : j \in 1..(k - 1) /\ j + 1 \in ((i + 1) + 1)..k  BY <1>2
  <2>2. \A j \in ((i + 1) + 1)..k : j - 1 \in (i + 1)..(k - 1) /\ j - 1 \in 1..(k - 1)
                                    /\ (j - 1) + 1 = j
    BY <1>2
  <2>. QED BY <1>3, <2>1, <2>2
<1>5. \A d : OpenIn(rest, d, t, k) <=> \/ \E i \in 1..(k - 1) : ThrownAt(es, t, i + 1)
                                                                /\ ~Caught(i + 1)
                                       \/ d > 0 /\ ~Caught(1)
  <2>1. \A i \in 1..(k - 1) : i \in 0..(k - 1)  OBVIOUS
  <2>2. 0 \in 0..(k - 1) /\ 0 + 1 = 1  BY <1>2
  <2>3. (\A j \in 1..(k - 1) : ~CatchAt(rest, t, j)) <=> ~Caught(1)  BY <1>4, <2>2
  <2>. HIDE DEF Caught
  <2>. QED BY <1>3, <1>4, <2>1, <2>3 DEF OpenIn
<1>6. OpenIn(es, c, t, k + 1) <=> \/ \E i \in 1..k : ThrownAt(es, t, i) /\ ~Caught(i)
                                  \/ c > 0 /\ ~CatchAt(es, t, 1) /\ ~Caught(1)
  <2>1. \A j \in 1..k : j = 1 \/ j \in (1 + 1)..k  OBVIOUS
  <2>2. 1 \in 1..k /\ \A j \in (1 + 1)..k : j \in 1..k  BY <1>2
  <2>3. (\A j \in 1..k : ~CatchAt(es, t, j)) <=> ~CatchAt(es, t, 1) /\ ~Caught(1)
    BY <2>1, <2>2
  <2>. QED BY <1>2, <2>3 DEF OpenIn
<1>. HIDE DEF Caught
<1>7. (\E i \in 1..k : ThrownAt(es, t, i) /\ ~Caught(i))
        <=> \/ ThrownAt(es, t, 1) /\ ~Caught(1)
            \/ \E i \in 1..(k - 1) : ThrownAt(es, t, i + 1) /\ ~Caught(i + 1)
  <2>1. \A i \in 1..k : i = 1 \/ (i - 1 \in 1..(k - 1) /\ (i - 1) + 1 = i)  BY <1>2
  <2>2. 1 \in 1..k /\ \A i \in 1..(k - 1) : i + 1 \in 1..k  BY <1>2
  <2>. QED BY <2>1, <2>2
<1>8. ThrownAt(es, t, 1) => ~CatchAt(es, t, 1)  BY DEF ThrownAt, CatchAt
<1>9. es[1].thread # t => ~CatchAt(es, t, 1) /\ ~ThrownAt(es, t, 1)
  BY DEF ThrownAt, CatchAt
<1>10. CatchAt(es, t, 1) => ~ThrownAt(es, t, 1)  BY DEF ThrownAt, CatchAt
<1>11. c + 1 > 0 /\ ~(0 > 0)  OBVIOUS
<1>. QED BY <1>5, <1>6, <1>7, <1>8, <1>9, <1>10, <1>11 DEF rest

LEMMA LastAppend ==
    ASSUME NEW es \in Seq(Event), NEW event \in Event, NEW t
    PROVE  /\ event.thread # t => (ThrownLast(es, t) => ThrownLast(Append(es, event), t))
           /\ event.thread = t /\ event.kind = "thrown" => ThrownLast(Append(es, event), t)
<1>. DEFINE n == Len(es)
            app == Append(es, event)
<1>1. n \in Nat /\ (\A i \in 1..n : app[i] = es[i]) /\ app[n + 1] = event /\ Len(app) = n + 1
  BY AppendShape
<1>. HIDE DEF n, app
<1>2. \A j \in 1..(n + 1) : j \in 1..n \/ j = n + 1  BY <1>1
<1>3. ASSUME event.thread # t, ThrownLast(es, t)  PROVE  ThrownLast(app, t)
  <2>. SUFFICES ASSUME NEW j \in 1..(n + 1), CatchAt(app, t, j)
                PROVE  \E i \in (j + 1)..(n + 1) : ThrownAt(app, t, i)
    BY <1>1 DEF ThrownLast
  <2>1. j # n + 1  BY <1>1, <1>3 DEF CatchAt
  <2>2. j \in 1..n /\ CatchAt(es, t, j)  BY <1>1, <1>2, <2>1 DEF CatchAt
  <2>3. PICK i \in (j + 1)..n : ThrownAt(es, t, i)  BY <1>3, <2>2 DEF ThrownLast, n
  <2>4. i \in 1..n /\ i \in (j + 1)..(n + 1)  BY <1>1, <2>2, <2>3
  <2>. QED BY <1>1, <2>3, <2>4 DEF ThrownAt
<1>4. ASSUME event.thread = t, event.kind = "thrown"  PROVE  ThrownLast(app, t)
  <2>. SUFFICES ASSUME NEW j \in 1..(n + 1), CatchAt(app, t, j)
                PROVE  \E i \in (j + 1)..(n + 1) : ThrownAt(app, t, i)
    BY <1>1 DEF ThrownLast
  <2>1. ThrownAt(app, t, n + 1)  BY <1>1, <1>4 DEF ThrownAt
  <2>2. j # n + 1  BY <1>1, <1>4 DEF CatchAt
  <2>3. n + 1 \in (j + 1)..(n + 1)  BY <1>1, <1>2, <2>2
  <2>. QED BY <2>1, <2>3
<1>. QED BY <1>3, <1>4 DEF app

LEMMA LastTail ==
    ASSUME NEW es \in Seq(Event), es # <<>>, NEW t, ThrownLast(es, t)
    PROVE  ThrownLast(Tail(es), t)
<1>. DEFINE n == Len(es)
            rest == Tail(es)
<1>1. n \in Nat /\ n >= 1 /\ Len(rest) = n - 1 /\ \A i \in 1..(n - 1) : rest[i] = es[i + 1]
  BY TailShape
<1>. HIDE DEF n, rest
<1>2. SUFFICES ASSUME NEW j \in 1..(n - 1), CatchAt(rest, t, j)
               PROVE  \E i \in (j + 1)..(n - 1) : ThrownAt(rest, t, i)
  BY <1>1 DEF ThrownLast, rest
<1>3. j + 1 \in 1..n /\ CatchAt(es, t, j + 1)  BY <1>1, <1>2 DEF CatchAt
<1>4. PICK i \in ((j + 1) + 1)..n : ThrownAt(es, t, i)  BY <1>3 DEF ThrownLast, n
<1>5. i - 1 \in (j + 1)..(n - 1) /\ i - 1 \in 1..(n - 1) /\ (i - 1) + 1 = i
  BY <1>1, <1>4
<1>. QED BY <1>1, <1>4, <1>5 DEF ThrownAt

(* What is still ahead of the listener, by positions.                      *)
LEMMA AheadIs ==
    ASSUME NEW es \in Seq(Event), NEW t
    PROVE  Cardinality({i \in DOMAIN es : es[i].thread = t /\ es[i].kind = "thrown"})
             = ThrownBefore(es, t, Len(es) + 1)
<1>1. Len(es) \in Nat /\ DOMAIN es = 1..Len(es)  OBVIOUS
<1>2. (Len(es) + 1) - 1 = Len(es)  BY <1>1
<1>3. {i \in DOMAIN es : es[i].thread = t /\ es[i].kind = "thrown"}
        = {i \in 1..Len(es) : ThrownAt(es, t, i)}
  BY <1>1 DEF ThrownAt
<1>. QED BY <1>2, <1>3 DEF ThrownBefore

LEMMA AheadType == ASSUME Types, NEW t  PROVE  ThrownAhead(t) \in Nat
<1>1. events \in Seq(Event)  BY DEF Types
<1>2. Len(events) + 1 \in Nat  BY <1>1
<1>3. ThrownAhead(t) = ThrownBefore(events, t, Len(events) + 1)  BY <1>1, AheadIs DEF ThrownAhead
<1>. QED BY <1>2, <1>3, CountType

LEMMA AheadAppend ==
    ASSUME Types, NEW event \in Event, events' = Append(events, event), NEW t
    PROVE  ThrownAhead(t)' = ThrownAhead(t)
                               + (IF event.thread = t /\ event.kind = "thrown" THEN 1 ELSE 0)
<1>1. events \in Seq(Event) /\ Len(events) \in Nat  BY DEF Types
<1>2. events' \in Seq(Event) /\ Len(events') = Len(events) + 1  BY <1>1, AppendShape
<1>3. Len(events') + 1 = Len(events) + 2  BY <1>1, <1>2
<1>4. ThrownAhead(t) = ThrownBefore(events, t, Len(events) + 1)  BY <1>1, AheadIs DEF ThrownAhead
<1>5. ThrownAhead(t)' = ThrownBefore(events', t, Len(events) + 2)
  BY <1>2, <1>3, AheadIs DEF ThrownAhead
<1>. QED BY <1>1, <1>4, <1>5, CountAppend

LEMMA AheadTail ==
    ASSUME Types, events # <<>>, events' = Tail(events), NEW t
    PROVE  /\ ThrownAhead(t) = ThrownAhead(t)' + (IF ThrownAt(events, t, 1) THEN 1 ELSE 0)
           /\ ThrownAhead(t)' \in Nat
<1>1. events \in Seq(Event) /\ Len(events) \in Nat /\ Len(events) >= 1
  BY TailShape DEF Types
<1>2. events' \in Seq(Event) /\ Len(events') = Len(events) - 1  BY <1>1, TailShape
<1>3. Len(events') + 1 = Len(events) /\ Len(events) \in 1..Len(events)  BY <1>1, <1>2
<1>4. ThrownAhead(t) = ThrownBefore(events, t, Len(events) + 1)  BY <1>1, AheadIs DEF ThrownAhead
<1>5. ThrownAhead(t)' = ThrownBefore(events', t, Len(events))
  BY <1>2, <1>3, AheadIs DEF ThrownAhead
<1>6. ThrownAhead(t)' \in Nat  BY <1>1, <1>5, CountType
<1>. QED BY <1>1, <1>3, <1>4, <1>5, <1>6, CountTail

LEMMA EmitEffect ==
    ASSUME Types, listening, NEW kind \in {"thrown", "catch"}, NEW u \in Thread,
           NEW bridge \in BOOLEAN, Emit(kind, u, bridge)
    PROVE  \E event \in Event :
             /\ event.thread = u /\ event.kind = kind /\ event.bridge = bridge /\ event.at = now
             /\ events' = Append(events, event)
<1>. DEFINE event == [kind |-> kind, thread |-> u, bridge |-> bridge, at |-> now]
<1>1. event \in Event  BY DEF Event, Types
<1>2. event.thread = u /\ event.kind = kind /\ event.bridge = bridge /\ event.at = now  OBVIOUS
<1>3. events' = Append(events, event)  BY DEF Emit
<1>. QED BY <1>1, <1>2, <1>3

LEMMA InitDead == ASSUME Init, InnerOnly  PROVE  DeadInv
<1>1. listening /\ \A t \in Thread : alive[t]
  <2>1. "early throw" \notin faults  BY DEF InnerOnly
  <2>. QED BY <2>1 DEF Init
<1>2. /\ \A t \in Thread : unfinalized[t] = 0 /\ ~sentinel[t]
      /\ deadPending = {} /\ deadIncoming = <<>>
  BY DEF Init
<1>3. 1..Len(deadIncoming) = {}  BY <1>2
<1>. QED BY <1>1, <1>2, <1>3 DEF DeadInv

LEMMA NextDead ==
    ASSUME Types, OnceInv, DeadInv, [Next]_vars, InnerOnly
    PROVE  DeadInv'
<1>1. CASE OnEventSourceCreated \/ Tick \/ UNCHANGED vars
  BY <1>1 DEF OnEventSourceCreated, Tick, vars, promise, threads, dead, DeadInv
<1>2. ASSUME NEW t \in Thread, Throw(t)  PROVE  DeadInv'
  <2>1. alive[t] /\ UNCHANGED <<threads, dead, listening, pending>>  BY <1>2 DEF Throw
  <2>2. \A s \in Thread : s # t => inFlight'[s] = inFlight[s] /\ raising'[s] = raising[s]
    BY <1>2 DEF Throw, Abstract!Throw, Types
  <2>. QED BY <2>1, <2>2 DEF DeadInv, threads, dead
<1>3. ASSUME NEW t \in Thread, OnFirstChanceException(t)  PROVE  DeadInv'
  <2>1. inFlight[t] # <<>>  BY <1>3 DEF OnceInv, OnFirstChanceException
  <2>2. raising' = [raising EXCEPT ![t] = FALSE]
        /\ DOMAIN pending' = DOMAIN pending \cup {t}
        /\ UNCHANGED <<promise, alive, listening, dead>>
    BY <1>3, <2>1, FirstChanceEffect
  <2>3. \A s \in Thread : raising'[s] => raising[s]  BY <2>2 DEF Types
  <2>4. raising[t]  BY <1>3 DEF OnFirstChanceException
  <2>5. alive[t]  BY <2>4 DEF DeadInv
  <2>6. t \notin DOMAIN pending => ~sentinel[t]  BY DEF DeadInv
  <2>7. unfinalized' = unfinalized
    <3>1. ~sentinel[t] => Abandoned(t) = unfinalized  BY DEF Abandoned, Types
    <3>. QED BY <1>3, <2>6, <3>1 DEF OnFirstChanceException
  <2>8. \A s \in Thread : s # t => sentinel'[s] = sentinel[s]
    BY <1>3 DEF OnFirstChanceException, Types
  <2>. QED BY <2>2, <2>3, <2>5, <2>7, <2>8 DEF DeadInv, promise, dead
<1>4. ASSUME NEW t \in Thread, NEW bridge \in BOOLEAN, NEW left \in 0..MaxThrown,
             Catch(t, bridge, left)
      PROVE  DeadInv'
  <2>1. inFlight[t] # <<>> /\ UNCHANGED <<threads, dead, listening, raising, pending>>
    BY <1>4 DEF Catch, Abstract!Catch
  <2>2. \A s \in Thread : s # t => inFlight'[s] = inFlight[s]
    BY <1>4 DEF Catch, Abstract!Catch, Types
  <2>. QED BY <2>1, <2>2 DEF DeadInv, threads, dead
<1>5. ASSUME NEW t \in Thread, Exit(t)  PROVE  DeadInv'
  <2>1. /\ ~raising[t] /\ inFlight[t] = <<>> /\ unfinalized' = Abandoned(t)
        /\ alive' = [alive EXCEPT ![t] = FALSE] /\ sentinel' = [sentinel EXCEPT ![t] = FALSE]
        /\ UNCHANGED <<promise, dead, listening, raising, pending>>
    BY <1>5 DEF Exit
  <2>2. ~alive'[t] /\ \A s \in Thread : s # t => alive'[s] = alive[s]  BY <2>1 DEF Types
  <2>3. \A i \in 1..Len(deadIncoming) : deadIncoming[i] \in Thread  BY DEF Types
  <2>4. \A s \in Thread : s # t => unfinalized'[s] = unfinalized[s]
    BY <2>1 DEF Abandoned, Types
  <2>5. ~sentinel'[t] /\ \A s \in Thread : s # t => sentinel'[s] = sentinel[s]
    BY <2>1 DEF Types
  <2>. QED BY <2>1, <2>2, <2>3, <2>4, <2>5 DEF DeadInv, promise, dead
<1>6. ASSUME NEW t \in Thread, Start(t)  PROVE  DeadInv'
  BY <1>6 DEF Start, InnerOnly
<1>7. ASSUME NEW t \in Thread, Finalize(t)  PROVE  DeadInv'
  <2>1. /\ unfinalized[t] > 0 /\ unfinalized' = [unfinalized EXCEPT ![t] = @ - 1]
        /\ deadIncoming' = Append(deadIncoming, t)
        /\ UNCHANGED <<promise, alive, sentinel, pending, listening, raising, deadPending>>
    BY <1>7 DEF Finalize
  <2>2. ~alive[t]  BY <2>1 DEF DeadInv
  <2>3. \A i \in 1..Len(deadIncoming') : \/ deadIncoming'[i] = t
                                         \/ /\ i \in 1..Len(deadIncoming)
                                            /\ deadIncoming'[i] = deadIncoming[i]
    <3>1. deadIncoming \in Seq(Thread) /\ Len(deadIncoming) \in Nat  BY DEF Types
    <3>2. \A i \in 1..(Len(deadIncoming) + 1) : i \in 1..Len(deadIncoming)
                                                \/ i = Len(deadIncoming) + 1
      BY <3>1
    <3>. QED BY <2>1, <3>1, <3>2, AppendShape
  <2>4. \A s \in Thread : s # t => unfinalized'[s] = unfinalized[s]  BY <2>1 DEF Types
  <2>. QED BY <2>1, <2>2, <2>3, <2>4 DEF DeadInv, promise
<1>8. CASE HandleExceptionThrown
  <2>1. UNCHANGED <<promise, raising, threads, pending, listening, dead>>
    BY <1>8 DEF HandleExceptionThrown
  <2>. QED BY <2>1 DEF DeadInv, promise, threads, dead
<1>9. CASE HandleExceptionCatchStart
  <2>1. UNCHANGED <<inFlight, raising, threads, listening, dead>>
    BY <1>9 DEF HandleExceptionCatchStart
  <2>2. DOMAIN pending' = DOMAIN pending  BY <1>9 DEF HandleExceptionCatchStart, Drained
  <2>. QED BY <2>1, <2>2 DEF DeadInv, threads, dead
<1>10. CASE CleanupDeadThreads
  <2>1. UNCHANGED <<promise, raising, threads, listening>>  BY <1>10, CleanupEffect
  <2>2. \A t \in Thread : t \in DOMAIN pending /\ alive[t] => t \in DOMAIN pending'
    <3>1. DOMAIN pending' = DOMAIN pending \ deadPending \/ pending' = pending
      BY <1>10 DEF CleanupDeadThreads, RemoveThreads
    <3>. QED BY <3>1 DEF DeadInv
  <2>3. CASE UNCHANGED dead  BY <2>1, <2>2, <2>3 DEF DeadInv, promise, threads, dead
  <2>4. CASE /\ deadPending' = {deadIncoming[i] : i \in 1..Len(deadIncoming)}
             /\ deadIncoming' = <<>>
    <3>1. 1..Len(deadIncoming') = {}  BY <2>4
    <3>2. \A t \in deadPending' : ~alive[t]  BY <2>4 DEF DeadInv
    <3>. QED BY <2>1, <2>2, <3>1, <3>2 DEF DeadInv, promise, threads
  <2>. QED BY <1>10, <2>3, <2>4, CleanupEffect
<1>. QED BY <1>1, <1>2, <1>3, <1>4, <1>5, <1>6, <1>7, <1>8, <1>9, <1>10 DEF Next, Listen

LEMMA InitStep == Init => StepInv
<1>. SUFFICES ASSUME Init, NEW t \in Thread  PROVE  InStep(t)  BY DEF StepInv
<1>1. Types  BY InitTypes
<1>2. events = <<>> /\ throwCounts[t] = 0 /\ ~raising[t] /\ pending = <<>>  BY DEF Init
<1>3. Len(events) = 0  BY <1>2
<1>4. Queue(t) = <<>>
  <2>1. <<>> \in Seq(Exception) /\ Len(<<>>) = 0  OBVIOUS
  <2>2. DOMAIN pending = 1..0  BY <1>2, <2>1
  <2>. QED BY <2>2 DEF Queue
<1>5. Len(Queue(t)) = 0  BY <1>4
<1>6. ~OpenIn(events, throwCounts[t], t, Len(events) + 1)
  <2>1. 1..(Len(events) + 1 - 1) = {}  BY <1>3
  <2>2. ~(throwCounts[t] > 0)  BY <1>2
  <2>. QED BY <2>1, <2>2 DEF OpenIn
<1>7. ThrownAhead(t) \in Nat  BY <1>1, AheadType
<1>. QED BY <1>2, <1>5, <1>6, <1>7 DEF InStep

LEMMA StepRests ==
    ASSUME NEW t \in Thread, InStep(t), Queue(t)' = Queue(t), UNCHANGED events,
           raising'[t] = raising[t], inFlight'[t] = inFlight[t],
           throwCounts'[t] = throwCounts[t]
    PROVE  InStep(t)'
BY DEF InStep, ThrownAhead

(* Events of other threads do not matter to a thread.                      *)
LEMMA StepOther ==
    ASSUME Types, NEW t \in Thread, InStep(t), Queue(t)' = Queue(t),
           raising'[t] = raising[t], inFlight'[t] = inFlight[t],
           throwCounts'[t] = throwCounts[t],
           \/ \E event \in Event : event.thread # t /\ events' = Append(events, event)
           \/ events # <<>> /\ events[1].thread # t /\ events' = Tail(events)
    PROVE  InStep(t)'
<1>1. events \in Seq(Event) /\ Len(events) \in Nat /\ throwCounts[t] \in Nat  BY DEF Types
<1>2. ASSUME NEW event \in Event, event.thread # t, events' = Append(events, event)
      PROVE  InStep(t)'
  <2>1. ThrownAhead(t)' = ThrownAhead(t)  BY <1>2, AheadAppend, AheadType
  <2>2. Len(events') + 1 = Len(events) + 2  BY <1>1, <1>2, AppendShape
  <2>3. OpenIn(events', throwCounts[t], t, Len(events') + 1)
          <=> OpenIn(events, throwCounts[t], t, Len(events) + 1)
    BY <1>1, <1>2, <2>2, OpenAppend
  <2>4. ThrownLast(events, t) => ThrownLast(events', t)  BY <1>1, <1>2, LastAppend
  <2>. QED BY <2>1, <2>3, <2>4 DEF InStep
<1>3. ASSUME events # <<>>, events[1].thread # t, events' = Tail(events)
      PROVE  InStep(t)'
  <2>1. ~ThrownAt(events, t, 1)  BY <1>3 DEF ThrownAt
  <2>2. ThrownAhead(t)' = ThrownAhead(t)  BY <1>3, <2>1, AheadTail
  <2>3. Len(events') = Len(events) - 1 /\ Len(events) >= 1  BY <1>1, <1>3, TailShape
  <2>4. Len(events') + 1 = Len(events) /\ Len(events) \in 1..Len(events)  BY <1>1, <2>3
  <2>5. OpenIn(events', throwCounts[t], t, Len(events') + 1)
          <=> OpenIn(events, throwCounts[t], t, Len(events) + 1)
    <3>1. PICK k \in 1..Len(events) : k = Len(events)  BY <2>4
    <3>2. PICK c \in Nat : c = throwCounts[t]  BY <1>1
    <3>3. OpenIn(Tail(events), c, t, k) <=> OpenIn(events, c, t, k + 1)
      BY <1>1, <1>3, OpenTail
    <3>. QED BY <1>3, <2>4, <3>1, <3>2, <3>3
  <2>6. ThrownLast(events, t) => ThrownLast(events', t)  BY <1>1, <1>3, LastTail
  <2>. QED BY <2>2, <2>5, <2>6 DEF InStep
<1>. QED BY <1>2, <1>3

LEMMA StepThrow ==
    ASSUME Types, listening, StepInv, NEW t \in Thread, Throw(t)
    PROVE  StepInv'
<1>1. /\ Emit("thrown", t, FALSE) /\ ~raising[t]
      /\ raising' = [raising EXCEPT ![t] = TRUE]
      /\ inFlight' = [inFlight EXCEPT ![t] = Append(@, thrown + 1)]
      /\ UNCHANGED <<pending, throwCounts>> /\ thrown < MaxThrown
  BY DEF Throw, Abstract!Throw
<1>2. PICK event \in Event : /\ event.thread = t /\ event.kind = "thrown"
                             /\ events' = Append(events, event)
  <2>1. PICK bridge \in BOOLEAN : Emit("thrown", t, bridge)  BY <1>1
  <2>. QED BY <2>1, EmitEffect
<1>3. \A s \in Thread : Queue(s)' = Queue(s)  BY <1>1 DEF Queue
<1>4. ASSUME NEW s \in Thread, s # t  PROVE  InStep(s)'
  <2>1. raising'[s] = raising[s] /\ inFlight'[s] = inFlight[s]  BY <1>1, <1>4 DEF Types
  <2>. QED BY <1>1, <1>2, <1>3, <1>4, <2>1, StepOther DEF StepInv
<1>5. InStep(t)'
  <2>1. raising'[t]  BY <1>1 DEF Types
  <2>2. inFlight'[t] # <<>>
    <3>1. thrown + 1 \in Exception /\ inFlight[t] \in Seq(Exception)
      BY <1>1, ConstantTypes DEF Types, Exception
    <3>2. inFlight'[t] = Append(inFlight[t], thrown + 1)  BY <1>1 DEF Types
    <3>3. Len(inFlight'[t]) = Len(inFlight[t]) + 1 /\ Len(inFlight[t]) \in Nat
      BY <3>1, <3>2, AppendShape
    <3>. QED BY <3>3
  <2>3. ThrownAhead(t)' = ThrownAhead(t) + 1  BY <1>2, AheadAppend
  <2>4. ThrownLast(events', t)
    <3>1. events \in Seq(Event)  BY DEF Types
    <3>. QED BY <1>2, <3>1, LastAppend
  <2>5. Len(Queue(t)) \in Nat /\ throwCounts[t] \in Nat /\ ThrownAhead(t) \in Nat
    BY QueueType, AheadType DEF Types
  <2>6. Len(Queue(t)) <= throwCounts[t] + ThrownAhead(t)  BY <1>1, <2>5 DEF StepInv, InStep
  <2>7. Len(Queue(t)') + 1 <= throwCounts'[t] + ThrownAhead(t)'
    BY <1>1, <1>3, <2>3, <2>5, <2>6
  <2>. QED BY <2>1, <2>2, <2>4, <2>7 DEF InStep
<1>. QED BY <1>4, <1>5 DEF StepInv

LEMMA StepFirstChance ==
    ASSUME Types, OnceInv, StepInv, NEW t \in Thread, OnFirstChanceException(t)
    PROVE  StepInv'
<1>1. inFlight[t] # <<>>  BY DEF OnceInv, OnFirstChanceException
<1>2. /\ raising[t] /\ raising' = [raising EXCEPT ![t] = FALSE]
      /\ Last(inFlight[t]) \in Exception
      /\ Queue(t)' = Append(Queue(t), Last(inFlight[t]))
      /\ \A s \in Thread : s # t => Queue(s)' = Queue(s)
      /\ UNCHANGED <<inFlight, events, throwCounts>>
  BY <1>1, FirstChanceEffect DEF promise
<1>3. ASSUME NEW s \in Thread, s # t  PROVE  InStep(s)'
  <2>1. raising'[s] = raising[s]  BY <1>2, <1>3 DEF Types
  <2>. QED BY <1>2, <1>3, <2>1, StepRests DEF StepInv
<1>4. InStep(t)'
  <2>1. ~raising'[t]  BY <1>2 DEF Types
  <2>2. Len(Queue(t)') = Len(Queue(t)) + 1  BY <1>2, QueueType, AppendShape
  <2>3. Len(Queue(t)) \in Nat /\ throwCounts[t] \in Nat /\ ThrownAhead(t) \in Nat
    BY QueueType, AheadType DEF Types
  <2>4. Len(Queue(t)) + 1 <= throwCounts[t] + ThrownAhead(t)  BY <1>2 DEF StepInv, InStep
  <2>5. ThrownAhead(t)' = ThrownAhead(t)  BY <1>2 DEF ThrownAhead
  <2>6. Len(Queue(t)') + 0 <= throwCounts'[t] + ThrownAhead(t)'
    BY <1>2, <2>2, <2>3, <2>4, <2>5
  <2>. QED BY <1>1, <1>2, <2>1, <2>6 DEF InStep
<1>. QED BY <1>3, <1>4 DEF StepInv

LEMMA StepCatch ==
    ASSUME Types, listening, StepInv, NEW t \in Thread, NEW bridge \in BOOLEAN,
           NEW left \in 0..MaxThrown, Catch(t, bridge, left)
    PROVE  StepInv'
<1>1. /\ Emit("catch", t, bridge) /\ ~raising[t]
      /\ \A s \in Thread : s # t => inFlight'[s] = inFlight[s]
      /\ UNCHANGED <<raising, pending, throwCounts>>
  BY DEF Catch, Abstract!Catch, Types
<1>2. PICK event \in Event : /\ event.thread = t /\ event.kind = "catch"
                             /\ events' = Append(events, event)
  BY <1>1, EmitEffect
<1>3. \A s \in Thread : Queue(s)' = Queue(s)  BY <1>1 DEF Queue
<1>4. ASSUME NEW s \in Thread, s # t  PROVE  InStep(s)'
  BY <1>1, <1>2, <1>3, <1>4, StepOther DEF StepInv
<1>5. InStep(t)'
  <2>1. ThrownAhead(t)' = ThrownAhead(t)
    <3>1. ThrownAhead(t)' = ThrownAhead(t) + 0  BY <1>2, AheadAppend
    <3>. QED BY <3>1, AheadType
  <2>2. events \in Seq(Event) /\ Len(events) \in Nat  BY DEF Types
  <2>3. Len(events') + 1 = Len(events) + 2  BY <1>2, <2>2, AppendShape
  <2>4. ~OpenIn(events', throwCounts'[t], t, Len(events') + 1)
    BY <1>2, <2>2, <2>3, OpenAppend
  <2>. QED BY <1>1, <1>3, <2>1, <2>4 DEF StepInv, InStep
<1>. QED BY <1>4, <1>5 DEF StepInv

LEMMA StepHandleThrown ==
    ASSUME Types, StepInv, HandleExceptionThrown
    PROVE  StepInv'
<1>1. /\ events # <<>> /\ events[1].kind = "thrown" /\ events' = Tail(events)
      /\ throwCounts' = [throwCounts EXCEPT ![events[1].thread] = @ + 1]
      /\ UNCHANGED <<inFlight, raising, pending>>
  BY HandleThrownEffect DEF promise
<1>2. PICK t \in Thread : t = events[1].thread  BY <1>1, HeadEvent
<1>3. \A s \in Thread : Queue(s)' = Queue(s)  BY <1>1 DEF Queue
<1>4. ASSUME NEW s \in Thread, s # t  PROVE  InStep(s)'
  <2>1. throwCounts'[s] = throwCounts[s]  BY <1>1, <1>2, <1>4 DEF Types
  <2>. QED BY <1>1, <1>2, <1>3, <1>4, <2>1, StepOther DEF StepInv
<1>5. InStep(t)'
  <2>1. throwCounts'[t] = throwCounts[t] + 1 /\ throwCounts[t] \in Nat
    BY <1>1, <1>2 DEF Types
  <2>2. ThrownAt(events, t, 1)  BY <1>1, <1>2 DEF ThrownAt
  <2>3. ThrownAhead(t) = ThrownAhead(t)' + 1 /\ ThrownAhead(t)' \in Nat
    BY <1>1, <2>2, AheadTail
  <2>4. events \in Seq(Event) /\ Len(events) \in Nat  BY DEF Types
  <2>5. Len(events') = Len(events) - 1 /\ Len(events) >= 1  BY <1>1, <2>4, TailShape
  <2>6. Len(events') + 1 = Len(events) /\ Len(events) \in 1..Len(events)  BY <2>4, <2>5
  <2>7. OpenIn(events', throwCounts'[t], t, Len(events') + 1)
          <=> OpenIn(events, throwCounts[t], t, Len(events) + 1)
    <3>1. PICK k \in 1..Len(events) : k = Len(events)  BY <2>6
    <3>2. PICK c \in Nat : c = throwCounts[t]  BY <2>1
    <3>3. OpenIn(Tail(events), c + 1, t, k) <=> OpenIn(events, c, t, k + 1)
      BY <1>1, <2>2, <2>4, OpenTail
    <3>. QED BY <1>1, <2>1, <2>6, <3>1, <3>2, <3>3
  <2>8. ThrownLast(events, t) => ThrownLast(events', t)  BY <1>1, <2>4, LastTail
  <2>9. throwCounts'[t] + ThrownAhead(t)' = throwCounts[t] + ThrownAhead(t)
    BY <2>1, <2>3
  <2>. QED BY <1>1, <1>3, <2>7, <2>8, <2>9 DEF StepInv, InStep
<1>. QED BY <1>4, <1>5 DEF StepInv

(* What is left in a queue that a catch has drained is no more than what   *)
(* is still to be counted, and a raising thread has an event to come.      *)
LEMMA StepHandleCatch ==
    ASSUME Types, StepInv, HandleExceptionCatchStart
    PROVE  StepInv'
<1>0. events # <<>>  BY DEF HandleExceptionCatchStart, Handles
<1>1. PICK t \in Thread : t = events[1].thread  BY <1>0, HeadEvent
<1>2. PICK n \in Nat : n = DrainCount(t) /\ n >= 1 /\ n >= throwCounts[t]
  BY <1>1, HandleCatchEffect
<1>3. /\ events[1].kind = "catch" /\ events' = Tail(events)
      /\ throwCounts' = [throwCounts EXCEPT ![t] = 0]
      /\ \A s \in Thread : s # t => Queue(s)' = Queue(s)
      /\ Len(Queue(t)) >= n => Queue(t)' = SubSeq(Queue(t), n + 1, Len(Queue(t)))
      /\ Len(Queue(t)) < n => Queue(t)' = <<>>
      /\ UNCHANGED <<inFlight, raising>>
  BY <1>1, <1>2, HandleCatchEffect
<1>4. ASSUME NEW s \in Thread, s # t  PROVE  InStep(s)'
  <2>1. throwCounts'[s] = throwCounts[s]  BY <1>3, <1>4 DEF Types
  <2>. QED BY <1>0, <1>1, <1>3, <1>4, <2>1, StepOther DEF StepInv
<1>5. InStep(t)'
  <2>1. throwCounts'[t] = 0 /\ throwCounts[t] \in Nat  BY <1>3 DEF Types
  <2>2. CatchAt(events, t, 1) /\ ~ThrownAt(events, t, 1)
    BY <1>1, <1>3 DEF ThrownAt, CatchAt
  <2>3. ThrownAhead(t) = ThrownAhead(t)' + 0 /\ ThrownAhead(t)' \in Nat
    BY <1>0, <1>3, <2>2, AheadTail
  <2>4. events \in Seq(Event) /\ Len(events) \in Nat  BY DEF Types
  <2>5. Len(events') = Len(events) - 1 /\ Len(events) >= 1  BY <1>0, <1>3, <2>4, TailShape
  <2>6. Len(events') + 1 = Len(events) /\ Len(events) \in 1..Len(events)  BY <2>4, <2>5
  <2>7. OpenIn(events', throwCounts'[t], t, Len(events') + 1)
          <=> OpenIn(events, throwCounts[t], t, Len(events) + 1)
    <3>1. PICK k \in 1..Len(events) : k = Len(events)  BY <2>6
    <3>2. PICK c \in Nat : c = throwCounts[t]  BY <2>1
    <3>3. OpenIn(Tail(events), 0, t, k) <=> OpenIn(events, c, t, k + 1)
      BY <1>0, <2>2, <2>4, OpenTail
    <3>. QED BY <1>3, <2>1, <2>6, <3>1, <3>2, <3>3
  <2>8. ThrownLast(events, t) => ThrownLast(events', t)  BY <1>0, <1>3, <2>4, LastTail
  <2>9. Queue(t) \in Seq(Exception) /\ Len(Queue(t)) \in Nat  BY QueueType
  <2>10. Len(Queue(t)') + (IF raising[t] THEN 1 ELSE 0) <= 0 + ThrownAhead(t)'
    <3>1. CASE Len(Queue(t)) >= n
      <4>1. Len(Queue(t)') = Len(Queue(t)) - n  BY <1>3, <2>9, <3>1, RestShape
      <4>2. Len(Queue(t)) + (IF raising[t] THEN 1 ELSE 0) <= throwCounts[t] + ThrownAhead(t)
        BY DEF StepInv, InStep
      <4>. QED BY <1>2, <2>1, <2>3, <2>9, <4>1, <4>2
    <3>2. CASE Len(Queue(t)) < n
      <4>1. Len(Queue(t)') = 0  BY <1>3, <3>2
      <4>2. CASE ~raising[t]  BY <2>3, <4>1, <4>2
      <4>3. CASE raising[t]
        <5>1. ThrownLast(events, t)  BY <4>3 DEF StepInv, InStep
        <5>2. \E i \in 1..Len(events) : ThrownAt(events, t, i)
          <6>1. 1 \in 1..Len(events)  BY <2>4, <2>5
          <6>2. PICK i \in (1 + 1)..Len(events) : ThrownAt(events, t, i)
            BY <2>2, <5>1, <6>1 DEF ThrownLast
          <6>. QED BY <6>2
        <5>3. ThrownAhead(t) = ThrownBefore(events, t, Len(events) + 1)
          BY <2>4, AheadIs DEF ThrownAhead
        <5>4. (Len(events) + 1) - 1 = Len(events) /\ Len(events) + 1 \in Nat  BY <2>4
        <5>5. ThrownAhead(t) >= 1  BY <5>2, <5>3, <5>4, CountType
        <5>. QED BY <2>3, <4>1, <4>3, <5>5
      <4>. QED BY <4>2, <4>3
    <3>. QED BY <1>2, <2>9, <3>1, <3>2
  <2>. QED BY <1>3, <2>1, <2>7, <2>8, <2>10 DEF StepInv, InStep
<1>. QED BY <1>4, <1>5 DEF StepInv

LEMMA StepCleanup ==
    ASSUME Types, DeadInv, StepInv, CleanupDeadThreads
    PROVE  StepInv'
<1>1. UNCHANGED <<raising, events, inFlight>>  BY CleanupEffect DEF promise
<1>2. ASSUME NEW t \in Thread, Queue(t)' = Queue(t), throwCounts'[t] = throwCounts[t]
      PROVE  InStep(t)'
  BY <1>1, <1>2, StepRests DEF StepInv
<1>3. ASSUME NEW t \in Thread, t \in deadPending, Queue(t)' = <<>>, throwCounts'[t] = 0
      PROVE  InStep(t)'
  <2>1. ~raising[t] /\ inFlight[t] = <<>>  BY <1>3 DEF DeadInv
  <2>2. ThrownAhead(t)' = ThrownAhead(t) /\ ThrownAhead(t) \in Nat
    BY <1>1, AheadType DEF ThrownAhead
  <2>3. Len(Queue(t)') = 0  BY <1>3
  <2>4. ~OpenIn(events, throwCounts[t], t, Len(events) + 1)  BY <2>1 DEF StepInv, InStep
  <2>5. ~OpenIn(events, 0, t, Len(events) + 1)
    <3>1. ~(0 > 0)  OBVIOUS
    <3>. QED BY <2>4, <3>1 DEF OpenIn
  <2>6. Len(Queue(t)') + (IF raising[t] THEN 1 ELSE 0) <= throwCounts'[t] + ThrownAhead(t)'
    BY <1>3, <2>1, <2>2, <2>3
  <2>. QED BY <1>1, <1>3, <2>1, <2>5, <2>6 DEF InStep
<1>4. CASE UNCHANGED throwCounts /\ \A t \in Thread : Queue(t)' = Queue(t)
  BY <1>2, <1>4 DEF StepInv
<1>5. CASE /\ \A t \in Thread : Queue(t)' = IF t \in deadPending THEN <<>> ELSE Queue(t)
           /\ throwCounts' = [t \in Thread |-> IF t \in deadPending THEN 0 ELSE throwCounts[t]]
  <2>. SUFFICES ASSUME NEW t \in Thread  PROVE  InStep(t)'  BY DEF StepInv
  <2>1. CASE t \in deadPending  BY <1>3, <1>5, <2>1
  <2>2. CASE t \notin deadPending  BY <1>2, <1>5, <2>2
  <2>. QED BY <2>1, <2>2
<1>. QED BY <1>4, <1>5, CleanupEffect

LEMMA NextStep ==
    ASSUME Types, OnceInv, DeadInv, StepInv, [Next]_vars
    PROVE  StepInv'
<1>1. listening  BY DEF DeadInv
<1>2. ASSUME UNCHANGED <<pending, events, raising, inFlight, throwCounts>>  PROVE  StepInv'
  <2>1. \A t \in Thread : Queue(t)' = Queue(t)  BY <1>2 DEF Queue
  <2>. QED BY <1>2, <2>1, StepRests DEF StepInv
<1>3. CASE OnEventSourceCreated \/ Tick \/ UNCHANGED vars
  BY <1>2, <1>3 DEF OnEventSourceCreated, Tick, vars, promise
<1>4. ASSUME NEW t \in Thread, Throw(t)  PROVE  StepInv'  BY <1>1, <1>4, StepThrow
<1>5. ASSUME NEW t \in Thread, OnFirstChanceException(t)  PROVE  StepInv'
  BY <1>5, StepFirstChance
<1>6. ASSUME NEW t \in Thread, NEW bridge \in BOOLEAN, NEW left \in 0..MaxThrown,
             Catch(t, bridge, left)
      PROVE  StepInv'
  BY <1>1, <1>6, StepCatch
<1>7. ASSUME NEW t \in Thread, Exit(t) \/ Start(t) \/ Finalize(t)  PROVE  StepInv'
  BY <1>2, <1>7 DEF Exit, Start, Finalize, promise
<1>. QED BY <1>3, <1>4, <1>5, <1>6, <1>7, StepHandleThrown, StepHandleCatch, StepCleanup
         DEF Next, Listen

-----------------------------------------------------------------------------
(***************************************************************************)
(* Without faults the counts lead to what was caught.                      *)
(***************************************************************************)
LEMMA InitTime == Init => TimeInv
<1>. SUFFICES ASSUME Init  PROVE  TimeInv  OBVIOUS
<1>1. lastCleanup = 0 /\ now = 0 /\ events = <<>>  BY DEF Init
<1>2. 1..Len(events) = {}  BY <1>1
<1>. QED BY <1>1, <1>2 DEF TimeInv

(* A living thread's event is the youngest.                                *)
LEMMA TimeEmit ==
    ASSUME Types, DeadInv, TimeInv, NEW t \in Thread, alive[t],
           NEW kind \in {"thrown", "catch"}, NEW bridge \in BOOLEAN, Emit(kind, t, bridge),
           UNCHANGED <<dead, now>>
    PROVE  TimeInv'
<1>1. listening  BY DEF DeadInv
<1>2. PICK event \in Event : /\ event.thread = t /\ event.at = now
                             /\ events' = Append(events, event)
  BY <1>1, EmitEffect
<1>3. events \in Seq(Event) /\ Len(events) \in Nat /\ now \in Nat  BY DEF Types
<1>4. /\ Len(events') = Len(events) + 1 /\ events'[Len(events) + 1] = event
      /\ \A i \in 1..Len(events) : events'[i] = events[i]
  BY <1>2, <1>3, AppendShape
<1>5. \A i \in 1..Len(events') : i \in 1..Len(events) \/ i = Len(events) + 1
  BY <1>3, <1>4
<1>6. t \notin deadPending  BY DEF DeadInv
<1>7. now <= now + MaxLag  BY <1>3, ConstantTypes
<1>8. UNCHANGED <<deadPending, lastCleanup, now>>  BY DEF dead
<1>9. \A i \in 1..Len(events) : events[i].at <= now /\ now <= events[i].at + MaxLag
  BY DEF TimeInv
<1>10. \A i \in 1..Len(events') : events'[i].at <= now /\ now <= events'[i].at + MaxLag
  BY <1>2, <1>3, <1>4, <1>5, <1>7, <1>9
<1>11. \A i \in 1..Len(events') : events'[i].thread \in deadPending =>
         events'[i].at <= lastCleanup
  BY <1>2, <1>4, <1>5, <1>6 DEF TimeInv
<1>. QED BY <1>8, <1>10, <1>11 DEF TimeInv

LEMMA TimeRests ==
    ASSUME Types, TimeInv, UNCHANGED <<deadPending, lastCleanup, now>>,
           UNCHANGED events \/ (events # <<>> /\ events' = Tail(events))
    PROVE  TimeInv'
<1>1. CASE UNCHANGED events  BY <1>1 DEF TimeInv
<1>2. CASE events # <<>> /\ events' = Tail(events)
  <2>1. events \in Seq(Event) /\ Len(events) \in Nat  BY DEF Types
  <2>2. Len(events') = Len(events) - 1 /\ \A i \in 1..(Len(events) - 1) : events'[i] = events[i + 1]
    BY <1>2, <2>1, TailShape
  <2>3. \A i \in 1..Len(events') : i + 1 \in 1..Len(events) /\ events'[i] = events[i + 1]
    BY <2>1, <2>2
  <2>. QED BY <2>3 DEF TimeInv
<1>. QED BY <1>1, <1>2

LEMMA NextTime ==
    ASSUME Types, OnceInv, DeadInv, TimeInv, [Next]_vars
    PROVE  TimeInv'
<1>1. CASE OnEventSourceCreated \/ UNCHANGED vars
  BY <1>1, TimeRests DEF OnEventSourceCreated, vars, dead
<1>2. CASE Tick
  <2>1. /\ now' = now + 1 /\ UNCHANGED <<events, deadPending, lastCleanup>>
        /\ \A i \in 1..Len(events) : now - events[i].at < MaxLag
    <3>1. DOMAIN events = 1..Len(events)  BY DEF Types
    <3>. QED BY <1>2, <3>1 DEF Tick, dead
  <2>2. now \in Nat /\ lastCleanup \in Nat /\ MaxLag \in Nat  BY ConstantTypes DEF Types
  <2>3. \A i \in 1..Len(events) : events[i].at \in Nat
    <3>1. \A i \in 1..Len(events) : events[i] \in Event  BY DEF Types
    <3>. QED BY <3>1 DEF Event
  <2>. QED BY <2>1, <2>2, <2>3 DEF TimeInv
<1>3. ASSUME NEW t \in Thread, Throw(t)  PROVE  TimeInv'
  <2>1. alive[t] /\ Emit("thrown", t, FALSE) /\ UNCHANGED <<dead, now>>
    BY <1>3 DEF Throw
  <2>2. PICK bridge \in BOOLEAN : Emit("thrown", t, bridge)  BY <2>1
  <2>. QED BY <2>1, <2>2, TimeEmit
<1>4. ASSUME NEW t \in Thread, OnFirstChanceException(t)  PROVE  TimeInv'
  BY <1>4, TimeRests DEF OnFirstChanceException, dead
<1>5. ASSUME NEW t \in Thread, NEW bridge \in BOOLEAN, NEW left \in 0..MaxThrown,
             Catch(t, bridge, left)
      PROVE  TimeInv'
  <2>1. inFlight[t] # <<>> /\ Emit("catch", t, bridge) /\ UNCHANGED <<dead, now>>
    BY <1>5 DEF Catch, Abstract!Catch
  <2>2. alive[t]  BY <2>1 DEF DeadInv
  <2>. QED BY <2>1, <2>2, TimeEmit
<1>6. ASSUME NEW t \in Thread, Exit(t) \/ Start(t) \/ Finalize(t)  PROVE  TimeInv'
  BY <1>6, TimeRests DEF Exit, Start, Finalize, dead
<1>7. CASE HandleExceptionThrown
  BY <1>7, HandleThrownEffect, TimeRests DEF dead
<1>8. CASE HandleExceptionCatchStart
  BY <1>8, TimeRests DEF HandleExceptionCatchStart, Handles, dead
<1>9. CASE CleanupDeadThreads
  <2>1. UNCHANGED <<events, now>>  BY <1>9, CleanupEffect
  <2>2. CASE UNCHANGED dead  BY <2>1, <2>2, TimeRests DEF dead
  <2>3. CASE lastCleanup' = now
    <3>1. now \in Nat /\ now <= now  BY DEF Types
    <3>. QED BY <2>1, <2>3, <3>1 DEF TimeInv
  <2>. QED BY <1>9, <2>2, <2>3, CleanupEffect
<1>. QED BY <1>1, <1>2, <1>3, <1>4, <1>5, <1>6, <1>7, <1>8, <1>9 DEF Next, Listen

(* An open exception is counted, or to be counted.                         *)
LEMMA OpenCounts ==
    ASSUME NEW es, NEW c \in Nat, NEW t, NEW k \in Nat, OpenIn(es, c, t, k)
    PROVE  ThrownBefore(es, t, k) \in Nat /\ c + ThrownBefore(es, t, k) >= 1
<1>1. ThrownBefore(es, t, k) \in Nat  BY CountType
<1>2. CASE c > 0  BY <1>1, <1>2
<1>3. CASE \E i \in 1..(k - 1) : ThrownAt(es, t, i)
  <2>1. ThrownBefore(es, t, k) >= 1  BY <1>3, CountType
  <2>. QED BY <1>1, <2>1
<1>. QED BY <1>2, <1>3 DEF OpenIn

LEMMA CatchesAppend ==
    ASSUME NEW es \in Seq(Event), NEW event \in Event, NEW c \in Nat, NEW q, NEW t, NEW bs,
           NEW more, bs \subseteq more, CatchesLead(es, c, q, t, bs),
           event.thread = t /\ event.kind = "catch" =>
             /\ OpenIn(es, c, t, Len(es) + 1)
             /\ Len(q) = c + ThrownBefore(es, t, Len(es) + 1)
             /\ event.bridge => q[Len(q)] \in more
    PROVE  CatchesLead(Append(es, event), c, q, t, more)
<1>. DEFINE n == Len(es)
            app == Append(es, event)
<1>1. n \in Nat /\ (\A i \in 1..n : app[i] = es[i]) /\ app[n + 1] = event /\ Len(app) = n + 1
  BY AppendShape
<1>2. \A k \in 1..(n + 1) : /\ OpenIn(app, c, t, k) <=> OpenIn(es, c, t, k)
                            /\ ThrownBefore(app, t, k) = ThrownBefore(es, t, k)
  BY OpenAppend, CountAppend
<1>. HIDE DEF n, app
<1>3. SUFFICES ASSUME NEW k \in 1..(n + 1), CatchAt(app, t, k)
               PROVE  Leads(app, c, q, t, more, k)
  BY <1>1 DEF CatchesLead, app
<1>4. CASE k \in 1..n
  <2>1. CatchAt(es, t, k)  BY <1>1, <1>3, <1>4 DEF CatchAt
  <2>2. Leads(es, c, q, t, bs, k)  BY <1>4, <2>1 DEF CatchesLead, n
  <2>. QED BY <1>1, <1>2, <1>4, <2>2 DEF Leads
<1>5. CASE k = n + 1
  <2>1. event.thread = t /\ event.kind = "catch"  BY <1>1, <1>3, <1>5 DEF CatchAt
  <2>2. /\ OpenIn(es, c, t, n + 1) /\ Len(q) = c + ThrownBefore(es, t, n + 1)
        /\ event.bridge => q[Len(q)] \in more
    BY <2>1 DEF n
  <2>3. OpenIn(app, c, t, n + 1) /\ ThrownBefore(app, t, n + 1) = ThrownBefore(es, t, n + 1)
    BY <1>2, <1>3, <1>5, <2>2
  <2>4. n + 1 \in Nat  BY <1>1
  <2>5. ThrownBefore(es, t, n + 1) \in Nat  BY <2>4, CountType
  <2>6. c + ThrownBefore(app, t, n + 1) = Len(q) /\ Len(q) <= Len(q)  BY <2>2, <2>3, <2>5
  <2>. QED BY <1>1, <1>5, <2>2, <2>3, <2>6 DEF Leads
<1>. QED BY <1>1, <1>4, <1>5

LEMMA CatchesTail ==
    ASSUME NEW es \in Seq(Event), es # <<>>, NEW c \in Nat, NEW q \in Seq(Exception), NEW t,
           NEW bs, CatchesLead(es, c, q, t, bs)
    PROVE  /\ ThrownAt(es, t, 1) => CatchesLead(Tail(es), c + 1, q, t, bs)
           /\ es[1].thread # t => CatchesLead(Tail(es), c, q, t, bs)
           /\ CatchAt(es, t, 1) =>
                /\ c >= 1 /\ c <= Len(q) /\ (es[1].bridge => q[c] \in bs)
                /\ CatchesLead(Tail(es), 0, SubSeq(q, c + 1, Len(q)), t, bs)
<1>. DEFINE n == Len(es)
            rest == Tail(es)
<1>1. n \in Nat /\ n >= 1 /\ Len(rest) = n - 1 /\ \A i \in 1..(n - 1) : rest[i] = es[i + 1]
  BY TailShape
<1>2. \A k \in 1..n : ThrownBefore(es, t, k + 1)
                        = ThrownBefore(rest, t, k) + (IF ThrownAt(es, t, 1) THEN 1 ELSE 0)
  BY CountTail
<1>3. \A k \in 1..n : /\ ThrownBefore(rest, t, k) \in Nat
                      /\ OpenIn(es, c, t, k + 1) => c + ThrownBefore(es, t, k + 1) >= 1
  <2>. SUFFICES ASSUME NEW k \in 1..n
                PROVE  /\ ThrownBefore(rest, t, k) \in Nat
                       /\ OpenIn(es, c, t, k + 1) => c + ThrownBefore(es, t, k + 1) >= 1
    OBVIOUS
  <2>1. k \in Nat /\ k + 1 \in Nat  BY <1>1
  <2>2. ThrownBefore(rest, t, k) \in Nat  BY <2>1, CountType
  <2>. HIDE DEF rest, n
  <2>. QED BY <2>1, <2>2, OpenCounts
<1>4. ASSUME NEW k \in 1..(n - 1), CatchAt(rest, t, k)
      PROVE  Leads(es, c, q, t, bs, k + 1) /\ rest[k] = es[k + 1] /\ k \in 1..n
  <2>1. k + 1 \in 1..n /\ CatchAt(es, t, k + 1)  BY <1>1, <1>4 DEF CatchAt
  <2>. QED BY <1>1, <2>1 DEF CatchesLead
<1>5. ASSUME NEW k \in 1..n
      PROVE  /\ ThrownAt(es, t, 1) => (OpenIn(rest, c + 1, t, k) <=> OpenIn(es, c, t, k + 1))
             /\ CatchAt(es, t, 1) => (OpenIn(rest, 0, t, k) <=> OpenIn(es, c, t, k + 1))
             /\ es[1].thread # t => (OpenIn(rest, c, t, k) <=> OpenIn(es, c, t, k + 1))
  BY OpenTail
<1>. HIDE DEF n, rest
<1>6. ASSUME ThrownAt(es, t, 1)  PROVE  CatchesLead(rest, c + 1, q, t, bs)
  <2>. SUFFICES ASSUME NEW k \in 1..(n - 1), CatchAt(rest, t, k)
                PROVE  Leads(rest, c + 1, q, t, bs, k)
    BY <1>1 DEF CatchesLead
  <2>1. Leads(es, c, q, t, bs, k + 1) /\ rest[k] = es[k + 1] /\ k \in 1..n  BY <1>4
  <2>2. ThrownBefore(es, t, k + 1) = ThrownBefore(rest, t, k) + 1  BY <1>2, <1>6, <2>1
  <2>3. ThrownBefore(rest, t, k) \in Nat  BY <1>3, <2>1
  <2>4. (c + 1) + ThrownBefore(rest, t, k) = c + ThrownBefore(es, t, k + 1)  BY <2>2, <2>3
  <2>5. OpenIn(rest, c + 1, t, k)  BY <1>5, <1>6, <2>1 DEF Leads
  <2>. QED BY <2>1, <2>4, <2>5 DEF Leads
<1>7. ASSUME es[1].thread # t  PROVE  CatchesLead(rest, c, q, t, bs)
  <2>. SUFFICES ASSUME NEW k \in 1..(n - 1), CatchAt(rest, t, k)
                PROVE  Leads(rest, c, q, t, bs, k)
    BY <1>1 DEF CatchesLead
  <2>1. Leads(es, c, q, t, bs, k + 1) /\ rest[k] = es[k + 1] /\ k \in 1..n  BY <1>4
  <2>2. ~ThrownAt(es, t, 1)  BY <1>7 DEF ThrownAt
  <2>3. ThrownBefore(rest, t, k) \in Nat  BY <1>3, <2>1
  <2>4. ThrownBefore(rest, t, k) = ThrownBefore(es, t, k + 1)  BY <1>2, <2>1, <2>2, <2>3
  <2>5. OpenIn(rest, c, t, k)  BY <1>5, <1>7, <2>1 DEF Leads
  <2>. QED BY <2>1, <2>4, <2>5 DEF Leads
<1>8. ASSUME CatchAt(es, t, 1)
      PROVE  /\ c >= 1 /\ c <= Len(q) /\ (es[1].bridge => q[c] \in bs)
             /\ CatchesLead(rest, 0, SubSeq(q, c + 1, Len(q)), t, bs)
  <2>1. 1 \in 1..n /\ 1..(1 - 1) = {}  BY <1>1
  <2>2. Leads(es, c, q, t, bs, 1)  BY <1>8, <2>1 DEF CatchesLead, n
  <2>3. c >= 1  BY <2>1, <2>2 DEF Leads, OpenIn
  <2>4. ThrownBefore(es, t, 1) = 0
    <3>1. {i \in 1..(1 - 1) : ThrownAt(es, t, i)} = {}  BY <2>1
    <3>. QED BY <3>1, FS_EmptySet DEF ThrownBefore
  <2>5. c + ThrownBefore(es, t, 1) = c  BY <2>4
  <2>6. c <= Len(q) /\ (es[1].bridge => q[c] \in bs)  BY <2>2, <2>5 DEF Leads
  <2>. DEFINE left == SubSeq(q, c + 1, Len(q))
  <2>7. /\ Len(left) = Len(q) - c /\ Len(q) \in Nat
        /\ \A i \in 1..(Len(q) - c) : left[i] = q[i + c]
    BY <2>6, RestShape
  <2>. HIDE DEF left
  <2>8. ASSUME NEW k \in 1..(n - 1), CatchAt(rest, t, k)
        PROVE  Leads(rest, 0, left, t, bs, k)
    <3>1. Leads(es, c, q, t, bs, k + 1) /\ rest[k] = es[k + 1] /\ k \in 1..n  BY <1>4, <2>8
    <3>2. ~ThrownAt(es, t, 1)  BY <1>8 DEF ThrownAt, CatchAt
    <3>3. PICK m \in Nat : m = ThrownBefore(rest, t, k)  BY <1>3, <3>1
    <3>4. ThrownBefore(es, t, k + 1) = m  BY <1>2, <3>1, <3>2, <3>3
    <3>5. OpenIn(rest, 0, t, k)  BY <1>5, <1>8, <3>1 DEF Leads
    <3>6. m >= 1
      <4>1. 0 \in Nat /\ k \in Nat  BY <1>1
      <4>2. 0 + ThrownBefore(rest, t, k) >= 1  BY <3>5, <4>1, OpenCounts
      <4>. QED BY <3>3, <4>2
    <3>7. c + m <= Len(q) /\ (es[k + 1].bridge => q[c + m] \in bs)
      BY <3>1, <3>4 DEF Leads
    <3>8. m \in 1..(Len(q) - c) /\ m + c = c + m /\ 0 + m = m  BY <2>7, <3>6, <3>7
    <3>9. left[m] = q[c + m] /\ m <= Len(left)  BY <2>7, <3>8
    <3>. QED BY <3>1, <3>3, <3>5, <3>7, <3>8, <3>9 DEF Leads
  <2>9. CatchesLead(rest, 0, left, t, bs)  BY <1>1, <2>8 DEF CatchesLead
  <2>. QED BY <2>3, <2>6, <2>9 DEF left
<1>. QED BY <1>6, <1>7, <1>8 DEF rest

(* A queue may grow at its end, and the bridge catch more.                 *)
LEMMA CatchesGrow ==
    ASSUME NEW es \in Seq(Event), NEW c \in Nat, NEW q \in Seq(Exception), NEW t, NEW bs,
           NEW e \in Exception, CatchesLead(es, c, q, t, bs)
    PROVE  CatchesLead(es, c, Append(q, e), t, bs)
<1>1. /\ Len(q) \in Nat /\ Len(Append(q, e)) = Len(q) + 1
      /\ \A i \in 1..Len(q) : Append(q, e)[i] = q[i]
  BY AppendShape
<1>2. SUFFICES ASSUME NEW k \in 1..Len(es), CatchAt(es, t, k)
               PROVE  Leads(es, c, Append(q, e), t, bs, k)
  BY DEF CatchesLead
<1>3. Leads(es, c, q, t, bs, k)  BY <1>2 DEF CatchesLead
<1>4. k \in Nat /\ OpenIn(es, c, t, k)  BY <1>3 DEF Leads
<1>5. PICK m \in Nat : m = c + ThrownBefore(es, t, k) /\ m >= 1  BY <1>4, OpenCounts
<1>6. m <= Len(q) /\ (es[k].bridge => q[m] \in bs)  BY <1>3, <1>5 DEF Leads
<1>7. m \in 1..Len(q) /\ m <= Len(q) + 1  BY <1>1, <1>5, <1>6
<1>. QED BY <1>1, <1>4, <1>5, <1>6, <1>7 DEF Leads

LEMMA InitMatch == Init => MatchInv
<1>. SUFFICES ASSUME Init, NEW t \in Thread  PROVE  Matches(t)  BY DEF MatchInv
<1>1. /\ events = <<>> /\ throwCounts[t] = 0 /\ ~raising[t] /\ pending = <<>>
      /\ inFlight[t] = <<>>
  BY DEF Init, Abstract!Init
<1>2. Len(events) = 0 /\ 1..Len(events) = {}  BY <1>1
<1>3. Queue(t) = <<>>
  <2>1. <<>> \in Seq(Exception) /\ Len(<<>>) = 0  OBVIOUS
  <2>2. DOMAIN pending = 1..0  BY <1>1, <2>1
  <2>. QED BY <2>2 DEF Queue
<1>4. ThrownAhead(t) = 0
  <2>1. events \in Seq(Event)  BY InitTypes DEF Types
  <2>2. ThrownAhead(t) = ThrownBefore(events, t, Len(events) + 1)
    BY <2>1, AheadIs DEF ThrownAhead
  <2>3. (Len(events) + 1) - 1 = 0 /\ Len(events) + 1 \in Nat  BY <1>2
  <2>4. {i \in 1..((Len(events) + 1) - 1) : ThrownAt(events, t, i)} = {}  BY <2>3
  <2>. QED BY <2>2, <2>4, FS_EmptySet DEF ThrownBefore
<1>5. Len(Queue(t)) = 0  BY <1>3
<1>. QED BY <1>1, <1>2, <1>4, <1>5 DEF Matches, CatchesLead

LEMMA MatchRests ==
    ASSUME NEW t \in Thread, Matches(t), Queue(t)' = Queue(t), UNCHANGED <<events, bridged>>,
           raising'[t] = raising[t], inFlight'[t] = inFlight[t],
           throwCounts'[t] = throwCounts[t]
    PROVE  Matches(t)'
BY DEF Matches, ThrownAhead

LEMMA MatchOther ==
    ASSUME Types, NEW t \in Thread, Matches(t), Queue(t)' = Queue(t),
           raising'[t] = raising[t], inFlight'[t] = inFlight[t],
           throwCounts'[t] = throwCounts[t],
           \/ /\ bridged \subseteq bridged'
              /\ \E event \in Event : event.thread # t /\ events' = Append(events, event)
           \/ /\ bridged' = bridged
              /\ events # <<>> /\ events[1].thread # t /\ events' = Tail(events)
    PROVE  Matches(t)'
<1>1. events \in Seq(Event) /\ Len(events) \in Nat  BY DEF Types
<1>2. PICK c \in Nat : c = throwCounts[t]  BY DEF Types
<1>3. Queue(t) \in Seq(Exception)  BY QueueType
<1>4. ASSUME NEW event \in Event, event.thread # t, events' = Append(events, event),
             bridged \subseteq bridged'
      PROVE  Matches(t)'
  <2>1. ThrownAhead(t)' = ThrownAhead(t)  BY <1>4, AheadAppend, AheadType
  <2>2. Len(events') + 1 = Len(events) + 2  BY <1>1, <1>4, AppendShape
  <2>3. OpenIn(events', c, t, Len(events') + 1) <=> OpenIn(events, c, t, Len(events) + 1)
    BY <1>1, <1>4, <2>2, OpenAppend
  <2>4. CatchesLead(events', c, Queue(t), t, bridged')
    <3>1. PICK more : more = bridged'  OBVIOUS
    <3>2. CatchesLead(events, c, Queue(t), t, bridged)  BY <1>2 DEF Matches
    <3>3. CatchesLead(Append(events, event), c, Queue(t), t, more)
      BY <1>1, <1>4, <3>1, <3>2, CatchesAppend
    <3>. QED BY <1>4, <3>1, <3>3
  <2>. QED BY <1>2, <2>1, <2>3, <2>4 DEF Matches
<1>5. ASSUME events # <<>>, events[1].thread # t, events' = Tail(events), bridged' = bridged
      PROVE  Matches(t)'
  <2>1. ~ThrownAt(events, t, 1)  BY <1>5 DEF ThrownAt
  <2>2. ThrownAhead(t)' = ThrownAhead(t)  BY <1>5, <2>1, AheadTail
  <2>3. Len(events') = Len(events) - 1 /\ Len(events) >= 1  BY <1>1, <1>5, TailShape
  <2>4. Len(events') + 1 = Len(events) /\ Len(events) \in 1..Len(events)  BY <1>1, <2>3
  <2>5. OpenIn(events', c, t, Len(events') + 1) <=> OpenIn(events, c, t, Len(events) + 1)
    <3>1. PICK k \in 1..Len(events) : k = Len(events)  BY <2>4
    <3>2. OpenIn(Tail(events), c, t, k) <=> OpenIn(events, c, t, k + 1)
      BY <1>1, <1>5, OpenTail
    <3>. QED BY <1>5, <2>4, <3>1, <3>2
  <2>6. CatchesLead(events', c, Queue(t), t, bridged)
    <3>1. CatchesLead(events, c, Queue(t), t, bridged)  BY <1>2 DEF Matches
    <3>. QED BY <1>1, <1>3, <1>5, <3>1, CatchesTail
  <2>. QED BY <1>2, <1>5, <2>2, <2>5, <2>6 DEF Matches
<1>. QED BY <1>4, <1>5

LEMMA MatchThrow ==
    ASSUME Types, listening, MatchInv, NEW t \in Thread, Throw(t)
    PROVE  MatchInv'
<1>1. /\ Emit("thrown", t, FALSE) /\ ~raising[t] /\ thrown < MaxThrown
      /\ raising' = [raising EXCEPT ![t] = TRUE]
      /\ inFlight' = [inFlight EXCEPT ![t] = Append(@, thrown + 1)]
      /\ UNCHANGED <<bridged, pending, throwCounts>>
  BY DEF Throw, Abstract!Throw
<1>2. PICK event \in Event : /\ event.thread = t /\ event.kind = "thrown"
                             /\ events' = Append(events, event)
  <2>1. PICK bridge \in BOOLEAN : Emit("thrown", t, bridge)  BY <1>1
  <2>. QED BY <2>1, EmitEffect
<1>3. \A s \in Thread : Queue(s)' = Queue(s)  BY <1>1 DEF Queue
<1>4. ASSUME NEW s \in Thread, s # t  PROVE  Matches(s)'
  <2>1. raising'[s] = raising[s] /\ inFlight'[s] = inFlight[s]  BY <1>1, <1>4 DEF Types
  <2>2. bridged \subseteq bridged' /\ event.thread # s  BY <1>1, <1>2, <1>4
  <2>. QED BY <1>1, <1>2, <1>3, <1>4, <2>1, <2>2, MatchOther DEF MatchInv
<1>5. Matches(t)'
  <2>1. raising'[t]  BY <1>1 DEF Types
  <2>2. ThrownAhead(t)' = ThrownAhead(t) + 1  BY <1>2, AheadAppend
  <2>3. events \in Seq(Event) /\ Len(events) \in Nat  BY DEF Types
  <2>4. PICK c \in Nat : c = throwCounts[t]  BY DEF Types
  <2>5. Len(Queue(t)) \in Nat /\ ThrownAhead(t) \in Nat  BY QueueType, AheadType
  <2>6. Matches(t)  BY DEF MatchInv
  <2>7. Len(Queue(t)) + 0 = c + ThrownAhead(t)  BY <1>1, <2>4, <2>6 DEF Matches
  <2>8. Len(Queue(t)) + 1 = c + ThrownAhead(t)'  BY <2>2, <2>5, <2>7
  <2>9. Len(events') + 1 = Len(events) + 2  BY <1>2, <2>3, AppendShape
  <2>10. OpenIn(events', c, t, Len(events') + 1)  BY <1>2, <2>3, <2>9, OpenAppend
  <2>11. CatchesLead(events', c, Queue(t), t, bridged)
    <3>1. CatchesLead(events, c, Queue(t), t, bridged)  BY <2>4, <2>6 DEF Matches
    <3>2. event.kind # "catch"  BY <1>2
    <3>3. bridged \subseteq bridged  OBVIOUS
    <3>. QED BY <1>2, <2>3, <3>1, <3>2, <3>3, CatchesAppend
  <2>. QED BY <1>1, <1>3, <2>1, <2>4, <2>8, <2>10, <2>11 DEF Matches
<1>. QED BY <1>4, <1>5 DEF MatchInv

LEMMA MatchFirstChance ==
    ASSUME Types, OnceInv, MatchInv, NEW t \in Thread, OnFirstChanceException(t)
    PROVE  MatchInv'
<1>1. inFlight[t] # <<>>  BY DEF OnceInv, OnFirstChanceException
<1>2. PICK last \in Exception : last = Last(inFlight[t])
  BY <1>1, FirstChanceEffect
<1>3. /\ raising[t] /\ raising' = [raising EXCEPT ![t] = FALSE]
      /\ Queue(t)' = Append(Queue(t), last)
      /\ \A s \in Thread : s # t => Queue(s)' = Queue(s)
      /\ UNCHANGED <<inFlight, bridged, events, throwCounts>>
  BY <1>1, <1>2, FirstChanceEffect DEF promise
<1>4. ASSUME NEW s \in Thread, s # t  PROVE  Matches(s)'
  <2>1. raising'[s] = raising[s]  BY <1>3, <1>4 DEF Types
  <2>. QED BY <1>3, <1>4, <2>1, MatchRests DEF MatchInv
<1>5. Matches(t)'
  <2>1. ~raising'[t]  BY <1>3 DEF Types
  <2>2. Queue(t) \in Seq(Exception) /\ Len(Queue(t)) \in Nat  BY QueueType
  <2>3. /\ Queue(t)' \in Seq(Exception)
        /\ Len(Queue(t)') = Len(Queue(t)) + 1 /\ Queue(t)'[Len(Queue(t)) + 1] = last
    BY <1>3, <2>2, AppendShape
  <2>4. Queue(t)' # <<>> /\ Last(Queue(t)') = last  BY <2>2, <2>3 DEF Last
  <2>5. Matches(t)  BY DEF MatchInv
  <2>6. ThrownAhead(t)' = ThrownAhead(t)  BY <1>3 DEF ThrownAhead
  <2>7. PICK c \in Nat : c = throwCounts[t]  BY DEF Types
  <2>8. Len(Queue(t)) + 1 = c + ThrownAhead(t)  BY <1>3, <2>5, <2>7 DEF Matches
  <2>9. Len(Queue(t)') + 0 = c + ThrownAhead(t)'  BY <2>2, <2>3, <2>6, <2>8
  <2>10. CatchesLead(events, c, Queue(t)', t, bridged)
    <3>1. CatchesLead(events, c, Queue(t), t, bridged)  BY <2>5, <2>7 DEF Matches
    <3>2. events \in Seq(Event)  BY DEF Types
    <3>. QED BY <1>3, <2>2, <3>1, <3>2, CatchesGrow
  <2>11. OpenIn(events, c, t, Len(events) + 1)  BY <1>1, <2>5, <2>7 DEF Matches
  <2>. QED BY <1>2, <1>3, <2>1, <2>4, <2>7, <2>9, <2>10, <2>11 DEF Matches
<1>. QED BY <1>4, <1>5 DEF MatchInv

(* The catch ends all that is in flight, the last of the queue.            *)
LEMMA MatchCatch ==
    ASSUME Types, listening, MatchInv, faults = {}, NEW t \in Thread, NEW bridge \in BOOLEAN,
           NEW left \in 0..MaxThrown, Catch(t, bridge, left)
    PROVE  MatchInv'
<1>1. /\ Emit("catch", t, bridge) /\ ~raising[t] /\ inFlight[t] # <<>>
      /\ left > 0 => "inner catch" \in faults
      /\ bridged' = IF bridge THEN bridged \cup {inFlight[t][Len(inFlight[t])]} ELSE bridged
      /\ inFlight' = [inFlight EXCEPT ![t] = SubSeq(@, 1, left)]
      /\ UNCHANGED <<raising, pending, throwCounts>>
  BY DEF Catch, Abstract!Catch
<1>2. PICK event \in Event : /\ event.thread = t /\ event.kind = "catch"
                             /\ event.bridge = bridge /\ events' = Append(events, event)
  BY <1>1, EmitEffect
<1>3. \A s \in Thread : Queue(s)' = Queue(s)  BY <1>1 DEF Queue
<1>4. bridged \subseteq bridged'  BY <1>1
<1>5. ASSUME NEW s \in Thread, s # t  PROVE  Matches(s)'
  <2>1. inFlight'[s] = inFlight[s]  BY <1>1, <1>5 DEF Types
  <2>2. event.thread # s  BY <1>2, <1>5
  <2>. QED BY <1>1, <1>2, <1>3, <1>4, <1>5, <2>1, <2>2, MatchOther DEF MatchInv
<1>6. Matches(t)'
  <2>1. inFlight'[t] = <<>>
    <3>1. left = 0
      <4>1. "inner catch" \notin faults  OBVIOUS
      <4>2. ~(left > 0) /\ left \in Nat  BY <1>1, <4>1
      <4>. QED BY <4>2
    <3>2. inFlight[t] \in Seq(Exception)  BY DEF Types
    <3>3. SubSeq(inFlight[t], 1, 0) = <<>>  BY <3>2
    <3>. QED BY <1>1, <3>1, <3>3 DEF Types
  <2>2. ThrownAhead(t)' = ThrownAhead(t)
    <3>1. ThrownAhead(t)' = ThrownAhead(t) + 0  BY <1>2, AheadAppend
    <3>. QED BY <3>1, AheadType
  <2>3. events \in Seq(Event) /\ Len(events) \in Nat  BY DEF Types
  <2>4. PICK c \in Nat : c = throwCounts[t]  BY DEF Types
  <2>5. Queue(t) \in Seq(Exception) /\ Len(Queue(t)) \in Nat /\ ThrownAhead(t) \in Nat
    BY QueueType, AheadType
  <2>6. Matches(t)  BY DEF MatchInv
  <2>7. Len(Queue(t)) + 0 = c + ThrownAhead(t)  BY <1>1, <2>4, <2>6 DEF Matches
  <2>8. CatchesLead(events', c, Queue(t), t, bridged')
    <3>1. CatchesLead(events, c, Queue(t), t, bridged)  BY <2>4, <2>6 DEF Matches
    <3>2. OpenIn(events, c, t, Len(events) + 1)  BY <1>1, <2>4, <2>6 DEF Matches
    <3>3. ThrownAhead(t) = ThrownBefore(events, t, Len(events) + 1)
      BY <2>3, AheadIs DEF ThrownAhead
    <3>4. Len(Queue(t)) = c + ThrownBefore(events, t, Len(events) + 1)
      BY <2>5, <2>7, <3>3
    <3>5. PICK more : more = bridged'  OBVIOUS
    <3>6. bridge => Queue(t)[Len(Queue(t))] \in more
      <4>1. Last(Queue(t)) = Last(inFlight[t])  BY <1>1, <2>6 DEF Matches
      <4>. QED BY <1>1, <3>5, <4>1 DEF Last
    <3>7. CatchesLead(Append(events, event), c, Queue(t), t, more)
      BY <1>2, <1>4, <2>3, <3>1, <3>2, <3>4, <3>5, <3>6, CatchesAppend
    <3>. QED BY <1>2, <3>5, <3>7
  <2>. QED BY <1>1, <1>3, <2>1, <2>2, <2>4, <2>7, <2>8 DEF Matches
<1>. QED BY <1>5, <1>6 DEF MatchInv

LEMMA MatchHandleThrown ==
    ASSUME Types, MatchInv, HandleExceptionThrown
    PROVE  MatchInv'
<1>1. /\ events # <<>> /\ events[1].kind = "thrown" /\ events' = Tail(events)
      /\ throwCounts' = [throwCounts EXCEPT ![events[1].thread] = @ + 1]
      /\ UNCHANGED <<inFlight, bridged, raising, pending>>
  BY HandleThrownEffect DEF promise
<1>2. PICK t \in Thread : t = events[1].thread  BY <1>1, HeadEvent
<1>3. \A s \in Thread : Queue(s)' = Queue(s)  BY <1>1 DEF Queue
<1>4. ASSUME NEW s \in Thread, s # t  PROVE  Matches(s)'
  <2>1. throwCounts'[s] = throwCounts[s]  BY <1>1, <1>2, <1>4 DEF Types
  <2>. QED BY <1>1, <1>2, <1>3, <1>4, <2>1, MatchOther DEF MatchInv
<1>5. Matches(t)'
  <2>1. PICK c \in Nat : c = throwCounts[t]  BY DEF Types
  <2>2. throwCounts'[t] = c + 1  BY <1>1, <1>2, <2>1 DEF Types
  <2>3. ThrownAt(events, t, 1)  BY <1>1, <1>2 DEF ThrownAt
  <2>4. ThrownAhead(t) = ThrownAhead(t)' + 1 /\ ThrownAhead(t)' \in Nat
    BY <1>1, <2>3, AheadTail
  <2>5. events \in Seq(Event) /\ Len(events) \in Nat  BY DEF Types
  <2>6. Len(events') = Len(events) - 1 /\ Len(events) >= 1  BY <1>1, <2>5, TailShape
  <2>7. Len(events') + 1 = Len(events) /\ Len(events) \in 1..Len(events)  BY <2>5, <2>6
  <2>8. OpenIn(events', c + 1, t, Len(events') + 1) <=> OpenIn(events, c, t, Len(events) + 1)
    <3>1. PICK k \in 1..Len(events) : k = Len(events)  BY <2>7
    <3>2. OpenIn(Tail(events), c + 1, t, k) <=> OpenIn(events, c, t, k + 1)
      BY <1>1, <2>3, <2>5, OpenTail
    <3>. QED BY <1>1, <2>7, <3>1, <3>2
  <2>9. Matches(t)  BY DEF MatchInv
  <2>10. (c + 1) + ThrownAhead(t)' = c + ThrownAhead(t)  BY <2>4
  <2>11. CatchesLead(events', c + 1, Queue(t), t, bridged)
    <3>1. CatchesLead(events, c, Queue(t), t, bridged)  BY <2>1, <2>9 DEF Matches
    <3>2. Queue(t) \in Seq(Exception)  BY QueueType
    <3>. QED BY <1>1, <2>3, <2>5, <3>1, <3>2, CatchesTail
  <2>. QED BY <1>1, <1>3, <2>1, <2>2, <2>8, <2>9, <2>10, <2>11 DEF Matches
<1>. QED BY <1>4, <1>5 DEF MatchInv

LEMMA MatchHandleCatch ==
    ASSUME Types, MatchInv, HandleExceptionCatchStart
    PROVE  MatchInv'
<1>0. events # <<>>  BY DEF HandleExceptionCatchStart, Handles
<1>1. PICK t \in Thread : t = events[1].thread  BY <1>0, HeadEvent
<1>2. PICK c \in Nat : c = throwCounts[t]  BY DEF Types
<1>3. PICK q \in Seq(Exception) : q = Queue(t)  BY QueueType
<1>4. events \in Seq(Event) /\ Len(events) \in Nat  BY DEF Types
<1>5. Matches(t)  BY DEF MatchInv
<1>6. CatchesLead(events, c, q, t, bridged)  BY <1>2, <1>3, <1>5 DEF Matches
<1>7. CatchAt(events, t, 1)  BY <1>1, HandleCatchEffect DEF CatchAt
<1>8. c >= 1 /\ c <= Len(q) /\ CatchesLead(Tail(events), 0, SubSeq(q, c + 1, Len(q)), t, bridged)
  BY <1>0, <1>4, <1>6, <1>7, CatchesTail
<1>9. DrainCount(t) = c  BY <1>2, <1>8 DEF DrainCount
<1>10. /\ events' = Tail(events)
       /\ throwCounts' = [throwCounts EXCEPT ![t] = 0]
       /\ \A s \in Thread : s # t => Queue(s)' = Queue(s)
       /\ Queue(t)' = SubSeq(q, c + 1, Len(q))
       /\ UNCHANGED <<inFlight, raising, bridged>>
  <2>1. Len(Queue(t)) >= c  BY <1>3, <1>8
  <2>. QED BY <1>1, <1>3, <1>9, <2>1, HandleCatchEffect
<1>11. ASSUME NEW s \in Thread, s # t  PROVE  Matches(s)'
  <2>1. throwCounts'[s] = throwCounts[s]  BY <1>10, <1>11 DEF Types
  <2>. QED BY <1>0, <1>1, <1>10, <1>11, <2>1, MatchOther DEF MatchInv
<1>12. Matches(t)'
  <2>1. throwCounts'[t] = 0  BY <1>10 DEF Types
  <2>2. ~ThrownAt(events, t, 1)  BY <1>7 DEF ThrownAt, CatchAt
  <2>3. ThrownAhead(t) = ThrownAhead(t)' /\ ThrownAhead(t)' \in Nat
    <3>1. ThrownAhead(t) = ThrownAhead(t)' + 0 /\ ThrownAhead(t)' \in Nat
      BY <1>0, <1>10, <2>2, AheadTail
    <3>. QED BY <3>1
  <2>4. Len(events') = Len(events) - 1 /\ Len(events) >= 1  BY <1>0, <1>4, <1>10, TailShape
  <2>5. Len(events') + 1 = Len(events) /\ Len(events) \in 1..Len(events)  BY <1>4, <2>4
  <2>6. OpenIn(events', 0, t, Len(events') + 1) <=> OpenIn(events, c, t, Len(events) + 1)
    <3>1. PICK k \in 1..Len(events) : k = Len(events)  BY <2>5
    <3>2. OpenIn(Tail(events), 0, t, k) <=> OpenIn(events, c, t, k + 1)
      BY <1>0, <1>4, <1>7, OpenTail
    <3>. QED BY <1>10, <2>5, <3>1, <3>2
  <2>7. /\ Len(Queue(t)') = Len(q) - c /\ Len(q) \in Nat
        /\ \A i \in 1..(Len(q) - c) : Queue(t)'[i] = q[i + c]
    BY <1>8, <1>10, RestShape
  <2>8. Len(q) + (IF raising[t] THEN 1 ELSE 0) = c + ThrownAhead(t)
    BY <1>2, <1>3, <1>5 DEF Matches
  <2>9. Len(Queue(t)') + (IF raising[t] THEN 1 ELSE 0) = 0 + ThrownAhead(t)'
    BY <2>3, <2>7, <2>8
  <2>10. inFlight[t] # <<>> => OpenIn(events', 0, t, Len(events') + 1)
    BY <1>2, <1>5, <2>6 DEF Matches
  <2>11. ASSUME inFlight[t] # <<>>, ~raising[t]
         PROVE  Queue(t)' # <<>> /\ Last(Queue(t)') = Last(inFlight[t])
    <3>1. events' \in Seq(Event) /\ Len(events') + 1 \in Nat
      BY <1>0, <1>4, <1>10, <2>5, TailShape
    <3>2. 0 \in Nat /\ 0 + ThrownBefore(events', t, Len(events') + 1) >= 1
      BY <2>10, <2>11, <3>1, OpenCounts
    <3>3. ThrownAhead(t)' = ThrownBefore(events', t, Len(events') + 1)
      BY <3>1, AheadIs DEF ThrownAhead
    <3>4. Len(Queue(t)') >= 1  BY <2>3, <2>7, <2>9, <2>11, <3>2, <3>3
    <3>5. Len(q) - c \in 1..(Len(q) - c) /\ (Len(q) - c) + c = Len(q)  BY <2>7, <3>4
    <3>6. Queue(t)'[Len(Queue(t)')] = q[Len(q)]  BY <2>7, <3>5
    <3>7. q # <<>> /\ Last(q) = Last(inFlight[t])  BY <1>3, <1>5, <2>11 DEF Matches
    <3>8. Queue(t)' # <<>>  BY <3>4
    <3>. QED BY <3>6, <3>7, <3>8 DEF Last
  <2>12. CatchesLead(events', 0, Queue(t)', t, bridged)  BY <1>8, <1>10
  <2>. QED BY <1>10, <2>1, <2>9, <2>10, <2>11, <2>12 DEF Matches
<1>. QED BY <1>11, <1>12 DEF MatchInv

(* What a catch drains last was not captured yet; without faults it is what*)
(* was caught.                                                             *)
LEMMA CatchCaptures ==
    ASSUME Types, OnceInv, faults = {} => MatchInv, HandleExceptionCatchStart
    PROVE  \/ captured' = captured
           \/ \E e \in Exception : /\ faults = {} => e \in bridged
                                   /\ captured[e] = 0
                                   /\ captured' = [captured EXCEPT ![e] = 1]
<1>0. events # <<>>  BY DEF HandleExceptionCatchStart, Handles
<1>1. PICK t \in Thread : t = events[1].thread  BY <1>0, HeadEvent
<1>2. PICK n \in Nat : n = DrainCount(t) /\ n >= 1  BY <1>1, HandleCatchEffect
<1>3. PICK q \in Seq(Exception) : q = Queue(t)  BY QueueType
<1>4. /\ Len(q) >= n => captured' = [e \in Exception |->
                                       IF events[1].bridge /\ e = q[n]
                                       THEN captured[e] + 1 ELSE captured[e]]
      /\ Len(q) < n => captured' = captured
  BY <1>1, <1>2, <1>3, HandleCatchEffect
<1>5. captured \in [Exception -> Nat]  BY DEF Types
<1>6. CASE Len(q) < n  BY <1>4, <1>6
<1>7. CASE Len(q) >= n /\ ~events[1].bridge
  <2>1. captured' = [e \in Exception |-> captured[e]]  BY <1>4, <1>7
  <2>. QED BY <1>5, <2>1
<1>8. CASE Len(q) >= n /\ events[1].bridge
  <2>1. n \in 1..Len(q)  BY <1>2, <1>8
  <2>2. PICK drained \in Exception : drained = q[n]  BY <2>1
  <2>3. Waiting(drained, t)  BY <1>3, <2>1, <2>2 DEF Waiting, InQueue
  <2>4. captured[drained] = 0  BY <2>3 DEF OnceInv
  <2>5. captured' = [e \in Exception |-> IF e = drained THEN captured[e] + 1 ELSE captured[e]]
    BY <1>4, <1>8, <2>2
  <2>6. captured' = [e \in Exception |-> IF e = drained THEN 1 ELSE captured[e]]
    BY <2>4, <2>5
  <2>7. captured' = [captured EXCEPT ![drained] = 1]  BY <1>5, <2>6
  <2>8. ASSUME faults = {}  PROVE  drained \in bridged
    <3>1. PICK c \in Nat : c = throwCounts[t]  BY DEF Types
    <3>2. CatchesLead(events, c, q, t, bridged)
      BY <1>3, <2>8, <3>1 DEF MatchInv, Matches
    <3>3. events \in Seq(Event) /\ CatchAt(events, t, 1)
      BY <1>1, HandleCatchEffect DEF CatchAt, Types
    <3>4. c >= 1 /\ q[c] \in bridged  BY <1>0, <1>8, <3>2, <3>3, CatchesTail
    <3>5. n = c  BY <1>2, <3>1, <3>4 DEF DrainCount
    <3>. QED BY <2>2, <3>4, <3>5
  <2>. QED BY <2>4, <2>7, <2>8
<1>. QED BY <1>2, <1>6, <1>7, <1>8

(* When a thread is removed all its events were handled: it has no queue   *)
(* and no count that would be lost.                                        *)
LEMMA RemovedAreEmpty ==
    ASSUME Types, DeadInv, StepInv, TimeInv, MatchInv, Prompt,
           lastCleanup + CleanupInterval <= now, NEW t \in deadPending
    PROVE  Queue(t) = <<>> /\ throwCounts[t] = 0
<1>1. t \in Thread /\ throwCounts[t] \in Nat  BY DEF Types
<1>2. \A i \in 1..Len(events) : events[i].thread # t
  <2>. SUFFICES ASSUME NEW i \in 1..Len(events), events[i].thread = t  PROVE  FALSE
    OBVIOUS
  <2>1. events[i].at \in Nat
    <3>1. events[i] \in Event  BY DEF Types
    <3>. QED BY <3>1 DEF Event
  <2>2. events[i].at <= lastCleanup /\ now <= events[i].at + MaxLag  BY DEF TimeInv
  <2>3. lastCleanup \in Nat /\ now \in Nat  BY DEF Types
  <2>. QED BY <2>1, <2>2, <2>3, ConstantTypes DEF Prompt
<1>3. events \in Seq(Event) /\ Len(events) \in Nat  BY DEF Types
<1>4. ~raising[t] /\ inFlight[t] = <<>>  BY <1>1 DEF DeadInv
<1>5. ThrownAhead(t) = 0
  <2>1. ThrownAhead(t) = ThrownBefore(events, t, Len(events) + 1)
    BY <1>3, AheadIs DEF ThrownAhead
  <2>2. (Len(events) + 1) - 1 = Len(events)  BY <1>3
  <2>3. {i \in 1..Len(events) : ThrownAt(events, t, i)} = {}  BY <1>2 DEF ThrownAt
  <2>. QED BY <2>1, <2>2, <2>3, FS_EmptySet DEF ThrownBefore
<1>6. throwCounts[t] = 0
  <2>1. ~OpenIn(events, throwCounts[t], t, Len(events) + 1)  BY <1>1, <1>4 DEF StepInv, InStep
  <2>2. (Len(events) + 1) - 1 = Len(events)  BY <1>3
  <2>3. \A j \in 1..Len(events) : ~CatchAt(events, t, j)  BY <1>2 DEF CatchAt
  <2>4. ~(throwCounts[t] > 0)  BY <2>1, <2>2, <2>3 DEF OpenIn
  <2>. QED BY <1>1, <2>4
<1>7. Len(Queue(t)) + 0 = 0 + 0  BY <1>1, <1>4, <1>5, <1>6 DEF MatchInv, Matches
<1>8. Queue(t) \in Seq(Exception) /\ Len(Queue(t)) \in Nat  BY QueueType
<1>9. Len(Queue(t)) = 0  BY <1>7, <1>8
<1>. QED BY <1>6, <1>8, <1>9

LEMMA MatchCleanup ==
    ASSUME Types, DeadInv, StepInv, TimeInv, MatchInv, Prompt, CleanupDeadThreads
    PROVE  MatchInv'
<1>1. UNCHANGED <<raising, events, inFlight, bridged>>  BY CleanupEffect DEF promise
<1>2. \A t \in Thread : Queue(t)' = Queue(t) /\ throwCounts'[t] = throwCounts[t]
  <2>1. CASE UNCHANGED throwCounts /\ \A t \in Thread : Queue(t)' = Queue(t)
    BY <2>1
  <2>2. CASE /\ lastCleanup + CleanupInterval <= now
             /\ \A t \in Thread : Queue(t)' = IF t \in deadPending THEN <<>> ELSE Queue(t)
             /\ throwCounts' =
                  [t \in Thread |-> IF t \in deadPending THEN 0 ELSE throwCounts[t]]
    <3>1. \A t \in deadPending : Queue(t) = <<>> /\ throwCounts[t] = 0
      BY <2>2, RemovedAreEmpty
    <3>. QED BY <2>2, <3>1
  <2>. QED BY <2>1, <2>2, CleanupEffect
<1>. QED BY <1>1, <1>2, MatchRests DEF MatchInv

LEMMA NextMatch ==
    ASSUME Types, OnceInv, DeadInv, StepInv, TimeInv, MatchInv, Prompt, faults = {}, [Next]_vars
    PROVE  MatchInv'
<1>1. listening  BY DEF DeadInv
<1>2. ASSUME UNCHANGED <<pending, events, raising, inFlight, bridged, throwCounts>>
      PROVE  MatchInv'
  <2>1. \A t \in Thread : Queue(t)' = Queue(t)  BY <1>2 DEF Queue
  <2>. QED BY <1>2, <2>1, MatchRests DEF MatchInv
<1>3. CASE OnEventSourceCreated \/ Tick \/ UNCHANGED vars
  BY <1>2, <1>3 DEF OnEventSourceCreated, Tick, vars, promise
<1>4. ASSUME NEW t \in Thread, Throw(t)  PROVE  MatchInv'  BY <1>1, <1>4, MatchThrow
<1>5. ASSUME NEW t \in Thread, OnFirstChanceException(t)  PROVE  MatchInv'
  BY <1>5, MatchFirstChance
<1>6. ASSUME NEW t \in Thread, NEW bridge \in BOOLEAN, NEW left \in 0..MaxThrown,
             Catch(t, bridge, left)
      PROVE  MatchInv'
  BY <1>1, <1>6, MatchCatch
<1>7. ASSUME NEW t \in Thread, Exit(t) \/ Start(t) \/ Finalize(t)  PROVE  MatchInv'
  BY <1>2, <1>7 DEF Exit, Start, Finalize, promise
<1>. QED BY <1>3, <1>4, <1>5, <1>6, <1>7, MatchHandleThrown, MatchHandleCatch, MatchCleanup
         DEF Next, Listen

-----------------------------------------------------------------------------
(***************************************************************************)
(* The debugger's handler as a whole.                                      *)
(***************************************************************************)
LEMMA FaultsStay == ASSUME [Next]_vars  PROVE  faults' = faults
BY DEF Next, vars, promise, OnEventSourceCreated, Throw, Abstract!Throw, OnFirstChanceException,
       Catch, Abstract!Catch, Exit, Start, Finalize, Tick, Listen, HandleExceptionThrown,
       HandleExceptionCatchStart, CleanupDeadThreads

LEMMA InitDebugger == Init => DebuggerInv
<1>. SUFFICES ASSUME Init  PROVE  DebuggerInv  OBVIOUS
<1>1. TypeOK /\ OnceInv  BY InitTypes, TypesAreTypeOK, InitOnce
<1>2. InnerOnly => DeadInv  BY InitDead
<1>. QED BY <1>1, <1>2, InitStep, InitTime, InitMatch DEF DebuggerInv

LEMMA NoFaultIsInner == faults = {} => InnerOnly
BY DEF InnerOnly

LEMMA NextDebugger == ASSUME DebuggerInv, [Next]_vars  PROVE  DebuggerInv'
<1>1. Types /\ OnceInv  BY TypesAreTypeOK DEF DebuggerInv
<1>2. TypeOK'
  <2>1. Types'  BY <1>1, NextTypes
  <2>2. Types' => TypeOK'  BY TypesAreTypeOK, PTL
  <2>. QED BY <2>1, <2>2
<1>3. OnceInv'  BY <1>1, NextOnce
<1>4. faults' = faults  BY FaultsStay
<1>5. InnerOnly' <=> InnerOnly  BY <1>4 DEF InnerOnly
<1>6. InnerOnly => DeadInv /\ StepInv  BY DEF DebuggerInv
<1>7. InnerOnly => DeadInv' /\ StepInv'  BY <1>1, <1>6, NextDead, NextStep
<1>8. ASSUME faults = {}, Prompt  PROVE  TimeInv' /\ MatchInv'
  <2>1. DeadInv /\ StepInv /\ TimeInv /\ MatchInv
    BY <1>6, <1>8, NoFaultIsInner DEF DebuggerInv
  <2>. QED BY <1>1, <1>8, <2>1, NextTime, NextMatch
<1>. QED BY <1>2, <1>3, <1>4, <1>5, <1>7, <1>8 DEF DebuggerInv, Prompt

(* Each step is one of ExceptionCapture, or none of its.                   *)
LEMMA DebuggerCaptures ==
    ASSUME DebuggerInv, Prompt, [Next]_vars
    PROVE  [Abstract!Next]_promise
<1>1. Types /\ OnceInv /\ (faults = {} => MatchInv)  BY TypesAreTypeOK DEF DebuggerInv
<1>2. ASSUME NEW t \in Thread, Throw(t)  PROVE  Abstract!Next
  BY <1>2 DEF Throw, Abstract!Next
<1>3. ASSUME NEW t \in Thread, NEW bridge \in BOOLEAN, NEW left \in 0..MaxThrown,
             Catch(t, bridge, left)
      PROVE  Abstract!Next
  BY <1>3 DEF Catch, Abstract!Next
<1>4. CASE HandleExceptionCatchStart
  <2>1. UNCHANGED <<faults, thrown, inFlight, bridged>>  BY <1>4 DEF HandleExceptionCatchStart
  <2>2. CASE captured' = captured  BY <2>1, <2>2 DEF promise
  <2>3. ASSUME NEW e \in Exception, faults = {} => e \in bridged, captured[e] = 0,
               captured' = [captured EXCEPT ![e] = 1]
        PROVE  Abstract!Next
    <3>1. Abstract!Capture(e)  BY <2>1, <2>3 DEF Abstract!Capture
    <3>2. e \in Abstract!Exception  BY DEF Abstract!Exception, Exception
    <3>. QED BY <3>1, <3>2 DEF Abstract!Next
  <2>. QED BY <1>1, <1>4, <2>2, <2>3, CatchCaptures
<1>5. CASE UNCHANGED promise  BY <1>5
<1>6. OnEventSourceCreated \/ Tick \/ HandleExceptionThrown \/ CleanupDeadThreads
      \/ UNCHANGED vars => UNCHANGED promise
  BY DEF OnEventSourceCreated, Tick, HandleExceptionThrown, CleanupDeadThreads, vars
<1>7. ASSUME NEW t \in Thread,
             OnFirstChanceException(t) \/ Exit(t) \/ Start(t) \/ Finalize(t)
      PROVE  UNCHANGED promise
  BY <1>7 DEF OnFirstChanceException, Exit, Start, Finalize
<1>. QED BY <1>2, <1>3, <1>4, <1>5, <1>6, <1>7 DEF Next, Listen

(* A thread that is quiet has an empty queue.                              *)
LEMMA QuietIsEmpty == ASSUME DebuggerInv  PROVE  BackInStep
<1>. SUFFICES ASSUME InnerOnly, NEW t \in DOMAIN pending, Quiet(t)  PROVE  pending[t] = <<>>
  BY DEF BackInStep, InnerOnly
<1>1. Types /\ StepInv  BY TypesAreTypeOK DEF DebuggerInv
<1>2. t \in Thread /\ throwCounts[t] \in Nat /\ pending[t] \in Seq(Exception)
      /\ events \in Seq(Event) /\ Len(events) \in Nat
  BY <1>1 DEF Types
<1>3. DOMAIN events = 1..Len(events) /\ (Len(events) + 1) - 1 = Len(events)  BY <1>2
<1>4. \A j \in 1..Len(events) : ~ThrownAt(events, t, j) /\ ~CatchAt(events, t, j)
  BY <1>3 DEF Quiet, ThrownAt, CatchAt
<1>5. ~OpenIn(events, throwCounts[t], t, Len(events) + 1)
  BY <1>1, <1>2 DEF StepInv, InStep, Quiet
<1>6. throwCounts[t] = 0
  <2>1. ~(throwCounts[t] > 0)  BY <1>3, <1>4, <1>5 DEF OpenIn
  <2>. QED BY <1>2, <2>1
<1>7. ThrownAhead(t) = 0
  <2>1. ThrownAhead(t) = ThrownBefore(events, t, Len(events) + 1)
    BY <1>2, AheadIs DEF ThrownAhead
  <2>2. {i \in 1..Len(events) : ThrownAt(events, t, i)} = {}  BY <1>4
  <2>. QED BY <1>3, <2>1, <2>2, FS_EmptySet DEF ThrownBefore
<1>8. Queue(t) = pending[t]  BY DEF Queue
<1>9. Len(pending[t]) + (IF raising[t] THEN 1 ELSE 0) <= 0 + 0
  BY <1>1, <1>2, <1>6, <1>7, <1>8 DEF StepInv, InStep
<1>10. Len(pending[t]) = 0  BY <1>2, <1>9
<1>. QED BY <1>2, <1>10

(* No cleanup loses anything, and the counts agree afterwards.             *)
LEMMA CleanupLosesNothing ==
    ASSUME DebuggerInv, Prompt, [Next]_vars, faults = {}
    PROVE  /\ \A t \in DOMAIN pending \ DOMAIN pending' : pending[t] = <<>>
           /\ QueueMatchesEvents'
<1>1. Types /\ OnceInv /\ DeadInv /\ StepInv /\ TimeInv /\ MatchInv
  BY TypesAreTypeOK, NoFaultIsInner DEF DebuggerInv
<1>2. QueueMatchesEvents'
  <2>1. Types' /\ MatchInv'  BY <1>1, NextTypes, NextMatch
  <2>2. \A t \in Thread : QueueLength(t)' = Len(Queue(t)')
    BY DEF QueueLength, Queue
  <2>. QED BY <2>1, <2>2 DEF QueueMatchesEvents, MatchInv, Matches
<1>3. ASSUME NEW t \in DOMAIN pending \ DOMAIN pending'  PROVE  pending[t] = <<>>
  <2>1. CASE CleanupDeadThreads
    <3>1. /\ lastCleanup + CleanupInterval <= now
          /\ DOMAIN pending' = DOMAIN pending \ deadPending
      BY <1>1, <1>3, <2>1, CleanupEffect
    <3>2. t \in deadPending  BY <1>3, <3>1
    <3>3. Queue(t) = <<>>  BY <1>1, <3>1, <3>2, RemovedAreEmpty
    <3>. QED BY <1>3, <3>3 DEF Queue
  <2>2. CASE HandleExceptionCatchStart
    <3>1. DOMAIN pending' = DOMAIN pending
      BY <2>2 DEF HandleExceptionCatchStart, Drained
    <3>. QED BY <1>3, <3>1
  <2>3. ASSUME NEW s \in Thread, OnFirstChanceException(s)  PROVE  FALSE
    <3>1. DOMAIN pending' = DOMAIN pending \cup {s}  BY <2>3 DEF OnFirstChanceException
    <3>. QED BY <1>3, <3>1
  <2>4. CASE UNCHANGED pending  BY <1>3, <2>4
  <2>5. ASSUME ~CleanupDeadThreads, ~HandleExceptionCatchStart,
               \A s \in Thread : ~OnFirstChanceException(s)
        PROVE  UNCHANGED pending
    BY <2>5 DEF Next, Listen, vars, OnEventSourceCreated, Tick, Throw, Catch, Exit, Start,
               Finalize, HandleExceptionThrown
  <2>. QED BY <2>1, <2>2, <2>3, <2>4, <2>5
<1>. QED BY <1>2, <1>3

-----------------------------------------------------------------------------
(***************************************************************************)
(* LoggerExceptions.                                                       *)
(***************************************************************************)
LoggerTypes ==
    /\ faults \subseteq Abstract!Fault
    /\ thrown \in Nat /\ thrown <= MaxThrown
    /\ inFlight \in [Thread -> Seq(Exception)]
    /\ bridged \subseteq Exception /\ captured \in [Exception -> Nat]
    /\ typeOf \in [Exception -> Type]
    /\ lastException \in [Thread -> Exception \cup {0}]
    /\ logged \in [Thread -> Exception \cup {0}]
    /\ isProcessing \in [Thread -> BOOLEAN]

LEMMA LoggerTypesAreTypeOK == Logger!TypeOK <=> LoggerTypes
<1>1. Logger!Abstract!Exception = Exception /\ Logger!Exception = Exception /\ Logger!None = 0
  BY DEF Logger!Abstract!Exception, Logger!Exception, Logger!None, Exception
<1>2. thrown \in 0..MaxThrown <=> thrown \in Nat /\ thrown <= MaxThrown
  BY ConstantTypes
<1>3. Logger!Abstract!Fault = Abstract!Fault  BY DEF Logger!Abstract!Fault, Abstract!Fault
<1>. QED BY <1>1, <1>2, <1>3 DEF Logger!TypeOK, Logger!Abstract!TypeOK, LoggerTypes

LEMMA LoggerThrowEffect ==
    ASSUME NEW t \in Thread, Logger!Throw(t)
    PROVE  /\ logged[t] = 0 /\ thrown < MaxThrown /\ thrown' = thrown + 1
           /\ inFlight' = [inFlight EXCEPT ![t] = Append(@, thrown + 1)]
           /\ lastException' =
                [lastException EXCEPT ![t] = IF isProcessing[t] THEN @ ELSE thrown + 1]
           /\ UNCHANGED <<faults, bridged, captured, typeOf, isProcessing, logged>>
BY DEF Logger!Throw, Logger!Abstract!Throw, Logger!None

LEMMA LoggerCatchEffect ==
    ASSUME LoggerTypes, NEW t \in Thread, NEW bridge \in BOOLEAN, NEW left \in 0..MaxThrown,
           Logger!Catch(t, bridge, left)
    PROVE  /\ logged[t] = 0 /\ inFlight[t] # <<>>
           /\ bridge => ~isProcessing[t]
           /\ Last(inFlight[t]) \in Exception /\ InFlight(Last(inFlight[t]), t)
           /\ bridged' = IF bridge THEN bridged \cup {Last(inFlight[t])} ELSE bridged
           /\ logged' = [logged EXCEPT ![t] = IF bridge THEN Last(inFlight[t]) ELSE 0]
           /\ \A s \in Thread : s # t => inFlight'[s] = inFlight[s]
           /\ inFlight' \in [Thread -> Seq(Exception)]
           /\ \A e : InFlight(e, t)' => InFlight(e, t)
           /\ faults = {} \/ bridge => inFlight'[t] = <<>>
           /\ UNCHANGED <<faults, thrown, captured, typeOf, lastException, isProcessing>>
<1>1. /\ logged[t] = 0 /\ inFlight[t] # <<>> /\ left < Len(inFlight[t])
      /\ isProcessing[t] => ~bridge
      /\ bridged' = IF bridge THEN bridged \cup {inFlight[t][Len(inFlight[t])]} ELSE bridged
      /\ inFlight' = [inFlight EXCEPT ![t] = SubSeq(@, 1, left)]
      /\ logged' = [logged EXCEPT ![t] = IF bridge THEN Last(inFlight[t]) ELSE 0]
      /\ UNCHANGED <<faults, thrown, captured, typeOf, lastException, isProcessing>>
  BY DEF Logger!Catch, Logger!Abstract!Catch, Logger!None, Logger!Last, Last
<1>2. inFlight[t] \in Seq(Exception) /\ left \in Nat /\ Len(inFlight[t]) \in Nat
  BY DEF LoggerTypes
<1>3. Len(inFlight[t]) \in 1..Len(inFlight[t])  BY <1>1, <1>2
<1>4. /\ Last(inFlight[t]) = inFlight[t][Len(inFlight[t])]
      /\ Last(inFlight[t]) \in Exception /\ InFlight(Last(inFlight[t]), t)
  BY <1>2, <1>3 DEF Last, InFlight
<1>5. inFlight'[t] = SubSeq(inFlight[t], 1, left)
      /\ \A s \in Thread : s # t => inFlight'[s] = inFlight[s]
  BY <1>1 DEF LoggerTypes
<1>6. /\ SubSeq(inFlight[t], 1, left) \in Seq(Exception)
      /\ Len(SubSeq(inFlight[t], 1, left)) = left
      /\ \A i \in 1..left : SubSeq(inFlight[t], 1, left)[i] = inFlight[t][i]
  <2>1. \A i \in 1..left : inFlight[t][i] \in Exception  BY <1>1, <1>2
  <2>. QED BY <1>2, <2>1, SubSeqProperties
<1>7. \A e : InFlight(e, t)' => InFlight(e, t)
  <2>1. \A i \in 1..left : i \in 1..Len(inFlight[t])  BY <1>1, <1>2
  <2>. QED BY <1>5, <1>6, <2>1 DEF InFlight
<1>8. inFlight' \in [Thread -> Seq(Exception)]  BY <1>1, <1>6 DEF LoggerTypes
<1>9. ASSUME faults = {} \/ bridge  PROVE  inFlight'[t] = <<>>
  <2>1. left > 0 => "inner catch" \in faults /\ ~bridge
    BY DEF Logger!Catch, Logger!Abstract!Catch
  <2>2. ~(left > 0)  BY <1>9, <2>1
  <2>3. left = 0  BY <1>2, <2>2
  <2>. QED BY <1>2, <1>5, <2>3
<1>. QED BY <1>1, <1>4, <1>5, <1>7, <1>8, <1>9

LEMMA OnLogErrorEffect ==
    ASSUME NEW t \in Thread, Logger!OnLogError(t)
    PROVE  /\ logged[t] # 0 /\ logged' = [logged EXCEPT ![t] = 0]
           /\ \/ /\ lastException[t] # 0 /\ ~isProcessing[t]
                 /\ Logger!IsPrefix(typeOf[lastException[t]], typeOf[logged[t]])
                 /\ captured' = [captured EXCEPT ![lastException[t]] = @ + 1]
                 /\ lastException' = [lastException EXCEPT ![t] = 0]
                 /\ isProcessing' = [isProcessing EXCEPT ![t] = TRUE]
              \/ UNCHANGED <<captured, lastException, isProcessing>>
           /\ UNCHANGED <<faults, thrown, inFlight, bridged, typeOf>>
<1>1. /\ logged[t] # 0 /\ logged' = [logged EXCEPT ![t] = 0]
      /\ UNCHANGED <<faults, thrown, inFlight, bridged, typeOf>>
  BY DEF Logger!OnLogError, Logger!None
<1>2. CASE Logger!Triggered(t)
  BY <1>1, <1>2 DEF Logger!OnLogError, Logger!Triggered, Logger!None
<1>3. CASE ~Logger!Triggered(t)
  BY <1>1, <1>3 DEF Logger!OnLogError
<1>. QED BY <1>2, <1>3

LEMMA LoggerNextTypes == ASSUME LoggerTypes, [Logger!Next]_(Logger!vars)  PROVE  LoggerTypes'
<1>1. ASSUME NEW t \in Thread, Logger!Throw(t)  PROVE  LoggerTypes'
  <2>1. /\ thrown < MaxThrown /\ thrown' = thrown + 1
        /\ inFlight' = [inFlight EXCEPT ![t] = Append(@, thrown + 1)]
        /\ lastException' =
             [lastException EXCEPT ![t] = IF isProcessing[t] THEN @ ELSE thrown + 1]
        /\ UNCHANGED <<faults, bridged, captured, typeOf, isProcessing, logged>>
    BY <1>1, LoggerThrowEffect
  <2>2. thrown + 1 \in Exception /\ thrown + 1 <= MaxThrown /\ thrown + 1 \in Nat
    BY <2>1, ConstantTypes DEF LoggerTypes, Exception
  <2>3. inFlight' \in [Thread -> Seq(Exception)]  BY <2>1, <2>2 DEF LoggerTypes
  <2>4. lastException' \in [Thread -> Exception \cup {0}]  BY <2>1, <2>2 DEF LoggerTypes
  <2>. QED BY <2>1, <2>2, <2>3, <2>4 DEF LoggerTypes
<1>2. ASSUME NEW t \in Thread, NEW bridge \in BOOLEAN, NEW left \in 0..MaxThrown,
             Logger!Catch(t, bridge, left)
      PROVE  LoggerTypes'
  <2>1. /\ Last(inFlight[t]) \in Exception /\ inFlight' \in [Thread -> Seq(Exception)]
        /\ bridged' = IF bridge THEN bridged \cup {Last(inFlight[t])} ELSE bridged
        /\ logged' = [logged EXCEPT ![t] = IF bridge THEN Last(inFlight[t]) ELSE 0]
        /\ UNCHANGED <<faults, thrown, captured, typeOf, lastException, isProcessing>>
    BY <1>2, LoggerCatchEffect
  <2>2. bridged' \subseteq Exception  BY <2>1 DEF LoggerTypes
  <2>3. logged' \in [Thread -> Exception \cup {0}]  BY <2>1 DEF LoggerTypes
  <2>. QED BY <2>1, <2>2, <2>3 DEF LoggerTypes
<1>3. ASSUME NEW t \in Thread, Logger!OnLogError(t)  PROVE  LoggerTypes'
  <2>1. logged' \in [Thread -> Exception \cup {0}]
    BY <1>3, OnLogErrorEffect DEF LoggerTypes
  <2>2. CASE UNCHANGED <<captured, lastException, isProcessing>>
    BY <1>3, <2>1, <2>2, OnLogErrorEffect DEF LoggerTypes
  <2>3. CASE /\ lastException[t] # 0
             /\ captured' = [captured EXCEPT ![lastException[t]] = @ + 1]
             /\ lastException' = [lastException EXCEPT ![t] = 0]
             /\ isProcessing' = [isProcessing EXCEPT ![t] = TRUE]
    <3>1. captured' \in [Exception -> Nat]
      <4>1. PICK e \in Exception : e = lastException[t]  BY <2>3 DEF LoggerTypes
      <4>2. captured' = [captured EXCEPT ![e] = @ + 1]  BY <2>3, <4>1
      <4>. QED BY <4>2 DEF LoggerTypes
    <3>2. lastException' \in [Thread -> Exception \cup {0}]  BY <2>3 DEF LoggerTypes
    <3>3. isProcessing' \in [Thread -> BOOLEAN]  BY <2>3 DEF LoggerTypes
    <3>. QED BY <1>3, <2>1, <3>1, <3>2, <3>3, OnLogErrorEffect DEF LoggerTypes
  <2>. QED BY <1>3, <2>2, <2>3, OnLogErrorEffect
<1>4. ASSUME NEW t \in Thread, Logger!Captured(t)  PROVE  LoggerTypes'
  BY <1>4 DEF Logger!Captured, Logger!promise, LoggerTypes
<1>5. CASE UNCHANGED Logger!vars
  BY <1>5 DEF Logger!vars, Logger!promise, LoggerTypes
<1>. QED BY <1>1, <1>2, <1>3, <1>4, <1>5 DEF Logger!Next

LEMMA InitLogger == Logger!Init => LoggerInv
<1>. SUFFICES ASSUME Logger!Init  PROVE  LoggerInv  OBVIOUS
<1>1. /\ faults \subseteq Abstract!Fault /\ thrown = 0 /\ bridged = {}
      /\ inFlight = [t \in Thread |-> <<>>] /\ captured = [e \in Exception |-> 0]
  BY DEF Logger!Init, Logger!Abstract!Init, Logger!Abstract!Fault, Abstract!Fault,
         Logger!Abstract!Exception, Exception
<1>2. /\ typeOf \in [Exception -> Type] /\ lastException = [t \in Thread |-> 0]
      /\ logged = [t \in Thread |-> 0] /\ isProcessing = [t \in Thread |-> FALSE]
  BY DEF Logger!Init, Logger!Exception, Exception, Logger!None
<1>3. LoggerTypes  BY <1>1, <1>2, ConstantTypes DEF LoggerTypes
<1>4. \A e, t : t \in Thread => ~InFlight(e, t)
  <2>1. \A t \in Thread : 1..Len(inFlight[t]) = {}  BY <1>1
  <2>. QED BY <2>1 DEF InFlight
<1>5. \A e \in Exception : e # 0  BY ConstantTypes DEF Exception
<1>6. \A e \in Exception : \A t \in Thread : ~Of(e, t)  BY <1>2, <1>4, <1>5 DEF Of
<1>7. OfInv  BY <1>1, <1>6 DEF OfInv
<1>8. \A t \in Thread : LastInv(t)  BY <1>1, <1>2, <1>4 DEF LastInv
<1>9. StaleInv  BY <1>1 DEF StaleInv
<1>. QED BY <1>3, <1>7, <1>8, <1>9, LoggerTypesAreTypeOK DEF LoggerInv

(* An exception is of nobody else when its thread lets go of it.           *)
LEMMA OfRests ==
    ASSUME OfInv, thrown' = thrown, captured' = captured,
           \A e \in Exception : \A t \in Thread : Of(e, t)' => Of(e, t)
    PROVE  OfInv'
BY DEF OfInv

LEMMA StaleRests ==
    ASSUME StaleInv, UNCHANGED <<captured, typeOf>>, bridged \subseteq bridged',
           \A e \in Exception : \A t \in Thread :
             captured[e] = 0 /\ e \in bridged /\ lastException[t] # e => lastException'[t] # e,
           bridged \subseteq Exception
    PROVE  StaleInv'
<1>1. SUFFICES ASSUME NEW e \in Exception, captured[e] > 0, e \notin bridged'
               PROVE  \E b \in bridged' : TakenFor(e, b)'
  BY DEF StaleInv
<1>2. PICK b \in bridged : TakenFor(e, b)  BY <1>1 DEF StaleInv
<1>3. TakenFor(e, b)'  BY <1>2 DEF TakenFor
<1>. QED BY <1>2, <1>3

LEMMA LoggerThrow ==
    ASSUME LoggerTypes, OfInv, \A s \in Thread : LastInv(s), StaleInv,
           NEW t \in Thread, Logger!Throw(t)
    PROVE  OfInv' /\ (\A s \in Thread : LastInv(s)') /\ StaleInv'
<1>1. /\ logged[t] = 0 /\ thrown < MaxThrown /\ thrown' = thrown + 1
      /\ inFlight' = [inFlight EXCEPT ![t] = Append(@, thrown + 1)]
      /\ lastException' =
           [lastException EXCEPT ![t] = IF isProcessing[t] THEN @ ELSE thrown + 1]
      /\ UNCHANGED <<faults, bridged, captured, typeOf, isProcessing, logged>>
  BY LoggerThrowEffect
<1>2. PICK new \in Exception : new = thrown + 1
  BY <1>1, ConstantTypes DEF LoggerTypes, Exception
<1>3. \A e \in Exception : e \in Nat /\ e # 0 /\ captured[e] \in Nat /\ thrown \in Nat
  BY ConstantTypes DEF LoggerTypes, Exception
<1>4. /\ inFlight[t] \in Seq(Exception) /\ inFlight'[t] = Append(inFlight[t], new)
      /\ lastException'[t] = IF isProcessing[t] THEN lastException[t] ELSE new
      /\ \A s \in Thread : s # t =>
           inFlight'[s] = inFlight[s] /\ lastException'[s] = lastException[s]
  BY <1>1, <1>2 DEF LoggerTypes
<1>5. /\ Len(inFlight[t]) \in Nat /\ Len(inFlight'[t]) = Len(inFlight[t]) + 1
      /\ inFlight'[t][Len(inFlight[t]) + 1] = new
      /\ \A i \in 1..Len(inFlight[t]) : inFlight'[t][i] = inFlight[t][i]
  BY <1>4, AppendShape
<1>6. Last(inFlight'[t]) = new  BY <1>5 DEF Last
<1>7. \A e : InFlight(e, t)' => InFlight(e, t) \/ e = new
  <2>1. \A i \in 1..Len(inFlight'[t]) : i \in 1..Len(inFlight[t]) \/ i = Len(inFlight[t]) + 1
    BY <1>5
  <2>. QED BY <1>5, <2>1 DEF InFlight
<1>8. \A s \in Thread : s # t => \A e : InFlight(e, s)' <=> InFlight(e, s)
  BY <1>4 DEF InFlight
<1>9. \A s \in Thread : \A e : Of(e, s)' => Of(e, s) \/ (s = t /\ e = new)
  <2>1. \A e : Of(e, t)' => Of(e, t) \/ e = new  BY <1>1, <1>4, <1>7 DEF Of
  <2>2. ASSUME NEW s \in Thread, s # t  PROVE  \A e : Of(e, s)' => Of(e, s)
    BY <1>1, <1>4, <1>8, <2>2 DEF Of
  <2>. QED BY <2>1, <2>2
<1>10. \A s \in Thread : ~Of(new, s) /\ captured[new] = 0
  BY <1>2, <1>3 DEF OfInv
<1>11. OfInv'
  <2>1. ASSUME NEW e \in Exception
        PROVE  /\ \A s \in Thread : Of(e, s)' => e <= thrown' /\ captured'[e] = 0
               /\ captured'[e] <= 1 /\ (captured'[e] > 0 => e <= thrown')
    <3>1. e <= thrown => e <= thrown'  BY <1>1, <1>3
    <3>2. new <= thrown'  BY <1>1, <1>2, <1>3
    <3>. QED BY <1>1, <1>9, <1>10, <3>1, <3>2 DEF OfInv
  <2>2. \A e \in Exception : \A r, s \in Thread : Of(e, r)' /\ Of(e, s)' => r = s
    BY <1>9, <1>10 DEF OfInv
  <2>. QED BY <2>1, <2>2 DEF OfInv
<1>12. ASSUME NEW s \in Thread  PROVE  LastInv(s)'
  <2>1. CASE s # t
    <3>1. LastInv(s) /\ \A e : InFlight(e, s)' <=> InFlight(e, s)  BY <1>8, <2>1
    <3>2. /\ inFlight'[s] = inFlight[s] /\ lastException'[s] = lastException[s]
          /\ UNCHANGED <<faults, bridged, isProcessing, logged>>
      BY <1>1, <1>4, <2>1
    <3>. QED BY <3>1, <3>2 DEF LastInv
  <2>2. CASE s = t
    <3>1. \A e \in Exception : InFlight(e, t)' => e <= new
      <4>1. \A e \in Exception : InFlight(e, t) => e <= thrown  BY DEF OfInv, Of
      <4>. QED BY <1>2, <1>3, <1>7, <4>1
    <3>2. isProcessing'[t] = isProcessing[t] /\ logged'[t] = 0  BY <1>1
    <3>3. isProcessing[t] => lastException[t] = 0  BY DEF LastInv
    <3>. QED BY <1>4, <1>6, <2>2, <3>1, <3>2, <3>3 DEF LastInv
  <2>. QED BY <2>1, <2>2
<1>13. StaleInv'
  <2>1. ASSUME NEW e \in Exception, captured[e] > 0, e \notin bridged
        PROVE  \E b \in bridged : TakenFor(e, b)'
    <3>1. PICK b \in bridged : TakenFor(e, b)  BY <2>1 DEF StaleInv
    <3>2. b \in Exception /\ b < e /\ e <= thrown  BY <2>1, <3>1 DEF TakenFor, OfInv, LoggerTypes
    <3>3. b # new  BY <1>2, <1>3, <3>2
    <3>4. \A s \in Thread : lastException'[s] # b  BY <1>4, <3>1, <3>3 DEF TakenFor
    <3>. QED BY <1>1, <3>1, <3>4 DEF TakenFor
  <2>. QED BY <1>1, <2>1 DEF StaleInv
<1>. QED BY <1>11, <1>12, <1>13

LEMMA LoggerCatch ==
    ASSUME LoggerTypes, OfInv, \A s \in Thread : LastInv(s), StaleInv,
           NEW t \in Thread, NEW bridge \in BOOLEAN, NEW left \in 0..MaxThrown,
           Logger!Catch(t, bridge, left)
    PROVE  OfInv' /\ (\A s \in Thread : LastInv(s)') /\ StaleInv'
<1>1. PICK last \in Exception : last = Last(inFlight[t])  BY LoggerCatchEffect
<1>2. /\ logged[t] = 0 /\ inFlight[t] # <<>> /\ InFlight(last, t)
      /\ bridge => ~isProcessing[t]
      /\ bridged' = IF bridge THEN bridged \cup {last} ELSE bridged
      /\ logged' = [logged EXCEPT ![t] = IF bridge THEN last ELSE 0]
      /\ \A s \in Thread : s # t => inFlight'[s] = inFlight[s]
      /\ \A e : InFlight(e, t)' => InFlight(e, t)
      /\ faults = {} \/ bridge => inFlight'[t] = <<>>
      /\ UNCHANGED <<faults, thrown, captured, typeOf, lastException, isProcessing>>
  BY <1>1, LoggerCatchEffect
<1>3. /\ logged'[t] = IF bridge THEN last ELSE 0
      /\ \A s \in Thread : s # t => logged'[s] = logged[s]
  BY <1>2 DEF LoggerTypes
<1>4. \A e \in Exception : e # 0  BY ConstantTypes DEF Exception
<1>5. \A s \in Thread : s # t => \A e : InFlight(e, s)' <=> InFlight(e, s)
  BY <1>2 DEF InFlight
<1>6. \A e \in Exception : \A s \in Thread : Of(e, s)' => Of(e, s)
  <2>1. \A e \in Exception : Of(e, t)' => Of(e, t)  BY <1>2, <1>3, <1>4 DEF Of
  <2>2. ASSUME NEW s \in Thread, s # t  PROVE  \A e : Of(e, s)' => Of(e, s)
    BY <1>2, <1>3, <1>5, <2>2 DEF Of
  <2>. QED BY <2>1, <2>2
<1>7. OfInv'  BY <1>2, <1>6, OfRests
<1>8. StaleInv'
  <2>1. bridged \subseteq bridged' /\ bridged \subseteq Exception  BY <1>2 DEF LoggerTypes
  <2>. QED BY <1>2, <2>1, StaleRests
<1>9. ASSUME NEW s \in Thread  PROVE  LastInv(s)'
  <2>1. CASE s # t
    <3>1. LastInv(s) /\ \A e : InFlight(e, s)' <=> InFlight(e, s)  BY <1>5, <2>1
    <3>2. /\ inFlight'[s] = inFlight[s] /\ logged'[s] = logged[s] /\ bridged \subseteq bridged'
          /\ UNCHANGED <<faults, lastException, isProcessing>>
      BY <1>2, <1>3, <2>1
    <3>. QED BY <3>1, <3>2 DEF LastInv
  <2>2. CASE s = t /\ bridge
    <3>1. /\ logged'[t] = last /\ inFlight'[t] = <<>> /\ last \in bridged' /\ ~isProcessing[t]
          /\ UNCHANGED <<faults, lastException, isProcessing>>
      BY <1>2, <1>3, <2>2
    <3>2. last <= lastException[t]  BY <1>2, <3>1 DEF LastInv
    <3>3. faults = {} => lastException[t] = last  BY <1>1, <1>2, <3>1 DEF LastInv
    <3>4. \A e : ~InFlight(e, t)'
      <4>1. 1..Len(inFlight'[t]) = {}  BY <3>1
      <4>. QED BY <4>1 DEF InFlight
    <3>. QED BY <2>2, <3>1, <3>2, <3>3, <3>4 DEF LastInv
  <2>3. CASE s = t /\ ~bridge
    <3>1. /\ logged'[t] = 0 /\ UNCHANGED <<faults, lastException, isProcessing>>
          /\ faults = {} => inFlight'[t] = <<>>
      BY <1>2, <1>3, <2>3
    <3>. QED BY <1>2, <2>3, <3>1 DEF LastInv
  <2>. QED BY <2>1, <2>2, <2>3
<1>. QED BY <1>7, <1>8, <1>9

LEMMA LoggerLogs ==
    ASSUME LoggerTypes, OfInv, \A s \in Thread : LastInv(s), StaleInv,
           NEW t \in Thread, Logger!OnLogError(t)
    PROVE  OfInv' /\ (\A s \in Thread : LastInv(s)') /\ StaleInv'
<1>1. /\ logged[t] # 0 /\ logged' = [logged EXCEPT ![t] = 0]
      /\ UNCHANGED <<faults, thrown, inFlight, bridged, typeOf>>
  BY OnLogErrorEffect
<1>2. logged'[t] = 0 /\ \A s \in Thread : s # t => logged'[s] = logged[s]
  BY <1>1 DEF LoggerTypes
<1>3. \A e \in Exception : e # 0  BY ConstantTypes DEF Exception
<1>4. \A s \in Thread : \A e : InFlight(e, s)' <=> InFlight(e, s)  BY <1>1 DEF InFlight
<1>5. inFlight[t] = <<>> /\ logged[t] \in bridged /\ logged[t] <= lastException[t]
      /\ ~isProcessing[t]
  BY <1>1 DEF LastInv
<1>6. \A e : ~InFlight(e, t)
  <2>1. 1..Len(inFlight[t]) = {}  BY <1>5
  <2>. QED BY <2>1 DEF InFlight
<1>7. CASE UNCHANGED <<captured, lastException, isProcessing>>
  <2>1. \A e \in Exception : \A s \in Thread : Of(e, s)' => Of(e, s)
    BY <1>2, <1>3, <1>4, <1>7 DEF Of
  <2>2. OfInv'  BY <1>1, <1>7, <2>1, OfRests
  <2>3. StaleInv'
    <3>1. bridged \subseteq bridged' /\ bridged \subseteq Exception
      BY <1>1 DEF LoggerTypes
    <3>. QED BY <1>1, <1>7, <3>1, StaleRests
  <2>4. ASSUME NEW s \in Thread  PROVE  LastInv(s)'
    <3>1. logged'[s] = 0 \/ logged'[s] = logged[s]  BY <1>2
    <3>2. LastInv(s)  OBVIOUS
    <3>. QED BY <1>1, <1>4, <1>7, <3>1, <3>2 DEF LastInv
  <2>. QED BY <2>2, <2>3, <2>4
<1>8. CASE /\ lastException[t] # 0
           /\ Logger!IsPrefix(typeOf[lastException[t]], typeOf[logged[t]])
           /\ captured' = [captured EXCEPT ![lastException[t]] = @ + 1]
           /\ lastException' = [lastException EXCEPT ![t] = 0]
           /\ isProcessing' = [isProcessing EXCEPT ![t] = TRUE]
  <2>1. PICK last \in Exception : last = lastException[t]  BY <1>8 DEF LoggerTypes
  <2>2. Of(last, t) /\ captured[last] = 0 /\ last <= thrown  BY <2>1 DEF Of, OfInv
  <2>3. /\ captured'[last] = 1
        /\ \A e \in Exception : e # last => captured'[e] = captured[e]
    BY <1>8, <2>1, <2>2 DEF LoggerTypes
  <2>4. /\ lastException'[t] = 0 /\ isProcessing'[t]
        /\ \A s \in Thread : s # t => lastException'[s] = lastException[s]
                                      /\ isProcessing'[s] = isProcessing[s]
    BY <1>8 DEF LoggerTypes
  <2>5. \A e \in Exception : ~Of(e, t)'  BY <1>2, <1>3, <1>4, <1>6, <2>4 DEF Of
  <2>6. \A s \in Thread : s # t => \A e : Of(e, s)' <=> Of(e, s)
    BY <1>2, <1>4, <2>4 DEF Of
  <2>7. \A s \in Thread : ~Of(last, s)'  BY <2>2, <2>5, <2>6 DEF OfInv
  <2>8. \A e \in Exception : captured[e] \in Nat  BY DEF LoggerTypes
  <2>9. OfInv'
    <3>1. ASSUME NEW e \in Exception
          PROVE  /\ \A s \in Thread : Of(e, s)' => e <= thrown' /\ captured'[e] = 0
                 /\ captured'[e] <= 1 /\ (captured'[e] > 0 => e <= thrown')
      <4>1. \A s \in Thread : Of(e, s)' => e # last /\ Of(e, s)
        BY <2>5, <2>6, <2>7
      <4>2. CASE e # last  BY <1>1, <2>3, <4>1, <4>2 DEF OfInv
      <4>3. CASE e = last  BY <1>1, <2>2, <2>3, <4>1, <4>3
      <4>. QED BY <4>2, <4>3
    <3>2. \A e \in Exception : \A r, s \in Thread : Of(e, r)' /\ Of(e, s)' => r = s
      BY <2>5, <2>6 DEF OfInv
    <3>. QED BY <3>1, <3>2 DEF OfInv
  <2>10. ASSUME NEW s \in Thread  PROVE  LastInv(s)'
    <3>1. CASE s = t  BY <1>2, <2>4, <3>1 DEF LastInv
    <3>2. CASE s # t
      <4>1. /\ lastException'[s] = lastException[s] /\ isProcessing'[s] = isProcessing[s]
            /\ logged'[s] = logged[s] /\ UNCHANGED <<faults, inFlight, bridged>>
        BY <1>1, <1>2, <2>4, <3>2
      <4>2. LastInv(s)  OBVIOUS
      <4>. QED BY <1>4, <4>1, <4>2 DEF LastInv
    <3>. QED BY <3>1, <3>2
  <2>11. ASSUME NEW e \in Exception, captured'[e] > 0, e \notin bridged
         PROVE  \E b \in bridged : TakenFor(e, b)'
    <3>1. CASE e # last
      <4>1. PICK b \in bridged : TakenFor(e, b)  BY <2>3, <2>11, <3>1 DEF StaleInv
      <4>2. b # last /\ b \in Exception  BY <2>1, <4>1 DEF TakenFor, LoggerTypes
      <4>3. b # 0  BY <1>3, <4>2
      <4>4. \A s \in Thread : lastException'[s] # b  BY <2>4, <4>1, <4>3 DEF TakenFor
      <4>5. captured'[b] = captured[b]  BY <2>3, <4>2
      <4>. QED BY <1>1, <4>1, <4>4, <4>5 DEF TakenFor
    <3>2. CASE e = last
      <4>1. PICK b \in Exception : b = logged[t]  BY <1>5 DEF LoggerTypes
      <4>2. b \in bridged /\ b # last  BY <1>5, <2>11, <3>2, <4>1
      <4>3. b < e
        <5>1. b \in Nat /\ e \in Nat  BY ConstantTypes DEF Exception
        <5>. QED BY <1>5, <2>1, <3>2, <4>1, <4>2, <5>1
      <4>4. Of(b, t) /\ captured[b] = 0  BY <4>1 DEF Of, OfInv
      <4>5. captured'[b] = 0  BY <2>3, <4>2, <4>4
      <4>6. ASSUME NEW s \in Thread  PROVE  lastException'[s] # b
        <5>1. CASE s = t  BY <1>3, <2>4, <5>1
        <5>2. CASE s # t
          <6>1. ~Of(b, s)  BY <4>4, <5>2 DEF OfInv
          <6>. QED BY <2>4, <5>2, <6>1 DEF Of
        <5>. QED BY <5>1, <5>2
      <4>7. Logger!IsPrefix(typeOf[e], typeOf[b])  BY <1>8, <2>1, <3>2, <4>1
      <4>. QED BY <1>1, <4>2, <4>3, <4>5, <4>6, <4>7 DEF TakenFor
    <3>. QED BY <3>1, <3>2
  <2>12. StaleInv'  BY <1>1, <2>11 DEF StaleInv
  <2>. QED BY <2>9, <2>10, <2>12
<1>. QED BY <1>7, <1>8, OnLogErrorEffect

LEMMA LoggerReturns ==
    ASSUME LoggerTypes, OfInv, \A s \in Thread : LastInv(s), StaleInv,
           NEW t \in Thread, Logger!Captured(t)
    PROVE  OfInv' /\ (\A s \in Thread : LastInv(s)') /\ StaleInv'
<1>1. /\ isProcessing[t] /\ inFlight[t] = <<>>
      /\ isProcessing' = [isProcessing EXCEPT ![t] = FALSE]
      /\ UNCHANGED <<faults, thrown, inFlight, bridged, captured, typeOf, lastException, logged>>
  BY DEF Logger!Captured, Logger!promise
<1>2. OfInv'
  <2>1. \A e \in Exception : \A s \in Thread : Of(e, s)' => Of(e, s)
    BY <1>1 DEF Of, InFlight
  <2>. QED BY <1>1, <2>1, OfRests
<1>3. StaleInv'
  <2>1. bridged \subseteq bridged' /\ bridged \subseteq Exception  BY <1>1 DEF LoggerTypes
  <2>. QED BY <1>1, <2>1, StaleRests
<1>4. ASSUME NEW s \in Thread  PROVE  LastInv(s)'
  <2>1. LastInv(s) /\ \A e : InFlight(e, s)' <=> InFlight(e, s)  BY <1>1 DEF InFlight
  <2>2. CASE s # t
    <3>1. isProcessing'[s] = isProcessing[s]  BY <1>1, <2>2 DEF LoggerTypes
    <3>. QED BY <1>1, <2>1, <3>1 DEF LastInv
  <2>3. CASE s = t
    <3>1. ~isProcessing'[t]  BY <1>1 DEF LoggerTypes
    <3>2. \A e : ~InFlight(e, t)
      <4>1. 1..Len(inFlight[t]) = {}  BY <1>1
      <4>. QED BY <4>1 DEF InFlight
    <3>. QED BY <1>1, <2>1, <2>3, <3>1, <3>2 DEF LastInv
  <2>. QED BY <2>2, <2>3
<1>. QED BY <1>2, <1>3, <1>4

LEMMA NextLogger == ASSUME LoggerInv, [Logger!Next]_(Logger!vars)  PROVE  LoggerInv'
<1>1. LoggerTypes /\ OfInv /\ (\A s \in Thread : LastInv(s)) /\ StaleInv
  BY LoggerTypesAreTypeOK DEF LoggerInv
<1>2. Logger!TypeOK'
  <2>1. LoggerTypes'  BY <1>1, LoggerNextTypes
  <2>2. LoggerTypes' => Logger!TypeOK'  BY LoggerTypesAreTypeOK, PTL
  <2>. QED BY <2>1, <2>2
<1>3. OfInv' /\ (\A s \in Thread : LastInv(s)') /\ StaleInv'
  <2>1. ASSUME NEW t \in Thread, Logger!Throw(t)
        PROVE  OfInv' /\ (\A s \in Thread : LastInv(s)') /\ StaleInv'
    BY <1>1, <2>1, LoggerThrow
  <2>2. ASSUME NEW t \in Thread, NEW bridge \in BOOLEAN, NEW left \in 0..MaxThrown,
               Logger!Catch(t, bridge, left)
        PROVE  OfInv' /\ (\A s \in Thread : LastInv(s)') /\ StaleInv'
    BY <1>1, <2>2, LoggerCatch
  <2>3. ASSUME NEW t \in Thread, Logger!OnLogError(t)
        PROVE  OfInv' /\ (\A s \in Thread : LastInv(s)') /\ StaleInv'
    BY <1>1, <2>3, LoggerLogs
  <2>4. ASSUME NEW t \in Thread, Logger!Captured(t)
        PROVE  OfInv' /\ (\A s \in Thread : LastInv(s)') /\ StaleInv'
    BY <1>1, <2>4, LoggerReturns
  <2>5. CASE UNCHANGED Logger!vars
    <3>1. UNCHANGED <<faults, thrown, inFlight, bridged, captured, typeOf, lastException,
                      isProcessing, logged>>
      BY <2>5 DEF Logger!vars, Logger!promise
    <3>. QED BY <1>1, <3>1 DEF OfInv, LastInv, StaleInv, TakenFor, Of, InFlight
  <2>. QED BY <2>1, <2>2, <2>3, <2>4, <2>5 DEF Logger!Next
<1>. QED BY <1>2, <1>3 DEF LoggerInv

LEMMA LoggerCaptures ==
    ASSUME LoggerInv, [Logger!Next]_(Logger!vars)
    PROVE  [Abstract!Next]_promise
<1>1. LoggerTypes /\ OfInv /\ (\A s \in Thread : LastInv(s))
  BY LoggerTypesAreTypeOK DEF LoggerInv
<1>2. ASSUME NEW t \in Thread, Logger!Throw(t)  PROVE  Abstract!Next
  BY <1>2 DEF Logger!Throw, Logger!Abstract!Throw, Abstract!Throw, Abstract!Next
<1>3. ASSUME NEW t \in Thread, NEW bridge \in BOOLEAN, NEW left \in 0..MaxThrown,
             Logger!Catch(t, bridge, left)
      PROVE  Abstract!Next
  <2>1. Abstract!Catch(t, bridge, left)
    BY <1>3 DEF Logger!Catch, Logger!Abstract!Catch, Abstract!Catch
  <2>. QED BY <2>1 DEF Abstract!Next
<1>4. ASSUME NEW t \in Thread, Logger!OnLogError(t)  PROVE  [Abstract!Next]_promise
  <2>1. logged[t] # 0 /\ UNCHANGED <<faults, thrown, inFlight, bridged>>
    BY <1>4, OnLogErrorEffect
  <2>2. CASE UNCHANGED captured  BY <2>1, <2>2 DEF promise
  <2>3. CASE /\ lastException[t] # 0
             /\ captured' = [captured EXCEPT ![lastException[t]] = @ + 1]
    <3>1. PICK e \in Exception : e = lastException[t]  BY <1>1, <2>3 DEF LoggerTypes
    <3>2. Of(e, t) /\ captured[e] = 0  BY <1>1, <3>1 DEF Of, OfInv
    <3>3. captured' = [captured EXCEPT ![e] = 1]  BY <2>3, <3>1, <3>2
    <3>4. faults = {} => e \in bridged  BY <1>1, <2>1, <3>1 DEF LastInv
    <3>5. Abstract!Capture(e)  BY <2>1, <3>2, <3>3, <3>4 DEF Abstract!Capture
    <3>6. e \in Abstract!Exception  BY DEF Abstract!Exception, Exception
    <3>. QED BY <3>5, <3>6 DEF Abstract!Next
  <2>. QED BY <1>4, <2>2, <2>3, OnLogErrorEffect
<1>5. ASSUME NEW t \in Thread, Logger!Captured(t)  PROVE  UNCHANGED promise
  BY <1>5 DEF Logger!Captured, Logger!promise, promise
<1>6. UNCHANGED Logger!vars => UNCHANGED promise
  BY DEF Logger!vars, Logger!promise, promise
<1>. QED BY <1>2, <1>3, <1>4, <1>5, <1>6 DEF Logger!Next

LEMMA StaleIsByType == ASSUME LoggerInv  PROVE  Logger!StaleOnlyByType
<1>1. LoggerTypes /\ OfInv /\ StaleInv  BY LoggerTypesAreTypeOK DEF LoggerInv
<1>2. SUFFICES ASSUME NEW e \in Exception, captured[e] > 0
               PROVE  /\ captured[e] = 1
                      /\ e \notin bridged =>
                           \E b \in bridged : b < e /\ captured[b] = 0
                                              /\ Logger!IsPrefix(typeOf[e], typeOf[b])
  BY DEF Logger!StaleOnlyByType, Logger!Exception, Exception
<1>3. captured[e] \in Nat /\ captured[e] <= 1  BY <1>1 DEF LoggerTypes, OfInv
<1>4. captured[e] = 1  BY <1>2, <1>3
<1>. QED BY <1>1, <1>2, <1>4 DEF StaleInv, TakenFor

-----------------------------------------------------------------------------
(***************************************************************************)
(* Both handlers, in the behaviours of MCExceptions.                       *)
(***************************************************************************)
LEMMA InitExceptions == ExceptionsInit => ExceptionsInv
<1>. SUFFICES ASSUME ExceptionsInit  PROVE  ExceptionsInv  OBVIOUS
<1>1. Init /\ Logger!Init /\ setup \in DebuggerSetups \cup LoggerSetups
  BY DEF ExceptionsInit
<1>2. DebuggerInv /\ LoggerInv  BY <1>1, InitDebugger, InitLogger
<1>3. DebuggerRests  BY <1>1 DEF Init, DebuggerRests
<1>. QED BY <1>1, <1>2, <1>3 DEF ExceptionsInv

(* A step of one handler leaves the other as it began.                     *)
LEMMA StepIsOneHandlers ==
    ASSUME ExceptionsInv, [ExceptionsNext]_exceptionVars
    PROVE  /\ setup' = setup
           /\ \/ setup \in DebuggerSetups /\ setup \notin LoggerSetups /\ [Next]_vars
              \/ /\ setup \in LoggerSetups /\ setup \notin DebuggerSetups
                 /\ [Logger!Next]_(Logger!vars) /\ UNCHANGED debuggerVars
<1>1. ASSUME setup \in DebuggerSetups  PROVE  setup \notin LoggerSetups
  BY <1>1 DEF DebuggerSetups, LoggerSetups
<1>2. setup \in DebuggerSetups \/ setup \in LoggerSetups  BY DEF ExceptionsInv
<1>3. CASE DebuggerStep
  <2>1. Next /\ setup' = setup  BY <1>3 DEF DebuggerStep
  <2>2. setup \in DebuggerSetups  BY <1>3 DEF DebuggerStep, DebuggerSetups
  <2>. QED BY <1>1, <2>1, <2>2
<1>4. CASE LoggerStep
  <2>1. Logger!Next /\ setup' = setup /\ UNCHANGED debuggerVars  BY <1>4 DEF LoggerStep
  <2>2. setup \in LoggerSetups  BY <1>4 DEF LoggerStep, LoggerSetups
  <2>. QED BY <1>1, <2>1, <2>2
<1>5. CASE UNCHANGED exceptionVars
  <2>1. setup' = setup /\ UNCHANGED vars /\ UNCHANGED loggerVars  BY <1>5 DEF exceptionVars
  <2>2. UNCHANGED debuggerVars  BY <2>1 DEF vars, debuggerVars
  <2>3. UNCHANGED Logger!vars
    BY <2>1 DEF vars, promise, loggerVars, Logger!vars, Logger!promise
  <2>. QED BY <1>1, <1>2, <2>1, <2>2, <2>3
<1>. QED BY <1>3, <1>4, <1>5 DEF ExceptionsNext

LEMMA NextExceptions ==
    ASSUME ExceptionsInv, [ExceptionsNext]_exceptionVars
    PROVE  ExceptionsInv'
<1>1. setup' = setup  BY StepIsOneHandlers
<1>2. CASE setup \in DebuggerSetups /\ setup \notin LoggerSetups /\ [Next]_vars
  <2>1. DebuggerInv'  BY <1>2, NextDebugger DEF ExceptionsInv
  <2>. QED BY <1>1, <1>2, <2>1 DEF ExceptionsInv
<1>3. CASE /\ setup \in LoggerSetups /\ setup \notin DebuggerSetups
           /\ [Logger!Next]_(Logger!vars) /\ UNCHANGED debuggerVars
  <2>1. LoggerInv'  BY <1>3, NextLogger DEF ExceptionsInv
  <2>2. DebuggerRests'  BY <1>3 DEF ExceptionsInv, DebuggerRests, debuggerVars
  <2>. QED BY <1>1, <1>3, <2>1, <2>2 DEF ExceptionsInv
<1>. QED BY <1>2, <1>3, StepIsOneHandlers

LEMMA NothingPends == ASSUME DebuggerRests  PROVE  DOMAIN pending = {}
<1>1. <<>> \in Seq(Exception) /\ Len(<<>>) = 0  OBVIOUS
<1>2. DOMAIN pending = 1..0  BY <1>1 DEF DebuggerRests
<1>. QED BY <1>2

LEMMA ContainedNow == ExceptionsInv => FaultsContained
<1>. SUFFICES ASSUME ExceptionsInv  PROVE  FaultsContained  OBVIOUS
<1>1. CASE setup \in LoggerSetups
  <2>1. LoggerInv /\ DebuggerRests  BY <1>1 DEF ExceptionsInv
  <2>2. \A e \in Exception : captured[e] <= 1  BY <2>1 DEF LoggerInv, OfInv
  <2>3. BackInStep  BY <2>1, NothingPends DEF BackInStep
  <2>. QED BY <2>1, <2>2, <2>3, StaleIsByType DEF FaultsContained
<1>2. CASE setup \in DebuggerSetups /\ setup \notin LoggerSetups
  <2>1. DebuggerInv  BY <1>2 DEF ExceptionsInv
  <2>2. \A e \in Exception : captured[e] <= 1  BY <2>1 DEF DebuggerInv, OnceInv
  <2>. QED BY <1>2, <2>1, <2>2, QuietIsEmpty DEF FaultsContained
<1>. QED BY <1>1, <1>2 DEF ExceptionsInv

LEMMA RestingMatches == ASSUME DebuggerRests  PROVE  QueueMatchesEvents
<1>. SUFFICES ASSUME NEW t \in Thread
              PROVE  QueueLength(t) + (IF raising[t] THEN 1 ELSE 0)
                       = throwCounts[t] + ThrownAhead(t)
  BY DEF QueueMatchesEvents
<1>1. QueueLength(t) = 0  BY NothingPends DEF QueueLength
<1>2. events = <<>> /\ ~raising[t] /\ throwCounts[t] = 0  BY DEF DebuggerRests
<1>3. ThrownAhead(t) = 0
  <2>1. <<>> \in Seq(Event) /\ Len(<<>>) = 0  OBVIOUS
  <2>2. DOMAIN events = 1..0  BY <1>2, <2>1
  <2>3. {i \in DOMAIN events : events[i].thread = t /\ events[i].kind = "thrown"} = {}
    BY <2>2
  <2>. QED BY <2>3, FS_EmptySet DEF ThrownAhead
<1>. QED BY <1>1, <1>2, <1>3

LEMMA NothingLost ==
    ASSUME ExceptionsInv, ExceptionsInv', Prompt, [ExceptionsNext]_exceptionVars, faults = {}
    PROVE  /\ \A t \in DOMAIN pending \ DOMAIN pending' : pending[t] = <<>>
           /\ QueueMatchesEvents'
<1>1. CASE setup \in DebuggerSetups /\ [Next]_vars
  BY <1>1, CleanupLosesNothing DEF ExceptionsInv
<1>2. CASE setup \in LoggerSetups /\ setup' = setup
  <2>1. DebuggerRests /\ DebuggerRests'  BY <1>2 DEF ExceptionsInv
  <2>2. DebuggerRests' => QueueMatchesEvents'  BY RestingMatches, PTL
  <2>. QED BY <2>1, <2>2, NothingPends
<1>. QED BY <1>1, <1>2, StepIsOneHandlers

LEMMA ExceptionsCapture ==
    ASSUME ExceptionsInv, Prompt, [ExceptionsNext]_exceptionVars
    PROVE  [Abstract!Next]_promise
<1>1. CASE setup \in DebuggerSetups /\ [Next]_vars
  BY <1>1, DebuggerCaptures DEF ExceptionsInv
<1>2. CASE setup \in LoggerSetups /\ [Logger!Next]_(Logger!vars)
  BY <1>2, LoggerCaptures DEF ExceptionsInv
<1>. QED BY <1>1, <1>2, StepIsOneHandlers

-----------------------------------------------------------------------------
(***************************************************************************)
(* The theorems.                                                           *)
(***************************************************************************)
(* The invariants above hold of both handlers, for all threads and sizes.  *)
THEOREM ExceptionsAreInvariant == ExceptionsSpec => []ExceptionsInv
<1>1. ExceptionsInit => ExceptionsInv  BY InitExceptions
<1>2. ExceptionsInv /\ [ExceptionsNext]_exceptionVars => ExceptionsInv'  BY NextExceptions
<1>. QED BY <1>1, <1>2, PTL DEF ExceptionsSpec

(* Whatever the faults, nothing is captured twice; a thread with inner     *)
(* catches gets back in step; and the logger's handler errs by type only.  *)
THEOREM FaultsAreContained == ExceptionsSpec => []FaultsContained
BY ExceptionsAreInvariant, ContainedNow, PTL

(* Without faults the removal of dead threads loses nothing, if the        *)
(* listener is less than an interval late: CoreClrExceptionHandler's       *)
(* "removed next cycle, so in-flight events have time to drain".           *)
THEOREM CleanupIsAfterDrain ==
    ASSUME Prompt  PROVE  ExceptionsSpec => CleanupAfterDrain
<1>1. ExceptionsInv /\ ExceptionsInv' /\ [ExceptionsNext]_exceptionVars
        => [faults = {} =>
              /\ \A t \in DOMAIN pending \ DOMAIN pending' : pending[t] = <<>>
              /\ QueueMatchesEvents']_vars
  BY NothingLost
<1>. QED BY <1>1, ExceptionsAreInvariant, PTL DEF ExceptionsSpec, CleanupAfterDrain

(* Each step of either handler is a step of ExceptionCapture or a stutter: *)
(* no exception is captured twice, and without faults none that the bridge *)
(* has not caught.                                                         *)
THEOREM HandlersImplementCapture ==
    ASSUME Prompt
    PROVE  ExceptionsSpec => Abstract!Init /\ [][Abstract!Next]_promise
<1>1. ExceptionsInit => Abstract!Init  BY DEF ExceptionsInit, Init
<1>2. ExceptionsInv /\ [ExceptionsNext]_exceptionVars => [Abstract!Next]_promise
  BY ExceptionsCapture
<1>. QED BY <1>1, <1>2, ExceptionsAreInvariant, PTL DEF ExceptionsSpec

=============================================================================
