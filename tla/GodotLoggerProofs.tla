------------------------- MODULE GodotLoggerProofs -------------------------
(***************************************************************************)
(* Proofs about GodotLogger, for any threads, errors, limits and bounds.   *)
(***************************************************************************)
EXTENDS GodotLogger, TLAPS, FiniteSetTheorems, SequenceTheorems, WellFoundedInduction

-----------------------------------------------------------------------------
(* The greater of two numbers.                                             *)
LEMMA MaxOfTwo ==
    ASSUME NEW a \in Nat, NEW b \in Nat
    PROVE  Max({a, b}) \in Nat /\ Max({a, b}) >= a /\ Max({a, b}) >= b
<1>1. \E x \in {a, b} : \A y \in {a, b} : x >= y
  <2>1. CASE a >= b  BY <2>1
  <2>2. CASE b >= a  BY <2>2
  <2>. QED BY <2>1, <2>2
<1>. QED BY <1>1 DEF Max

(* The limits in force are numbers.                                        *)
LEMMA LimitsType ==
    ASSUME NEW l \in {"none", "startup", "normal"}
    PROVE  FrameLimitOf(l) \in Nat /\ ThrottleEventsOf(l) \in Nat /\ ThrottleWindowOf(l) \in Nat
BY LimitsAssumption, MaxOfTwo DEF FrameLimitOf, ThrottleEventsOf, ThrottleWindowOf

(* A set of positions has a least one.                                     *)
LEMMA LeastPosition ==
    ASSUME NEW I \in SUBSET Nat, I # {}
    PROVE  Min(I) \in I /\ \A i \in I : Min(I) <= i
<1>1. \E i \in I : \A j \in I : ~(<<j, i>> \in OpToRel(<, Nat))
  BY NatLessThanWellFounded, WFMin
<1>2. \A i, j \in Nat : i < j => <<i, j>> \in OpToRel(<, Nat)
  BY DEF OpToRel
<1>3. \E i \in I : \A j \in I : ~(j < i)
  BY <1>1, <1>2, Zenon
<1>4. \E i \in I : \A j \in I : i =< j
  BY <1>3
<1>. QED BY <1>4 DEF Min

(* Trimming keeps a sequence of time points.                               *)
LEMMA TrimType ==
    ASSUME NEW times \in Seq(Nat), NEW window
    PROVE  Trim(times, window) \in Seq(Nat)
<1>. DEFINE live == {i \in DOMAIN times : now - times[i] < window}
<1>1. Trim(times, window) = IF live = {} THEN <<>> ELSE SubSeq(times, Min(live), Len(times))
  BY DEF Trim
<1>2. live \subseteq 1..Len(times)  OBVIOUS
<1>. HIDE DEF live
<1>3. CASE live # {}
  <2>1. live \in SUBSET Nat  BY <1>2
  <2>2. Min(live) \in 1..Len(times)  BY <1>2, <1>3, <2>1, LeastPosition
  <2>. QED BY <1>1, <1>3, <2>2
<1>. QED BY <1>1, <1>3

(* Front drops the last element.                                           *)
LEMMA FrontOf ==
    ASSUME NEW S, NEW q \in Seq(S), q # <<>>
    PROVE  \A i \in DOMAIN Front(q) : i \in DOMAIN q /\ Front(q)[i] = q[i]
<1>1. Front(q) = [i \in 1..(Len(q) - 1) |-> q[i]]
  BY DEF Front
<1>. QED BY <1>1

(* A call that returns leaves the calls it was made from; one that goes on *)
(* to capture changes its stage only.                                      *)
LEMMA StackType ==
    ASSUME NEW q \in Seq(LogCall), q # <<>>
    PROVE  /\ Front(q) \in Seq(LogCall)
           /\ Last(q) \in LogCall
           /\ Append(Front(q), [Last(q) EXCEPT !.stage = "capturing"]) \in Seq(LogCall)
<1>1. Front(q) \in Seq(LogCall)  BY DEF Front
<1>2. Last(q) \in LogCall  BY DEF Last
<1>3. [Last(q) EXCEPT !.stage = "capturing"] \in LogCall  BY <1>2 DEF LogCall
<1>. QED BY <1>1, <1>2, <1>3

-----------------------------------------------------------------------------
(* Before there is a logger nothing is logged.                             *)
Created ==
    limits = "none" =>
        frameEvents = 0 /\ captured = <<>> /\ \A t \in Thread : calls[t] = <<>>

Noted(c, asEvent) ==
    [key |-> c.key, at |-> c.at, when |-> now, frame |-> frame,
     event |-> asEvent, limits |-> limits]

(* What is known of each capture.                                          *)
LEMMA CapturedType ==
    ASSUME TypeOK
    PROVE  \A i \in DOMAIN captured : /\ captured[i].key \in Key
                                      /\ captured[i].at \in Nat
                                      /\ captured[i].frame \in Nat
<1>1. \A i \in DOMAIN captured : captured[i] \in Capture  BY DEF TypeOK
<1>. QED BY <1>1 DEF Capture

(* What a decision comes to.                                               *)
LEMMA Decision ==
    ASSUME NEW t \in Thread, Decide(t)
    PROVE  \E asEvent \in BOOLEAN :
             /\ asEvent => WithinFrameLimit /\ WithinThrottlingLimit
             /\ IF asEvent
                THEN frameEvents' = frameEvents + 1 /\ eventTimes' = Append(eventTimes, Top(t).at)
                ELSE UNCHANGED <<frameEvents, eventTimes>>
             /\ \/ /\ captured' = Append(captured, Noted(Top(t), asEvent))
                   /\ StartCapture(t)
                   /\ errorTimepoints' = Remembered(Top(t))
                   /\ ~IsSpammy(Top(t))
                \/ ~asEvent /\ Return(t) /\ UNCHANGED <<errorTimepoints, captured>>
<1>. DEFINE c == Top(t)
            asEvent == c.key \in EventMask /\ WithinFrameLimit /\ WithinThrottlingLimit
                         /\ ~IsSpammy(c)
            asRecord == c.key \in RecordMask /\ ~IsSpammy(c)
<1>1. /\ IF asEvent
         THEN frameEvents' = frameEvents + 1 /\ eventTimes' = Append(eventTimes, c.at)
         ELSE UNCHANGED <<frameEvents, eventTimes>>
      /\ IF asEvent \/ asRecord
         THEN /\ errorTimepoints' = Remembered(c)
              /\ captured' = Append(captured, Noted(c, asEvent))
              /\ StartCapture(t)
         ELSE Return(t) /\ UNCHANGED <<errorTimepoints, captured>>
  BY DEF Decide, Noted
<1>2. /\ asEvent \in BOOLEAN
      /\ asEvent => WithinFrameLimit /\ WithinThrottlingLimit
      /\ (asEvent \/ asRecord) => ~IsSpammy(c)
  OBVIOUS
<1>. HIDE DEF asEvent, asRecord, c
<1>. asEvent \in BOOLEAN  BY <1>2
<1>. WITNESS asEvent \in BOOLEAN
<1>. QED BY <1>1, <1>2 DEF c

-----------------------------------------------------------------------------
(* Every step keeps the variables well typed.                              *)
LEMMA TypeStep ==
    ASSUME TypeOK, Created, [Next]_vars
    PROVE  TypeOK' /\ Created'
<1>1. CASE Construct  BY <1>1 DEF TypeOK, Created, Construct
<1>2. CASE ProcessFrame
  <2>1. emptied' \in SUBSET Nat  BY <1>2 DEF TypeOK, ProcessFrame
  <2>2. CASE limits = "none"  BY <1>2, <2>1, <2>2 DEF TypeOK, Created, ProcessFrame
  <2>3. CASE limits # "none"
    <3>1. limits' \in {"startup", "normal"}  BY <1>2, <2>3 DEF TypeOK, ProcessFrame
    <3>2. eventTimes' \in Seq(Nat)
      BY <1>2, <2>3, TrimType DEF TypeOK, ProcessFrame
    <3>3. /\ DOMAIN errorTimepoints' \subseteq Key
          /\ \A k \in DOMAIN errorTimepoints' : errorTimepoints'[k] \in Nat
      BY <1>2, <2>3 DEF TypeOK, ProcessFrame
    <3>4. frame' \in Nat /\ frameEvents' \in Nat /\ UNCHANGED <<now, calls, captured>>
      BY <1>2, <2>3 DEF TypeOK, ProcessFrame, ResetFrame
    <3>. QED BY <2>1, <2>3, <3>1, <3>2, <3>3, <3>4 DEF TypeOK, Created
  <2>. QED BY <2>2, <2>3
<1>3. CASE Tick  BY <1>3 DEF TypeOK, Created, Tick
<1>4. CASE \E t \in Thread, key \in Key : LogError(t, key)
  <2>1. PICK t \in Thread, key \in Key : LogError(t, key)  BY <1>4
  <2>2. [key |-> key, at |-> now, stage |-> "stamped"] \in LogCall  BY DEF TypeOK, LogCall
  <2>3. calls' \in [Thread -> Seq(LogCall)]  BY <2>1, <2>2 DEF TypeOK, LogError
  <2>. QED BY <2>1, <2>3 DEF TypeOK, Created, LogError
<1>5. CASE \E t \in Thread : Decide(t)
  <2>1. PICK t \in Thread : Decide(t)  BY <1>5
  <2>2. /\ calls[t] \in Seq(LogCall) /\ calls[t] # <<>>
        /\ Top(t) \in LogCall
    BY <2>1, StackType DEF TypeOK, Decide, Top
  <2>3. Top(t).key \in Key /\ Top(t).at \in Nat  BY <2>2 DEF LogCall
  <2>4. limits \in {"startup", "normal"}  BY <2>2 DEF TypeOK, Created
  <2>5. UNCHANGED <<now, frame, limits, emptied>>  BY <2>1 DEF Decide
  <2>7. PICK asEvent \in BOOLEAN :
             /\ IF asEvent
                THEN frameEvents' = frameEvents + 1 /\ eventTimes' = Append(eventTimes, Top(t).at)
                ELSE UNCHANGED <<frameEvents, eventTimes>>
             /\ \/ /\ captured' = Append(captured, Noted(Top(t), asEvent))
                   /\ StartCapture(t)
                   /\ errorTimepoints' = Remembered(Top(t))
                \/ Return(t) /\ UNCHANGED <<errorTimepoints, captured>>
    BY <2>1, Decision
  <2>8. frameEvents' \in Nat /\ eventTimes' \in Seq(Nat)
    <3>1. CASE asEvent
      <4>1. frameEvents' = frameEvents + 1 /\ eventTimes' = Append(eventTimes, Top(t).at)
        BY <2>7, <3>1, Zenon
      <4>. QED BY <2>3, <4>1 DEF TypeOK
    <3>2. CASE ~asEvent  BY <2>7, <3>2 DEF TypeOK
    <3>. QED BY <3>1, <3>2
  <2>9. calls' \in [Thread -> Seq(LogCall)]
    BY <2>2, <2>7, StackType DEF TypeOK, StartCapture, Return
  <2>10. captured' \in Seq(Capture)
    <3>1. Noted(Top(t), asEvent) \in Capture  BY <2>3, <2>4 DEF TypeOK, Noted, Capture
    <3>2. captured' = Append(captured, Noted(Top(t), asEvent)) \/ UNCHANGED captured
      BY <2>7, Zenon
    <3>3. captured \in Seq(Capture)  BY DEF TypeOK
    <3>. QED BY <3>1, <3>2, <3>3
  <2>11. /\ DOMAIN errorTimepoints' \subseteq Key
         /\ \A k \in DOMAIN errorTimepoints' : errorTimepoints'[k] \in Nat
    BY <2>3, <2>7 DEF TypeOK, Remembered
  <2>12. TypeOK'
    BY <2>5, <2>8, <2>9, <2>10, <2>11 DEF TypeOK
  <2>. QED BY <2>4, <2>5, <2>12 DEF Created
<1>6. CASE \E t \in Thread : FinishCapture(t)
  <2>1. PICK t \in Thread : FinishCapture(t)  BY <1>6
  <2>2. calls' \in [Thread -> Seq(LogCall)]
    BY <2>1, StackType DEF TypeOK, FinishCapture, Return
  <2>. QED BY <2>1, <2>2 DEF TypeOK, Created, FinishCapture
<1>7. CASE UNCHANGED vars  BY <1>7 DEF TypeOK, Created, vars
<1>. QED BY <1>1, <1>2, <1>3, <1>4, <1>5, <1>6, <1>7 DEF Next

LEMMA TypeInit ==
    ASSUME Init
    PROVE  TypeOK /\ Created
BY DEF Init, TypeOK, Created

LEMMA Typed == Spec => [](TypeOK /\ Created)
<1>1. Init => TypeOK /\ Created  BY TypeInit
<1>2. TypeOK /\ Created /\ [Next]_vars => TypeOK' /\ Created'  BY TypeStep
<1>. QED BY <1>1, <1>2, PTL DEF Spec

(* The variables of the logger are well typed, however many threads report *)
(* errors.                                                                 *)
THEOREM TypeCorrect == Spec => []TypeOK
<1>1. TypeOK /\ Created => TypeOK  OBVIOUS
<1>. QED BY <1>1, Typed, PTL

(* _process_frame() switches to the normal limits in frame 10, and a logger *)
(* constructed later starts with them.                                     *)
THEOREM StartupEnds == Spec => []StartupLimitsEnd
<1>1. Init => StartupLimitsEnd  BY DEF Init, StartupLimitsEnd
<1>2. TypeOK /\ StartupLimitsEnd /\ [Next]_vars => StartupLimitsEnd'
  <2> SUFFICES ASSUME TypeOK, StartupLimitsEnd, [Next]_vars
               PROVE  StartupLimitsEnd'
    OBVIOUS
  <2>. USE LimitsAssumption DEF StartupLimitsEnd
  <2>1. CASE Construct  BY <2>1 DEF TypeOK, Construct
  <2>2. CASE ProcessFrame
    <3>1. /\ frame' = frame + 1
          /\ limits = "none" => limits' = "none"
          /\ limits # "none" => limits' = IF frame = StartupFrames THEN "normal" ELSE limits
      BY <2>2 DEF ProcessFrame
    <3>2. frame \in Nat /\ StartupFrames \in Nat  BY DEF TypeOK
    <3>. QED BY <3>1, <3>2
  <2>3. CASE UNCHANGED <<frame, limits>>  BY <2>3
  <2>. QED
    BY <2>1, <2>2, <2>3 DEF Next, Tick, LogError, Decide, FinishCapture, vars
<1>3. TypeOK /\ Created => TypeOK  OBVIOUS
<1>. QED BY <1>1, <1>2, <1>3, Typed, PTL DEF Spec

-----------------------------------------------------------------------------
(* The counter counts the events of this frame and stays within the limit. *)
InFrame == {i \in Events : captured[i].frame = frame}

FrameInv ==
    /\ \A i \in DOMAIN captured : captured[i].frame <= frame
    /\ IsFiniteSet(InFrame) /\ Cardinality(InFrame) = frameEvents
    /\ limits # "none" => frameEvents <= FrameLimitOf(limits)

LEMMA FrameStep ==
    ASSUME TypeOK, Created, FrameInv, [Next]_vars, TypeOK'
    PROVE  FrameInv'
<1>. limits # "none" => FrameLimitOf(limits) \in Nat  BY LimitsType DEF TypeOK
<1>. limits' # "none" => FrameLimitOf(limits') \in Nat  BY LimitsType DEF TypeOK
<1>1. CASE Construct
  <2>1. InFrame' = InFrame  BY <1>1 DEF Construct, InFrame, Events
  <2>2. frameEvents' = 0 /\ UNCHANGED <<frameEvents, frame, captured>>
    BY <1>1 DEF Construct, Created
  <2>. QED BY <2>1, <2>2 DEF FrameInv
<1>2. CASE ProcessFrame
  <2>1. /\ frame' = frame + 1 /\ captured' = captured
        /\ limits = "none" => limits' = "none" /\ frameEvents' = frameEvents
        /\ limits # "none" => frameEvents' = 0
    BY <1>2 DEF ProcessFrame, ResetFrame
  <2>2. frameEvents' = 0  BY <2>1 DEF Created
  <2>3. frame \in Nat /\ \A i \in DOMAIN captured : captured[i].frame \in Nat
    BY CapturedType DEF TypeOK
  <2>4. /\ \A i \in DOMAIN captured : captured[i].frame < frame'
    BY <2>1, <2>3 DEF FrameInv
  <2>5. InFrame' = {}  BY <2>1, <2>3, <2>4 DEF InFrame, Events
  <2>6. \A i \in DOMAIN captured' : captured'[i].frame <= frame'
    BY <2>1, <2>3, <2>4
  <2>. QED BY <2>2, <2>5, <2>6, FS_EmptySet DEF FrameInv
<1>3. CASE \E t \in Thread : Decide(t)
  <2>1. PICK t \in Thread : Decide(t)  BY <1>3
  <2>2. UNCHANGED <<frame, limits>>  BY <2>1 DEF Decide
  <2>3. PICK asEvent \in BOOLEAN :
          /\ asEvent => frameEvents < FrameLimitOf(limits) /\ frameEvents' = frameEvents + 1
          /\ ~asEvent => frameEvents' = frameEvents
          /\ \/ captured' = Append(captured, Noted(Top(t), asEvent))
             \/ ~asEvent /\ captured' = captured
    BY <2>1, Decision, Zenon DEF WithinFrameLimit
  <2>4. /\ Noted(Top(t), asEvent).frame = frame
        /\ Noted(Top(t), asEvent).event = asEvent
    BY DEF Noted
  <2>5. captured \in Seq(Capture) /\ frame \in Nat /\ frameEvents \in Nat  BY DEF TypeOK
  <2>. DEFINE last == Len(captured) + 1
  <2>6. CASE captured' = captured
    <3>1. ~asEvent
      <4>1. Append(captured, Noted(Top(t), asEvent)) # captured  BY <2>5
      <4>. QED BY <2>3, <2>6, <4>1, Zenon
    <3>2. frameEvents' = frameEvents  BY <2>3, <3>1, Zenon
    <3>3. InFrame' = InFrame  BY <2>2, <2>6 DEF InFrame, Events
    <3>. QED BY <2>2, <2>6, <3>2, <3>3 DEF FrameInv
  <2>7. CASE captured' = Append(captured, Noted(Top(t), asEvent))
    <3>1. /\ DOMAIN captured' = DOMAIN captured \cup {last}
          /\ last \notin DOMAIN captured
          /\ \A i \in DOMAIN captured : captured'[i] = captured[i]
          /\ captured'[last] = Noted(Top(t), asEvent)
      BY <2>5, <2>7
    <3>. HIDE DEF last
    <3>2. \A i \in DOMAIN captured' : captured'[i].frame <= frame'
      BY <2>2, <2>4, <2>5, <3>1 DEF FrameInv
    <3>3. CASE asEvent
      <4>1. InFrame' = InFrame \cup {last}
        BY <2>2, <2>4, <3>1, <3>3 DEF InFrame, Events
      <4>2. last \notin InFrame  BY <3>1 DEF InFrame, Events
      <4>3. IsFiniteSet(InFrame') /\ Cardinality(InFrame') = frameEvents + 1
        BY <4>1, <4>2, FS_AddElement DEF FrameInv
      <4>4. frameEvents < FrameLimitOf(limits) /\ frameEvents' = frameEvents + 1
        BY <2>3, <3>3, Zenon
      <4>. QED BY <2>2, <2>5, <3>2, <4>3, <4>4 DEF FrameInv
    <3>4. CASE ~asEvent
      <4>1. InFrame' = InFrame
        BY <2>2, <2>4, <3>1, <3>4 DEF InFrame, Events
      <4>2. frameEvents' = frameEvents  BY <2>3, <3>4, Zenon
      <4>. QED BY <2>2, <3>2, <4>1, <4>2 DEF FrameInv
    <3>. QED BY <3>3, <3>4
  <2>. QED BY <2>3, <2>6, <2>7, Zenon
<1>4. CASE UNCHANGED <<frame, limits, frameEvents, captured>>
  <2>1. InFrame' = InFrame  BY <1>4 DEF InFrame, Events
  <2>. QED BY <1>4, <2>1 DEF FrameInv
<1>. QED
  BY <1>1, <1>2, <1>3, <1>4 DEF Next, Tick, LogError, FinishCapture, vars

(* However many threads report errors, and whenever the limits change, no  *)
(* more error events are sent per processed frame than the limit allows.   *)
THEOREM EventsPerFrame_Kept == Spec => []EventsPerFrameKept
<1>1. Init => FrameInv
  <2> SUFFICES ASSUME Init PROVE FrameInv  OBVIOUS
  <2>1. InFrame = {}  BY DEF Init, InFrame, Events
  <2>. QED BY <2>1, FS_EmptySet DEF Init, FrameInv
<1>2. TypeOK /\ Created /\ FrameInv /\ [Next]_vars => FrameInv'
  BY TypeStep, FrameStep
<1>3. FrameInv => EventsPerFrameKept  BY DEF FrameInv, EventsPerFrameKept, InFrame
<1>. QED BY <1>1, <1>2, <1>3, Typed, PTL DEF Spec

-----------------------------------------------------------------------------
(* A set whose elements all stand at one of n positions has at most n.     *)
LEMMA CoverBound ==
    ASSUME NEW n \in Nat, NEW S, NEW f, \A i \in S : \E p \in 1..n : f[p] = i
    PROVE  IsFiniteSet(S) /\ Cardinality(S) <= n
<1>. DEFINE P == {p \in 1..n : f[p] \in S}
            g == [p \in P |-> f[p]]
<1>1. g \in Surjection(P, S)
  BY DEF Surjection
<1>2. IsFiniteSet(1..n) /\ Cardinality(1..n) = n
  BY FS_Interval
<1>3. IsFiniteSet(P) /\ Cardinality(P) <= n
  BY <1>2, FS_Subset
<1>4. IsFiniteSet(S) /\ Cardinality(S) <= Cardinality(P)
  BY <1>1, <1>3, FS_Surjection
<1>. QED BY <1>3, <1>4, FS_CardinalityType

(* The table holds a time at or after every capture of an error, unless it *)
(* was emptied since, and no error that was not captured since then.       *)
RepeatInv ==
    /\ RepeatedErrorsApart
    /\ \A f \in emptied : f < frame
    /\ \A i \in DOMAIN captured :
         /\ captured[i].frame <= frame
         /\ \/ \E f \in emptied : captured[i].frame <= f
            \/ /\ captured[i].key \in DOMAIN errorTimepoints
               /\ captured[i].at <= errorTimepoints[captured[i].key]
    /\ \A k \in DOMAIN errorTimepoints : \E i \in DOMAIN captured :
         captured[i].key = k /\ \A f \in emptied : f < captured[i].frame

(* Finitely many errors are known at a time.                               *)
LEMMA KnownFinite == ASSUME TypeOK, NEW f  PROVE  IsFiniteSet(KnownAt(f))
<1>. DEFINE keys == [i \in 1..Len(captured) |-> captured[i].key]
<1>1. captured \in Seq(Capture)  BY DEF TypeOK
<1>2. DOMAIN captured = 1..Len(captured) /\ Len(captured) \in Nat  BY <1>1
<1>3. \A k \in KnownAt(f) : \E i \in 1..Len(captured) : keys[i] = k  BY <1>2 DEF KnownAt
<1>. HIDE DEF keys
<1>. QED BY <1>2, <1>3, CoverBound

LEMMA RepeatUnchanged ==
    ASSUME RepeatInv, UNCHANGED <<frame, errorTimepoints, captured, emptied>>
    PROVE  RepeatInv'
BY DEF RepeatInv, RepeatedErrorsApart, EmptiedBetween, KnownAt

(* The table is kept, or emptied because it holds too many errors, each of *)
(* which has been captured since the last time.                            *)
LEMMA RepeatFrame ==
    ASSUME TypeOK, Created, RepeatInv, ProcessFrame
    PROVE  RepeatInv'
<1>1. frame' = frame + 1 /\ captured' = captured  BY DEF ProcessFrame
<1>2. frame \in Nat /\ emptied \subseteq Nat  BY DEF TypeOK
<1>3. \A i \in DOMAIN captured : captured[i].frame \in Nat  BY CapturedType
<1>4. CASE UNCHANGED <<errorTimepoints, emptied>>
  <2>1. RepeatedErrorsApart'
    BY <1>1, <1>4 DEF RepeatInv, RepeatedErrorsApart, EmptiedBetween, KnownAt
  <2>. QED BY <1>1, <1>2, <1>3, <1>4, <2>1 DEF RepeatInv
<1>5. CASE TableFull /\ errorTimepoints' = [k \in {} |-> 0] /\ emptied' = emptied \cup {frame}
  <2>1. PICK this \in Nat : this = frame  BY <1>2
  <2>2. \A i, j \in DOMAIN captured : EmptiedBetween(i, j) => EmptiedBetween(i, j)'
    BY <1>1, <1>5 DEF EmptiedBetween
  <2>3. \A f \in emptied : KnownAt(f)' = KnownAt(f)
    BY <1>1, <1>2, <1>5 DEF KnownAt, RepeatInv
  <2>4. DOMAIN errorTimepoints \subseteq KnownAt(this)'
    <3>. SUFFICES ASSUME NEW k \in DOMAIN errorTimepoints  PROVE  k \in KnownAt(this)'
      OBVIOUS
    <3>1. PICK i \in DOMAIN captured : captured[i].key = k /\ \A f \in emptied : f < captured[i].frame
      BY DEF RepeatInv
    <3>2. captured[i].frame <= this  BY <2>1 DEF RepeatInv
    <3>3. \A g \in emptied' : g < this => g < captured[i].frame  BY <1>2, <1>5, <2>1, <3>1
    <3>. QED BY <1>1, <3>1, <3>2, <3>3 DEF KnownAt
  <2>5. Cardinality(KnownAt(this)') > TableLimit
    <3>1. KnownAt(this)' \subseteq KnownAt(this) /\ IsFiniteSet(KnownAt(this))
      BY <1>1, <1>5, KnownFinite DEF KnownAt
    <3>2. IsFiniteSet(KnownAt(this)')  BY <3>1, FS_Subset
    <3>3. /\ IsFiniteSet(DOMAIN errorTimepoints)
          /\ Cardinality(DOMAIN errorTimepoints) <= Cardinality(KnownAt(this)')
      BY <2>4, <3>2, FS_Subset
    <3>4. Cardinality(DOMAIN errorTimepoints) \in Nat /\ Cardinality(KnownAt(this)') \in Nat
      BY <3>2, <3>3, FS_CardinalityType
    <3>5. Cardinality(DOMAIN errorTimepoints) > TableLimit /\ TableLimit \in Nat
      BY <1>5, LimitsAssumption DEF TableFull
    <3>. QED BY <3>3, <3>4, <3>5
  <2>6. \A f \in emptied' : Cardinality(KnownAt(f)') > TableLimit
    <3>. SUFFICES ASSUME NEW f \in emptied'  PROVE  Cardinality(KnownAt(f)') > TableLimit
      OBVIOUS
    <3>1. CASE f \in emptied  BY <2>3, <3>1 DEF RepeatInv, RepeatedErrorsApart
    <3>2. CASE f = this  BY <2>5, <3>2
    <3>. QED BY <1>5, <2>1, <3>1, <3>2
  <2>7. RepeatedErrorsApart'
    <3>1. \A i, j \in DOMAIN captured' :
            (i < j /\ captured'[i].key = captured'[j].key)
              => captured'[j].at - captured'[i].at >= RepeatedErrorWindow \/ EmptiedBetween(i, j)'
      BY <1>1, <2>2 DEF RepeatInv, RepeatedErrorsApart
    <3>. QED BY <2>6, <3>1 DEF RepeatedErrorsApart
  <2>8. \A i \in DOMAIN captured' : \E f \in emptied' : captured'[i].frame <= f
    BY <1>1, <1>5 DEF RepeatInv
  <2>9. \A f \in emptied' : f < frame'  BY <1>1, <1>2, <1>5 DEF RepeatInv
  <2>10. \A i \in DOMAIN captured' : captured'[i].frame <= frame'
    BY <1>1, <1>2, <1>3 DEF RepeatInv
  <2>11. DOMAIN errorTimepoints' = {}  BY <1>5
  <2>. QED BY <2>7, <2>8, <2>9, <2>10, <2>11 DEF RepeatInv
<1>. QED BY <1>4, <1>5 DEF ProcessFrame

LEMMA RepeatDecide ==
    ASSUME TypeOK, RepeatInv, NEW t \in Thread, Decide(t)
    PROVE  RepeatInv'
<1>. DEFINE c == Top(t)
<1>1. UNCHANGED <<frame, emptied>>  BY DEF Decide
<1>2. c.key \in Key /\ c.at \in Nat
  <2>1. Top(t) \in LogCall  BY StackType DEF TypeOK, Decide, Top
  <2>. QED BY <2>1 DEF LogCall
<1>3. \/ UNCHANGED <<errorTimepoints, captured>>
      \/ \E asEvent \in BOOLEAN :
           /\ captured' = Append(captured, Noted(c, asEvent))
           /\ errorTimepoints' = Remembered(c)
           /\ ~IsSpammy(c)
  BY Decision, Zenon
<1>. HIDE DEF c
<1>4. CASE UNCHANGED <<errorTimepoints, captured>>  BY <1>1, <1>4, RepeatUnchanged
<1>5. ASSUME NEW asEvent \in BOOLEAN,
             captured' = Append(captured, Noted(c, asEvent)),
             errorTimepoints' = Remembered(c),
             ~IsSpammy(c)
      PROVE  RepeatInv'
  <2>. DEFINE last == Len(captured) + 1
  <2>1. /\ Noted(c, asEvent).key = c.key /\ Noted(c, asEvent).at = c.at
        /\ Noted(c, asEvent).frame = frame
    BY DEF Noted
  <2>2. /\ captured \in Seq(Capture) /\ RepeatedErrorWindow \in Nat
        /\ frame \in Nat /\ emptied \subseteq Nat
    BY LimitsAssumption DEF TypeOK
  <2>3. /\ DOMAIN captured' = DOMAIN captured \cup {last}
        /\ DOMAIN captured = 1..Len(captured) /\ Len(captured) \in Nat
        /\ \A i \in DOMAIN captured : captured'[i] = captured[i] /\ i < last
        /\ captured'[last].key = c.key /\ captured'[last].at = c.at
        /\ captured'[last].frame = frame
    BY <1>5, <2>1, <2>2
  <2>4. \A k \in DOMAIN errorTimepoints : errorTimepoints[k] \in Nat  BY DEF TypeOK
  <2>5. /\ DOMAIN errorTimepoints' = DOMAIN errorTimepoints \cup {c.key}
        /\ errorTimepoints'[c.key] = c.at
        /\ \A k \in DOMAIN errorTimepoints \ {c.key} : errorTimepoints'[k] = errorTimepoints[k]
    BY <1>5 DEF Remembered
  <2>6. c.key \in DOMAIN errorTimepoints => c.at - errorTimepoints[c.key] >= RepeatedErrorWindow
    BY <1>2, <1>5, <2>2, <2>4 DEF IsSpammy
  <2>. HIDE DEF last
  <2>7. \A i \in DOMAIN captured : captured[i].key = c.key =>
          \/ c.at - captured[i].at >= RepeatedErrorWindow
          \/ \E f \in emptied : captured[i].frame <= f
    BY <1>2, <2>2, <2>4, <2>6, CapturedType DEF RepeatInv
  <2>8. \A f \in emptied : f < frame  BY DEF RepeatInv
  <2>9. \A i, j \in DOMAIN captured' :
          (i < j /\ captured'[i].key = captured'[j].key)
            => captured'[j].at - captured'[i].at >= RepeatedErrorWindow \/ EmptiedBetween(i, j)'
    <3>1. TAKE i, j \in DOMAIN captured'
    <3>2. HAVE i < j /\ captured'[i].key = captured'[j].key
    <3>3. i \in DOMAIN captured
      <4>1. i \in Int /\ j \in Int  BY <2>3 DEF last
      <4>. QED BY <2>3, <3>2, <4>1
    <3>4. CASE j = last
      <4>1. captured[i].key = c.key  BY <2>3, <3>2, <3>3, <3>4
      <4>2. CASE c.at - captured[i].at >= RepeatedErrorWindow  BY <2>3, <3>3, <3>4, <4>2
      <4>3. ASSUME NEW f \in emptied, captured[i].frame <= f  PROVE  EmptiedBetween(i, j)'
        BY <1>1, <2>3, <2>8, <3>3, <3>4, <4>3 DEF EmptiedBetween
      <4>. QED BY <2>7, <3>3, <4>1, <4>2, <4>3
    <3>5. CASE j \in DOMAIN captured
      <4>1. captured'[i] = captured[i] /\ captured'[j] = captured[j]  BY <2>3, <3>3, <3>5
      <4>2. EmptiedBetween(i, j) => EmptiedBetween(i, j)'
        BY <1>1, <4>1 DEF EmptiedBetween
      <4>. QED BY <3>2, <3>3, <3>5, <4>1, <4>2 DEF RepeatInv, RepeatedErrorsApart
    <3>. QED BY <2>3, <3>4, <3>5
  <2>10. \A f \in emptied : KnownAt(f)' = KnownAt(f)
    <3>. SUFFICES ASSUME NEW f \in emptied  PROVE  KnownAt(f)' = KnownAt(f)
      OBVIOUS
    <3>1. ~(captured'[last].frame <= f)  BY <2>2, <2>3, <2>8
    <3>. QED BY <1>1, <2>3, <3>1 DEF KnownAt
  <2>11. \A f \in emptied' : Cardinality(KnownAt(f)') > TableLimit
    BY <1>1, <2>10 DEF RepeatInv, RepeatedErrorsApart
  <2>12. \A i \in DOMAIN captured' :
          /\ captured'[i].frame <= frame'
          /\ \/ \E f \in emptied' : captured'[i].frame <= f
             \/ /\ captured'[i].key \in DOMAIN errorTimepoints'
                /\ captured'[i].at <= errorTimepoints'[captured'[i].key]
    <3>1. TAKE i \in DOMAIN captured'
    <3>2. CASE i = last  BY <1>1, <1>2, <2>2, <2>3, <2>5, <3>2
    <3>3. CASE i \in DOMAIN captured
      <4>1. captured'[i] = captured[i] /\ captured[i].frame <= frame
        BY <2>3, <3>3 DEF RepeatInv
      <4>2. CASE \E f \in emptied : captured[i].frame <= f  BY <1>1, <4>1, <4>2
      <4>3. CASE captured[i].key = c.key /\ c.at - captured[i].at >= RepeatedErrorWindow
        <5>1. captured[i].at <= c.at  BY <1>2, <2>2, <3>3, <4>3, CapturedType
        <5>. QED BY <1>1, <2>5, <4>1, <4>3, <5>1
      <4>4. CASE /\ captured[i].key # c.key /\ captured[i].key \in DOMAIN errorTimepoints
                 /\ captured[i].at <= errorTimepoints[captured[i].key]
        BY <1>1, <2>5, <4>1, <4>4
      <4>. QED BY <2>7, <3>3, <4>2, <4>3, <4>4 DEF RepeatInv
    <3>. QED BY <2>3, <3>2, <3>3
  <2>13. \A k \in DOMAIN errorTimepoints' : \E i \in DOMAIN captured' :
           captured'[i].key = k /\ \A f \in emptied' : f < captured'[i].frame
    <3>1. TAKE k \in DOMAIN errorTimepoints'
    <3>2. CASE k = c.key  BY <1>1, <2>3, <2>8, <3>2
    <3>3. CASE k \in DOMAIN errorTimepoints
      <4>1. PICK i \in DOMAIN captured :
              captured[i].key = k /\ \A f \in emptied : f < captured[i].frame
        BY <3>3 DEF RepeatInv
      <4>. QED BY <1>1, <2>3, <4>1
    <3>. QED BY <2>5, <3>2, <3>3
  <2>14. RepeatedErrorsApart'  BY <2>9, <2>11 DEF RepeatedErrorsApart
  <2>15. \A f \in emptied' : f < frame'  BY <1>1, <2>8
  <2>. QED BY <2>12, <2>13, <2>14, <2>15 DEF RepeatInv
<1>. QED BY <1>3, <1>4, <1>5

LEMMA RepeatStep ==
    ASSUME TypeOK, Created, RepeatInv, [Next]_vars
    PROVE  RepeatInv'
<1>1. CASE ProcessFrame  BY <1>1, RepeatFrame
<1>2. CASE \E t \in Thread : Decide(t)  BY <1>2, RepeatDecide
<1>3. CASE UNCHANGED <<frame, errorTimepoints, captured, emptied>>  BY <1>3, RepeatUnchanged
<1>. QED
  BY <1>1, <1>2, <1>3 DEF Next, Construct, Tick, LogError, FinishCapture, vars

(* The window between two captures of one error is kept, in whatever order *)
(* threads whose stamps are out of order take the lock, unless the table   *)
(* was emptied between them; which it only is when more errors have been   *)
(* captured since the last time than it may hold.                          *)
THEOREM RepeatedErrors_Apart == Spec => []RepeatedErrorsApart
<1>1. Init => RepeatInv  BY DEF Init, RepeatInv, RepeatedErrorsApart
<1>2. TypeOK /\ Created /\ RepeatInv /\ [Next]_vars => RepeatInv'
  BY RepeatStep
<1>3. RepeatInv => RepeatedErrorsApart  BY DEF RepeatInv
<1>. QED BY <1>1, <1>2, <1>3, Typed, PTL DEF Spec

-----------------------------------------------------------------------------
(***************************************************************************)
(* Throttling.  The list of time points is trimmed at its front only and   *)
(* its stamps are out of order, so what it still covers is stated through  *)
(* a map from its positions to the events they stand for: no event inside  *)
(* the window has lost its position.                                       *)
(***************************************************************************)
NormalEvents == {i \in Events : captured[i].limits = "normal"}

LiveEvents == {i \in NormalEvents : now - captured[i].at < ThrottleWindow}

Covers(f) ==
    /\ \A p \in DOMAIN eventTimes : /\ f[p] \in Events
                                    /\ captured[f[p]].at = eventTimes[p]
    /\ \A i \in LiveEvents : \E p \in DOMAIN eventTimes : f[p] = i

NoLongStall ==
    /\ \A t \in Thread : \A i \in DOMAIN calls[t] :
         calls[t][i].stage = "stamped" => now - calls[t][i].at <= MaxStall
    /\ \A i \in DOMAIN captured : captured[i].when - captured[i].at <= MaxStall

ThrottleInv ==
    /\ limits # "normal" => NormalEvents = {}
    /\ NoLongStall
    /\ \E f : Covers(f)
    /\ ThrottlingKept

(* Trimming keeps the order of what stays, and what stays includes every   *)
(* time point inside the window.                                           *)
LEMMA TrimShift ==
    ASSUME NEW times \in Seq(Nat), NEW window
    PROVE  \E k \in Nat :
             /\ \A p \in DOMAIN Trim(times, window) :
                  p + k \in DOMAIN times /\ Trim(times, window)[p] = times[p + k]
             /\ \A p \in DOMAIN times :
                  now - times[p] < window => p - k \in DOMAIN Trim(times, window)
<1>. DEFINE live == {i \in DOMAIN times : now - times[i] < window}
            kept == Trim(times, window)
<1>1. kept = IF live = {} THEN <<>> ELSE SubSeq(times, Min(live), Len(times))
  BY DEF Trim
<1>2. DOMAIN times = 1..Len(times) /\ Len(times) \in Nat /\ live \subseteq 1..Len(times)
  OBVIOUS
<1>3. CASE live = {}
  BY <1>1, <1>3
<1>4. CASE live # {}
  <2>1. live \in SUBSET Nat
    BY <1>2
  <2>2. Min(live) \in 1..Len(times) /\ \A p \in live : Min(live) <= p
    BY <1>2, <1>4, <2>1, LeastPosition
  <2>. DEFINE m == Min(live)
              k == m - 1
  <2>. HIDE DEF live
  <2>0. kept = SubSeq(times, m, Len(times)) /\ m \in 1..Len(times)
    BY <1>1, <1>4, <2>2
  <2>. HIDE DEF kept, m
  <2>3. /\ Len(kept) = Len(times) - k
        /\ DOMAIN kept = 1..(Len(times) - k)
        /\ \A p \in 1..(Len(times) - k) : kept[p] = times[p + k]
    BY <1>2, <2>0
  <2>4. k \in Nat
    BY <2>0
  <2>5. ASSUME NEW p \in DOMAIN times, now - times[p] < window
        PROVE  p - k \in DOMAIN kept
    <3>1. p \in live
      BY <2>5 DEF live
    <3>2. m <= p
      BY <2>2, <3>1 DEF m
    <3>. QED BY <1>2, <2>0, <2>3, <3>2
  <2>6. ASSUME NEW p \in DOMAIN kept
        PROVE  p + k \in DOMAIN times /\ kept[p] = times[p + k]
    BY <1>2, <2>0, <2>3
  <2>. HIDE DEF k
  <2>. QED BY <2>4, <2>5, <2>6 DEF kept
<1>. QED BY <1>3, <1>4

(* The history only grows, so what was within the limit stays within it.   *)
LEMMA ThrottlingUnchanged ==
    ASSUME ThrottlingKept, UNCHANGED captured
    PROVE  ThrottlingKept'
BY DEF ThrottlingKept, Events

LEMMA CoversUnchanged ==
    ASSUME TypeOK, ThrottleInv, UNCHANGED <<captured, eventTimes>>,
           now' >= now, now' \in Nat
    PROVE  \E f : Covers(f)'
<1>1. PICK f : Covers(f)
  BY DEF ThrottleInv
<1>2. \A i \in DOMAIN captured : captured[i].at \in Nat
  BY CapturedType
<1>3. LiveEvents' \subseteq LiveEvents
  <2>1. NormalEvents' = NormalEvents /\ \A i \in NormalEvents : i \in DOMAIN captured
    BY DEF NormalEvents, Events
  <2>2. now \in Nat /\ ThrottleWindow \in Nat
    BY LimitsAssumption DEF TypeOK
  <2>3. \A i \in NormalEvents :
          now' - captured[i].at < ThrottleWindow => now - captured[i].at < ThrottleWindow
    BY <1>2, <2>1, <2>2
  <2>. QED BY <2>1, <2>3 DEF LiveEvents
<1>4. Covers(f)'
  BY <1>1, <1>3 DEF Covers, Events
<1>. QED BY <1>4

LEMMA ThrottleStep ==
    ASSUME TypeOK, Created, ThrottleInv, [Next]_vars, TypeOK'
    PROVE  ThrottleInv'
<1>1. CASE Construct \/ (\E t \in Thread, key \in Key : LogError(t, key))
           \/ (\E t \in Thread : FinishCapture(t)) \/ Tick \/ UNCHANGED vars
  <2>1. /\ UNCHANGED <<captured, eventTimes>> /\ now' \in Nat /\ now' >= now
        /\ limits' = limits \/ captured = <<>>
    <3>1. CASE Construct
      BY <3>1 DEF Construct, TypeOK, Created
    <3>2. CASE Tick
      BY <3>2 DEF Tick, TypeOK
    <3>3. CASE \E t \in Thread : (\E key \in Key : LogError(t, key)) \/ FinishCapture(t)
      <4>1. UNCHANGED <<captured, eventTimes, now, limits>>
        BY <3>3 DEF LogError, FinishCapture
      <4>. QED BY <4>1 DEF TypeOK
    <3>4. CASE UNCHANGED vars
      BY <3>4 DEF vars, TypeOK
    <3>. QED BY <1>1, <3>1, <3>2, <3>3, <3>4
  <2>2. ThrottlingKept' /\ \E f : Covers(f)'
    BY <2>1, ThrottlingUnchanged, CoversUnchanged DEF ThrottleInv
  <2>3. limits' # "normal" => NormalEvents' = {}
    BY <2>1 DEF ThrottleInv, NormalEvents, Events
  <2>4. ASSUME NEW t \in Thread, NEW i \in DOMAIN calls'[t], calls'[t][i].stage = "stamped"
        PROVE  now' - calls'[t][i].at <= MaxStall
    <3>0. /\ calls[t] \in Seq(LogCall) /\ now \in Nat /\ MaxStall \in Nat
          /\ \A j \in DOMAIN calls[t] : calls[t][j].at \in Nat
      <4>1. \A j \in DOMAIN calls[t] : calls[t][j] \in LogCall
        BY DEF TypeOK
      <4>. QED BY <4>1, LimitsAssumption DEF TypeOK, LogCall
    <3>1. CASE UNCHANGED <<calls, now>>
      BY <2>4, <3>1 DEF ThrottleInv, NoLongStall
    <3>2. CASE \E u \in Thread, key \in Key : LogError(u, key)
      <4>1. PICK u \in Thread, key \in Key : LogError(u, key)
        BY <3>2
      <4>2. calls'[t] = calls[t] \/ calls'[t] = Append(calls[t], [key |-> key, at |-> now, stage |-> "stamped"])
        BY <4>1 DEF LogError, TypeOK
      <4>3. calls'[t][i].at = now \/ (i \in DOMAIN calls[t] /\ calls'[t][i] = calls[t][i])
        BY <3>0, <4>2
      <4>4. now' = now
        BY <4>1 DEF LogError
      <4>. QED BY <2>4, <3>0, <4>3, <4>4 DEF ThrottleInv, NoLongStall
    <3>3. CASE \E u \in Thread : FinishCapture(u)
      <4>1. PICK u \in Thread : FinishCapture(u)
        BY <3>3
      <4>2. calls[u] # <<>> /\ (calls'[t] = calls[t] \/ (u = t /\ calls'[t] = Front(calls[t])))
        BY <4>1 DEF FinishCapture, Return, TypeOK
      <4>3. i \in DOMAIN calls[t] /\ calls'[t][i] = calls[t][i]
        BY <3>0, <4>2, FrontOf
      <4>4. now' = now
        BY <4>1 DEF FinishCapture
      <4>. QED BY <2>4, <4>3, <4>4 DEF ThrottleInv, NoLongStall
    <3>4. CASE Tick
      BY <2>4, <3>0, <3>4 DEF Tick
    <3>5. CASE Construct \/ UNCHANGED vars
      BY <3>1, <3>5 DEF Construct, vars
    <3>. QED BY <1>1, <3>2, <3>3, <3>4, <3>5
  <2>. QED BY <2>1, <2>2, <2>3, <2>4 DEF ThrottleInv, NoLongStall
<1>2. CASE ProcessFrame
  <2>1. /\ UNCHANGED <<now, calls, captured>>
        /\ limits = "normal" => limits' = "normal"
        /\ limits = "none" => UNCHANGED <<limits, eventTimes>>
        /\ limits # "none" => eventTimes' = Trim(eventTimes, ThrottleWindowOf(limits'))
    BY <1>2 DEF ProcessFrame
  <2>2. NoLongStall' /\ ThrottlingKept'
    BY <2>1, ThrottlingUnchanged DEF ThrottleInv, NoLongStall
  <2>3. NormalEvents' = NormalEvents /\ Events' = Events /\ LiveEvents' = LiveEvents
    BY <2>1 DEF NormalEvents, Events, LiveEvents
  <2>4. limits' # "normal" => NormalEvents' = {}
    BY <2>1, <2>3 DEF ThrottleInv
  <2>5. \E f : Covers(f)'
    <3>1. CASE limits = "none"
      BY <2>1, <3>1, CoversUnchanged DEF TypeOK
    <3>2. CASE limits # "none"
      <4>1. PICK f : Covers(f)
        BY DEF ThrottleInv
      <4>2. eventTimes \in Seq(Nat)
        BY DEF TypeOK
      <4>3. PICK k \in Nat :
              /\ \A p \in DOMAIN eventTimes' :
                   p + k \in DOMAIN eventTimes /\ eventTimes'[p] = eventTimes[p + k]
              /\ \A p \in DOMAIN eventTimes :
                   now - eventTimes[p] < ThrottleWindowOf(limits') => p - k \in DOMAIN eventTimes'
        BY <2>1, <3>2, <4>2, TrimShift
      <4>. PICK g : g = [p \in DOMAIN eventTimes' |-> f[p + k]]
        OBVIOUS
      <4>4. \A p \in DOMAIN eventTimes' : g[p] \in Events /\ captured[g[p]].at = eventTimes'[p]
        BY <4>1, <4>3 DEF Covers
      <4>5. ASSUME NEW i \in LiveEvents
            PROVE  \E p \in DOMAIN eventTimes' : g[p] = i
        <5>1. PICK q \in DOMAIN eventTimes : f[q] = i
          BY <4>1 DEF Covers
        <5>2. limits' = "normal"
          BY <2>3, <2>4 DEF LiveEvents
        <5>3. now - eventTimes[q] < ThrottleWindowOf(limits')
          BY <4>1, <5>1, <5>2 DEF Covers, LiveEvents, ThrottleWindowOf
        <5>4. q - k \in DOMAIN eventTimes' /\ (q - k) + k = q
          BY <4>2, <4>3, <5>3
        <5>. QED BY <5>1, <5>4
      <4>6. Covers(g)'
        BY <2>1, <2>3, <4>4, <4>5 DEF Covers
      <4>. QED BY <4>6
    <3>. QED BY <3>1, <3>2
  <2>. QED BY <2>2, <2>4, <2>5 DEF ThrottleInv
<1>3. CASE \E t \in Thread : Decide(t)
  <2>1. PICK t \in Thread : Decide(t)
    BY <1>3
  <2>. DEFINE c == Top(t)
              last == Len(captured) + 1
              end == Len(eventTimes) + 1
  <2>2. /\ UNCHANGED <<now, limits>> /\ calls[t] \in Seq(LogCall) /\ calls[t] # <<>>
        /\ c = calls[t][Len(calls[t])] /\ Len(calls[t]) \in DOMAIN calls[t]
        /\ c.stage = "stamped" /\ c \in LogCall
    <3>1. calls[t] \in Seq(LogCall) /\ calls[t] # <<>>
      BY <2>1 DEF Decide, TypeOK
    <3>. QED BY <2>1, <3>1, StackType DEF Decide, Top, Last
  <2>3. c.at \in Nat /\ now \in Nat /\ now - c.at <= MaxStall
    BY <2>2 DEF ThrottleInv, NoLongStall, LogCall, TypeOK
  <2>4. PICK asEvent \in BOOLEAN :
          /\ asEvent => WithinThrottlingLimit
          /\ IF asEvent
             THEN frameEvents' = frameEvents + 1 /\ eventTimes' = Append(eventTimes, c.at)
             ELSE UNCHANGED <<frameEvents, eventTimes>>
          /\ \/ captured' = Append(captured, Noted(c, asEvent)) /\ StartCapture(t)
             \/ ~asEvent /\ Return(t) /\ UNCHANGED captured
    BY <2>1, Decision, Zenon
  <2>5. /\ Noted(c, asEvent).at = c.at /\ Noted(c, asEvent).when = now
        /\ Noted(c, asEvent).event = asEvent /\ Noted(c, asEvent).limits = limits
    BY DEF Noted
  <2>6. captured \in Seq(Capture) /\ eventTimes \in Seq(Nat) /\ calls[t] \in Seq(LogCall)
    BY DEF TypeOK
  <2>7. \A u \in Thread : \A i \in DOMAIN calls'[u] : calls'[u][i].stage = "stamped" =>
          i \in DOMAIN calls[u] /\ calls'[u][i] = calls[u][i]
    <3>1. \A u \in Thread \ {t} : calls'[u] = calls[u]
      BY <2>4 DEF StartCapture, Return, TypeOK
    <3>2. \/ calls'[t] = Front(calls[t])
          \/ calls'[t] = Append(Front(calls[t]), [Last(calls[t]) EXCEPT !.stage = "capturing"])
      BY <2>4 DEF StartCapture, Return, TypeOK
    <3>3. [Last(calls[t]) EXCEPT !.stage = "capturing"].stage = "capturing"
      BY <2>2, StackType DEF LogCall
    <3>4. /\ Front(calls[t]) \in Seq(LogCall)
          /\ \A i \in DOMAIN Front(calls[t]) :
               i \in DOMAIN calls[t] /\ Front(calls[t])[i] = calls[t][i]
      BY <2>2, StackType, FrontOf
    <3>5. \A i \in DOMAIN calls'[t] : calls'[t][i].stage = "stamped" =>
            i \in DOMAIN calls[t] /\ calls'[t][i] = calls[t][i]
      <4>1. CASE calls'[t] = Front(calls[t])
        BY <3>4, <4>1
      <4>2. CASE calls'[t] = Append(Front(calls[t]), [Last(calls[t]) EXCEPT !.stage = "capturing"])
        <5>. PICK top : top = [Last(calls[t]) EXCEPT !.stage = "capturing"]
          OBVIOUS
        <5>1. \A i \in DOMAIN calls'[t] : \/ calls'[t][i].stage = "capturing"
                                         \/ /\ i \in DOMAIN Front(calls[t])
                                            /\ calls'[t][i] = Front(calls[t])[i]
          BY <3>3, <3>4, <4>2
        <5>. QED BY <3>4, <5>1
      <4>. QED BY <3>2, <4>1, <4>2
    <3>. QED BY <3>1, <3>5
  <2>8. CASE ~asEvent /\ UNCHANGED captured
    <3>1. UNCHANGED eventTimes
      BY <2>4, <2>8, Zenon
    <3>2. NormalEvents' = NormalEvents
      BY <2>8 DEF NormalEvents, Events
    <3>3. ThrottlingKept' /\ \E f : Covers(f)'
      BY <2>2, <2>3, <2>8, <3>1, ThrottlingUnchanged, CoversUnchanged DEF ThrottleInv
    <3>4. NoLongStall'
      BY <2>2, <2>7, <2>8 DEF ThrottleInv, NoLongStall
    <3>. QED BY <2>2, <3>2, <3>3, <3>4 DEF ThrottleInv
  <2>9. CASE captured' = Append(captured, Noted(c, asEvent))
    <3>1. /\ DOMAIN captured' = DOMAIN captured \cup {last}
          /\ DOMAIN captured = 1..Len(captured) /\ Len(captured) \in Nat
          /\ \A i \in DOMAIN captured : captured'[i] = captured[i] /\ i < last
          /\ captured'[last] = Noted(c, asEvent)
      BY <2>6, <2>9
    <3>2. NoLongStall'
      BY <2>2, <2>3, <2>5, <2>7, <3>1 DEF ThrottleInv, NoLongStall
    <3>. HIDE DEF c, last
    <3>3. /\ Events' = IF asEvent THEN Events \cup {last} ELSE Events
          /\ NormalEvents' = IF asEvent /\ limits = "normal" THEN NormalEvents \cup {last}
                             ELSE NormalEvents
          /\ last \notin Events
      BY <2>5, <3>1 DEF Events, NormalEvents
    <3>4. limits' # "normal" => NormalEvents' = {}
      BY <2>2, <3>3 DEF ThrottleInv
    <3>5. LiveEvents' \subseteq LiveEvents \cup (IF asEvent THEN {last} ELSE {})
      BY <2>2, <2>5, <3>1, <3>3 DEF LiveEvents, NormalEvents, Events
    <3>6. PICK f : Covers(f)
      BY DEF ThrottleInv
    <3>7. \E g : Covers(g)'
      <4>1. CASE asEvent
        <5>1. eventTimes' = Append(eventTimes, c.at)
          BY <2>4, <4>1, Zenon
        <5>2. /\ DOMAIN eventTimes' = DOMAIN eventTimes \cup {end}
              /\ end \notin DOMAIN eventTimes /\ eventTimes'[end] = c.at
              /\ \A p \in DOMAIN eventTimes : eventTimes'[p] = eventTimes[p]
          BY <2>3, <2>6, <5>1
        <5>. HIDE DEF end
        <5>. PICK g : g = [p \in DOMAIN eventTimes' |-> IF p = end THEN last ELSE f[p]]
          OBVIOUS
        <5>3. ASSUME NEW p \in DOMAIN eventTimes'
              PROVE  g[p] \in Events' /\ captured'[g[p]].at = eventTimes'[p]
          <6>1. CASE p = end
            BY <2>5, <3>1, <3>3, <4>1, <5>2, <6>1
          <6>2. CASE p # end
            <7>1. p \in DOMAIN eventTimes /\ g[p] = f[p]
              BY <5>2, <6>2
            <7>2. f[p] \in Events /\ captured[f[p]].at = eventTimes[p]
              BY <3>6, <7>1 DEF Covers
            <7>. QED BY <3>1, <3>3, <4>1, <5>2, <7>1, <7>2 DEF Events
          <6>. QED BY <6>1, <6>2
        <5>4. ASSUME NEW i \in LiveEvents'
              PROVE  \E p \in DOMAIN eventTimes' : g[p] = i
          <6>1. CASE i = last
            BY <5>2, <6>1
          <6>2. CASE i \in LiveEvents
            <7>1. PICK p \in DOMAIN eventTimes : f[p] = i
              BY <3>6, <6>2 DEF Covers
            <7>. QED BY <5>2, <7>1
          <6>. QED BY <3>5, <4>1, <6>1, <6>2
        <5>5. Covers(g)'
          BY <5>3, <5>4 DEF Covers
        <5>. QED BY <5>5
      <4>2. CASE ~asEvent
        <5>1. UNCHANGED eventTimes
          BY <2>4, <4>2, Zenon
        <5>2. Events' = Events /\ \A i \in Events : captured'[i] = captured[i]
          BY <3>1, <3>3, <4>2 DEF Events
        <5>3. Covers(f)'
          BY <3>5, <3>6, <4>2, <5>1, <5>2 DEF Covers
        <5>. QED BY <5>3
      <4>. QED BY <4>1, <4>2
    <3>8. ThrottlingKept'
      <4>. SUFFICES ASSUME ThrottleWindow > 0, NEW i \in Events'
                    PROVE  Cardinality({j \in Events' :
                             /\ j <= i
                             /\ captured'[j].limits = "normal" /\ captured'[i].limits = "normal"
                             /\ captured'[i].when - captured'[j].when < ThrottleWindow - MaxStall})
                               <= ThrottleEvents
        BY DEF ThrottlingKept
      <4>. DEFINE Within == {j \in Events' :
                             /\ j <= i
                             /\ captured'[j].limits = "normal" /\ captured'[i].limits = "normal"
                             /\ captured'[i].when - captured'[j].when < ThrottleWindow - MaxStall}
      <4>1. CASE i \in Events
        <5>1. Within = {j \in Events :
                         /\ j <= i
                         /\ captured[j].limits = "normal" /\ captured[i].limits = "normal"
                         /\ captured[i].when - captured[j].when < ThrottleWindow - MaxStall}
          <6>1. i \in DOMAIN captured /\ i < last /\ captured'[i] = captured[i]
            BY <3>1, <4>1 DEF Events
          <6>2. \A j \in Events' : j <= i => j \in Events
            BY <3>1, <3>3, <6>1 DEF last
          <6>3. \A j \in Events : j \in Events' /\ captured'[j] = captured[j]
            BY <3>1, <3>3 DEF Events
          <6>. QED BY <6>1, <6>2, <6>3
        <5>. QED BY <4>1, <5>1 DEF ThrottleInv, ThrottlingKept
      <4>2. CASE i = last /\ asEvent /\ limits # "normal"
        <5>1. Within = {}
          BY <2>5, <3>1, <4>2
        <5>2. Cardinality(Within) = 0
          BY <5>1, FS_EmptySet
        <5>3. 0 <= ThrottleEvents
          BY LimitsAssumption
        <5>. QED BY <5>2, <5>3
      <4>3. CASE i = last /\ asEvent /\ limits = "normal"
        <5>1. Within \subseteq LiveEvents \cup {last}
          <6>. SUFFICES ASSUME NEW j \in Within, j # last PROVE j \in LiveEvents
            OBVIOUS
          <6>1. /\ j \in Events /\ captured'[j] = captured[j] /\ j \in DOMAIN captured
                /\ captured[j].limits = "normal" /\ captured'[i].when = now
            BY <2>5, <3>1, <3>3, <4>3 DEF Events
          <6>2. now - captured[j].when < ThrottleWindow - MaxStall
            BY <6>1
          <6>3. captured[j].when - captured[j].at <= MaxStall
            BY <6>1 DEF ThrottleInv, NoLongStall
          <6>4. captured[j].when \in Nat /\ captured[j].at \in Nat
            <7>1. captured[j] \in Capture
              BY <2>6, <6>1
            <7>. QED BY <7>1 DEF Capture
          <6>5. now - captured[j].at < ThrottleWindow
            BY <2>3, <6>2, <6>3, <6>4, LimitsAssumption
          <6>. QED BY <6>1, <6>5 DEF LiveEvents, NormalEvents
        <5>2. IsFiniteSet(LiveEvents) /\ Cardinality(LiveEvents) <= Len(eventTimes)
          <6>1. DOMAIN eventTimes = 1..Len(eventTimes) /\ Len(eventTimes) \in Nat
            BY <2>6
          <6>2. \A j \in LiveEvents : \E p \in 1..Len(eventTimes) : f[p] = j
            BY <3>6, <6>1 DEF Covers
          <6>. QED BY <6>1, <6>2, CoverBound
        <5>3. Len(eventTimes) < ThrottleEvents
          <6>1. WithinThrottlingLimit
            BY <2>4, <4>3, Zenon
          <6>. QED BY <4>3, <6>1, LimitsAssumption
                   DEF WithinThrottlingLimit, ThrottleEventsOf, ThrottleWindowOf
        <5>4. /\ IsFiniteSet(LiveEvents \cup {last})
              /\ Cardinality(LiveEvents \cup {last}) <= Cardinality(LiveEvents) + 1
          <6>1. Cardinality(LiveEvents) \in Nat
            BY <5>2, FS_CardinalityType
          <6>2. /\ IsFiniteSet(LiveEvents \cup {last})
                /\ \/ Cardinality(LiveEvents \cup {last}) = Cardinality(LiveEvents)
                   \/ Cardinality(LiveEvents \cup {last}) = Cardinality(LiveEvents) + 1
            BY <5>2, FS_AddElement
          <6>. QED BY <6>1, <6>2
        <5>5. IsFiniteSet(Within) /\ Cardinality(Within) <= Cardinality(LiveEvents \cup {last})
          BY <5>1, <5>4, FS_Subset
        <5>. HIDE DEF Within
        <5>6. /\ Cardinality(Within) \in Nat /\ Cardinality(LiveEvents \cup {last}) \in Nat
              /\ Cardinality(LiveEvents) \in Nat /\ Len(eventTimes) \in Nat
              /\ ThrottleEvents \in Nat
          BY <2>6, <5>2, <5>4, <5>5, FS_CardinalityType, LimitsAssumption
        <5>7. Cardinality(Within) <= ThrottleEvents
          BY <5>2, <5>3, <5>4, <5>5, <5>6
        <5>. QED BY <5>7 DEF Within
      <4>4. i \in Events \/ (i = last /\ asEvent)
        BY <3>3
      <4>. QED BY <4>1, <4>2, <4>3, <4>4
    <3>. QED BY <3>2, <3>4, <3>7, <3>8 DEF ThrottleInv
  <2>. QED BY <2>4, <2>8, <2>9
<1>. QED BY <1>1, <1>2, <1>3 DEF Next

LEMMA ThrottleInit ==
    ASSUME Init
    PROVE  ThrottleInv
<1>1. Events = {} /\ NormalEvents = {} /\ LiveEvents = {} /\ captured = <<>> /\ eventTimes = <<>>
  BY DEF Init, Events, NormalEvents, LiveEvents
<1>2. Covers(<<>>)
  BY <1>1 DEF Covers
<1>3. NoLongStall
  BY DEF Init, NoLongStall
<1>4. ThrottlingKept
  BY <1>1 DEF ThrottlingKept
<1>. QED BY <1>1, <1>2, <1>3, <1>4 DEF ThrottleInv

(* Once startup is over no sliding window holds more events than the       *)
(* limit, however the stamps of different threads interleave; the window   *)
(* that is kept is shorter by the longest wait for the lock.               *)
THEOREM Throttling_Kept == Spec => []ThrottlingKept
<1>1. Init => ThrottleInv  BY ThrottleInit
<1>2. TypeOK /\ Created /\ ThrottleInv /\ [Next]_vars => ThrottleInv'
  BY TypeStep, ThrottleStep
<1>3. ThrottleInv => ThrottlingKept  BY DEF ThrottleInv
<1>. QED BY <1>1, <1>2, <1>3, Typed, PTL DEF Spec
=============================================================================
