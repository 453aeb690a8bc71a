----------------------- MODULE EventProcessingProofs -----------------------
(***************************************************************************)
(* Proofs about EventProcessing, for any threads, captures, frames and     *)
(* sessions.                                                               *)
(***************************************************************************)
EXTENDS EventProcessing, TLAPS, FiniteSetTheorems, SequenceTheorems

-----------------------------------------------------------------------------
(* A call that returns leaves the calls it is nested in; one that goes on  *)
(* replaces itself.                                                        *)
LEMMA StackShape ==
    ASSUME NEW q \in Seq(CallRecord), q # <<>>
    PROVE  /\ Last(q) = q[Len(q)] /\ Last(q) \in CallRecord
           /\ Front(q) \in Seq(CallRecord)
           /\ Len(Front(q)) = Len(q) - 1
           /\ \A i \in 1..(Len(q) - 1) : Front(q)[i] = q[i]
<1>1. Len(q) \in Nat /\ Len(q) > 0  OBVIOUS
<1>2. Last(q) = q[Len(q)] /\ q[Len(q)] \in CallRecord  BY <1>1 DEF Last
<1>3. Front(q) \in Seq(CallRecord)  BY <1>1 DEF Front
<1>4. PICK n \in Nat : n = Len(q) - 1  BY <1>1
<1>5. Len(SubSeq(q, 1, Len(q) - 1)) = Len(q) - 1
  <2>1. \A i \in 1..n : q[i] \in CallRecord  BY <1>1, <1>4
  <2>2. Len(SubSeq(q, 1, n)) = IF 1 <= n THEN n - 1 + 1 ELSE 0  BY <2>1, SubSeqProperties
  <2>. QED BY <1>4, <2>2
<1>6. \A i \in 1..(Len(q) - 1) : Front(q)[i] = q[i]  BY <1>1 DEF Front
<1>. QED BY <1>2, <1>3, <1>5, <1>6 DEF Front

LEMMA ReplaceShape ==
    ASSUME NEW q \in Seq(CallRecord), q # <<>>, NEW c \in CallRecord
    PROVE  /\ Append(Front(q), c) \in Seq(CallRecord)
           /\ Len(Append(Front(q), c)) = Len(q)
           /\ Append(Front(q), c)[Len(q)] = c
           /\ \A i \in 1..(Len(q) - 1) : Append(Front(q), c)[i] = q[i]
<1>1. Len(q) \in Nat  OBVIOUS
<1>2. PICK p \in Seq(CallRecord) : p = Front(q)  BY StackShape
<1>3. Len(p) \in Nat /\ Len(p) = Len(q) - 1  BY <1>2, StackShape
<1>4. Len(Append(p, c)) = Len(p) + 1 /\ Append(p, c)[Len(p) + 1] = c
  OBVIOUS
<1>5. Len(p) + 1 = Len(q)  BY <1>1, <1>3
<1>6. Append(p, c) \in Seq(CallRecord)  OBVIOUS
<1>7. \A i \in 1..(Len(q) - 1) : Append(p, c)[i] = p[i]  BY <1>3
<1>8. \A i \in 1..(Len(q) - 1) : p[i] = q[i]  BY <1>2, StackShape
<1>. QED BY <1>2, <1>4, <1>5, <1>6, <1>7, <1>8

(* The calls in progress, as a set.                                        *)
InProgress == {c \in CallRecord : \E t \in Thread : \E i \in DOMAIN calls[t] : calls[t][i] = c}

LEMMA CallsInProgress ==
    ASSUME TypeOK, NEW t \in Thread
    PROVE  /\ \A i \in DOMAIN calls[t] : calls[t][i] \in InProgress
           /\ calls[t] # <<>> => Top(t) \in InProgress /\ Top(t) \in CallRecord
<1>1. calls[t] \in Seq(CallRecord)  BY DEF TypeOK
<1>2. \A i \in DOMAIN calls[t] : calls[t][i] \in CallRecord  BY <1>1
<1>3. \A i \in DOMAIN calls[t] : calls[t][i] \in InProgress  BY <1>2 DEF InProgress
<1>4. ASSUME calls[t] # <<>>  PROVE  Top(t) \in InProgress /\ Top(t) \in CallRecord
  <2>1. Last(calls[t]) = calls[t][Len(calls[t])] /\ Len(calls[t]) \in DOMAIN calls[t]
    BY <1>1, <1>4 DEF Last
  <2>. QED BY <1>2, <1>3, <2>1 DEF Top
<1>. QED BY <1>3, <1>4

(* What a step of a call does to the calls in progress.                    *)
LEMMA AfterBecome ==
    ASSUME TypeOK, NEW t \in Thread, calls[t] # <<>>, NEW c \in CallRecord, Become(t, c)
    PROVE  /\ calls' \in [Thread -> Seq(CallRecord)]
           /\ InProgress' \subseteq InProgress \cup {c}
<1>. DEFINE q == calls[t]
<1>1. q \in Seq(CallRecord) /\ calls \in [Thread -> Seq(CallRecord)]  BY DEF TypeOK
<1>2. /\ Append(Front(q), c) \in Seq(CallRecord)
      /\ \A i \in DOMAIN Append(Front(q), c) :
           \/ Append(Front(q), c)[i] = c
           \/ i \in DOMAIN q /\ Append(Front(q), c)[i] = q[i]
  <2>1. PICK p \in Seq(CallRecord) : p = Append(Front(q), c)  BY <1>1, ReplaceShape
  <2>2. Len(p) = Len(q) /\ p[Len(q)] = c /\ \A i \in 1..(Len(q) - 1) : p[i] = q[i]
    BY <1>1, <2>1, ReplaceShape
  <2>3. DOMAIN p = 1..Len(q) /\ DOMAIN q = 1..Len(q) /\ Len(q) \in Nat  BY <1>1, <2>2
  <2>4. \A i \in 1..Len(q) : i = Len(q) \/ i \in 1..(Len(q) - 1)  BY <2>3
  <2>. QED BY <2>1, <2>2, <2>3, <2>4
<1>3. calls' = [calls EXCEPT ![t] = Append(Front(q), c)]  BY DEF Become
<1>4. calls' \in [Thread -> Seq(CallRecord)]  BY <1>1, <1>2, <1>3
<1>5. ASSUME NEW u \in Thread, NEW i \in DOMAIN calls'[u]
      PROVE  calls'[u][i] = c \/ calls'[u][i] \in InProgress
  <2>1. CASE u = t
    <3>1. calls'[u] = Append(Front(q), c)  BY <1>1, <1>3, <2>1
    <3>. QED BY <1>2, <3>1, CallsInProgress
  <2>2. CASE u # t
    <3>1. calls'[u] = calls[u]  BY <1>1, <1>3, <2>2
    <3>. QED BY <3>1, CallsInProgress
  <2>. QED BY <2>1, <2>2
<1>. QED BY <1>4, <1>5 DEF InProgress

LEMMA AfterReturn ==
    ASSUME TypeOK, NEW t \in Thread, calls[t] # <<>>, Return(t)
    PROVE  /\ calls' \in [Thread -> Seq(CallRecord)]
           /\ InProgress' \subseteq InProgress
<1>. DEFINE q == calls[t]
<1>1. q \in Seq(CallRecord) /\ calls \in [Thread -> Seq(CallRecord)]  BY DEF TypeOK
<1>3. /\ Front(q) \in Seq(CallRecord)
      /\ \A i \in DOMAIN Front(q) : i \in DOMAIN q /\ Front(q)[i] = q[i]
  <2>1. PICK p \in Seq(CallRecord) : p = Front(q)  BY <1>1, StackShape
  <2>2. Len(p) = Len(q) - 1 /\ \A i \in 1..(Len(q) - 1) : p[i] = q[i]
    BY <1>1, <2>1, StackShape
  <2>3. DOMAIN p = 1..(Len(q) - 1) /\ DOMAIN q = 1..Len(q) /\ Len(q) \in Nat
    BY <1>1, <2>2
  <2>. QED BY <2>1, <2>2, <2>3
<1>4. calls' = [calls EXCEPT ![t] = Front(q)]  BY DEF Return
<1>5. calls' \in [Thread -> Seq(CallRecord)]  BY <1>1, <1>3, <1>4
<1>6. ASSUME NEW u \in Thread, NEW i \in DOMAIN calls'[u]
      PROVE  calls'[u][i] \in InProgress
  <2>1. CASE u = t
    <3>1. calls'[u] = Front(q)  BY <1>1, <1>4, <2>1
    <3>. QED BY <1>3, <3>1, CallsInProgress
  <2>2. CASE u # t
    <3>1. calls'[u] = calls[u]  BY <1>1, <1>4, <2>2
    <3>. QED BY <3>1, CallsInProgress
  <2>. QED BY <2>1, <2>2
<1>. QED BY <1>5, <1>6 DEF InProgress

(* The call that a capture starts.                                         *)
Fresh(t, kind, fatal) ==
    [kind |-> kind, fatal |-> fatal, session |-> session, began |-> begun + 1,
     processed |-> ShouldProceed(t, kind),
     at |-> IF kind = "managed" THEN frame ELSE None,
     wrote |-> {}, stage |-> FirstStage(t, kind)]

LEMMA AfterBegin ==
    ASSUME TypeOK, NEW t \in Thread, NEW kind \in Kind, NEW fatal \in BOOLEAN,
           session \in Session, Begin(t, kind, fatal)
    PROVE  /\ calls' \in [Thread -> Seq(CallRecord)]
           /\ calls' = [calls EXCEPT ![t] = Append(@, Fresh(t, kind, fatal))]
           /\ Fresh(t, kind, fatal) \in CallRecord
           /\ InProgress' \subseteq InProgress \cup {Fresh(t, kind, fatal)}
           /\ begun' = begun + 1
           /\ UNCHANGED <<engine, lastFrame, files>>
<1>. DEFINE c == Fresh(t, kind, fatal)
<1>1. /\ calls[t] \in Seq(CallRecord) /\ calls \in [Thread -> Seq(CallRecord)]
      /\ begun \in Nat /\ frame \in Nat
  BY DEF TypeOK
<1>2. c \in CallRecord
  <2>1. ShouldProceed(t, kind) \in BOOLEAN  BY DEF ShouldProceed
  <2>2. FirstStage(t, kind) \in Stage  BY DEF FirstStage, Stage
  <2>. QED BY <1>1, <2>1, <2>2 DEF Fresh, CallRecord
<1>3. calls' = [calls EXCEPT ![t] = Append(@, c)]  BY DEF Begin, Fresh
<1>. HIDE DEF c
<1>4. calls' \in [Thread -> Seq(CallRecord)]  BY <1>1, <1>2, <1>3
<1>5. ASSUME NEW u \in Thread, NEW i \in DOMAIN calls'[u]
      PROVE  calls'[u][i] = c \/ calls'[u][i] \in InProgress
  <2>1. CASE u = t
    <3>1. calls'[u] = Append(calls[t], c)  BY <1>1, <1>3, <2>1
    <3>2. \/ i \in DOMAIN calls[t] /\ calls'[u][i] = calls[t][i]
          \/ calls'[u][i] = c
      BY <1>1, <1>2, <3>1
    <3>. QED BY <3>2, CallsInProgress
  <2>2. CASE u # t
    <3>1. calls'[u] = calls[u]  BY <1>1, <1>3, <2>2
    <3>. QED BY <3>1, CallsInProgress
  <2>. QED BY <2>1, <2>2
<1>6. InProgress' \subseteq InProgress \cup {c}  BY <1>5 DEF InProgress
<1>7. begun' = begun + 1 /\ UNCHANGED <<engine, lastFrame, files>>  BY DEF Begin
<1>. QED BY <1>2, <1>3, <1>4, <1>6, <1>7 DEF c

-----------------------------------------------------------------------------
(* What holds of a call: it has seen no later frame and begun no later     *)
(* than the present ones, and once it has been through a processor, a file *)
(* that is older than the call is no longer there.                         *)
PastCheck == Stage \ {"enrich", "check"}
PastRemove == {"build_tree", "hook", "before_send", "attach"}

CallInv(c) ==
    /\ c.at <= frame /\ c.began <= begun
    /\ (c.stage \in PastCheck /\ shot.at # None) => shot.at >= c.at
    /\ (c.processed /\ c.stage \in PastRemove /\ tree.at # None) => tree.at >= c.began

(* The screenshot file is no older than any processor's last screenshot.   *)
FileInv ==
    /\ active => session \in Session
    /\ \A s \in Session : /\ lastFrame[s] <= frame
                          /\ shot.at # None => shot.at >= lastFrame[s]

IInv ==
    /\ TypeOK
    /\ FileInv
    /\ \A c \in InProgress : CallInv(c)

(* A call that goes on to another stage remains a call.                    *)
LEMMA NextStage ==
    ASSUME NEW c \in CallRecord, NEW x \in Stage
    PROVE  LET d == [c EXCEPT !.stage = x] IN
           /\ d \in CallRecord
           /\ d.stage = x /\ d.at = c.at /\ d.began = c.began /\ d.processed = c.processed
BY DEF CallRecord

(* A call changes, a file is removed or written, a frame is remembered:    *)
(* the other calls still see no older file, so only what is new is to be   *)
(* looked at.                                                              *)
LEMMA StepInv ==
    ASSUME IInv, UNCHANGED <<frame, session>>,
           begun' \in Nat, begun' >= begun,
           active' \in BOOLEAN, active' => active, crashed' \in BOOLEAN,
           shot' \in File, shot' \in {shot, NoFile} \/ shot'.at = frame,
           tree' \in File, tree' \in {tree, NoFile} \/ tree'.at = begun,
           lastFrame' \in [Session -> Nat \cup {None}],
           \A s \in Session :
              \/ lastFrame'[s] = lastFrame[s]
              \/ lastFrame'[s] <= frame /\ (shot'.at # None => shot'.at >= lastFrame'[s]),
           calls' \in [Thread -> Seq(CallRecord)],
           NEW c \in CallRecord, InProgress' \subseteq InProgress \cup {c}, CallInv(c)'
    PROVE  IInv'
<1>1. /\ TypeOK /\ FileInv /\ begun \in Nat /\ frame \in Nat
      /\ shot.at \in Nat \cup {None} /\ tree.at \in Nat \cup {None}
  BY DEF IInv, TypeOK, File
<1>2. TypeOK'  BY <1>1 DEF TypeOK
<1>3. \A n \in Int : (n <= frame /\ (shot.at # None => shot.at >= n))
                        => (shot'.at # None => shot'.at >= n)
  BY <1>1 DEF NoFile
<1>4. \A n \in Int : (n <= begun /\ (tree.at # None => tree.at >= n))
                        => (tree'.at # None => tree'.at >= n)
  BY <1>1 DEF NoFile
<1>5. FileInv'
  <2>1. \A s \in Session : lastFrame[s] \in Int  BY <1>1 DEF TypeOK, None
  <2>2. ASSUME NEW s \in Session
        PROVE  lastFrame'[s] <= frame /\ (shot'.at # None => shot'.at >= lastFrame'[s])
    <3>1. CASE lastFrame'[s] = lastFrame[s]  BY <1>1, <1>3, <2>1, <3>1 DEF FileInv
    <3>. QED BY <3>1
  <2>. QED BY <1>1, <2>2 DEF FileInv
<1>6. ASSUME NEW d \in InProgress  PROVE CallInv(d)'
  <2>1. CallInv(d) /\ d.at \in Int /\ d.began \in Int
    BY DEF IInv, InProgress, CallRecord, None
  <2>2. d.at <= frame' /\ d.began <= begun'  BY <1>1, <2>1 DEF CallInv
  <2>3. (d.stage \in PastCheck /\ shot'.at # None) => shot'.at >= d.at
    BY <1>3, <2>1 DEF CallInv
  <2>4. (d.processed /\ d.stage \in PastRemove /\ tree'.at # None) => tree'.at >= d.began
    BY <1>4, <2>1 DEF CallInv
  <2>. QED BY <2>2, <2>3, <2>4 DEF CallInv
<1>. QED BY <1>2, <1>5, <1>6 DEF IInv

(* The same for a call that goes on to another stage.                      *)
LEMMA GotoStep ==
    ASSUME IInv, NEW t \in Thread, calls[t] # <<>>, NEW x \in Stage, Goto(t, x),
           UNCHANGED <<engine, begun, crashed>>,
           shot' \in {shot, NoFile}, tree' \in {tree, NoFile},
           lastFrame' \in [Session -> Nat \cup {None}],
           \A s \in Session :
              \/ lastFrame'[s] = lastFrame[s]
              \/ lastFrame'[s] <= frame /\ (shot'.at # None => shot'.at >= lastFrame'[s]),
           (x \in PastCheck /\ shot'.at # None) => shot'.at >= Top(t).at,
           (Top(t).processed /\ x \in PastRemove /\ tree'.at # None) => tree'.at >= Top(t).began
    PROVE  IInv'
<1>1. TypeOK /\ Top(t) \in CallRecord /\ CallInv(Top(t))  BY CallsInProgress DEF IInv
<1>2. PICK c \in CallRecord : /\ c = [Top(t) EXCEPT !.stage = x] /\ c.stage = x
                              /\ c.at = Top(t).at /\ c.began = Top(t).began
                              /\ c.processed = Top(t).processed
  BY <1>1, NextStage
<1>3. Become(t, c)  BY <1>2 DEF Goto
<1>4. calls' \in [Thread -> Seq(CallRecord)] /\ InProgress' \subseteq InProgress \cup {c}
  BY <1>1, <1>3, AfterBecome
<1>5. /\ UNCHANGED <<frame, session, begun, active, crashed>>
      /\ begun \in Nat /\ active \in BOOLEAN /\ crashed \in BOOLEAN
      /\ shot' \in File /\ tree' \in File
  BY <1>1 DEF engine, TypeOK, File, NoFile
<1>6. CallInv(c)'  BY <1>1, <1>2, <1>5 DEF CallInv
<1>7. begun' \in Nat /\ begun' >= begun /\ active' \in BOOLEAN /\ crashed' \in BOOLEAN
      /\ (active' => active)
  BY <1>5
<1>. HIDE DEF IInv
<1>. QED BY <1>4, <1>5, <1>6, <1>7, StepInv

LEMMA ReturnStep ==
    ASSUME IInv, NEW t \in Thread, calls[t] # <<>>, Return(t),
           UNCHANGED <<engine, lastFrame, files, begun, crashed>>
    PROVE  IInv'
<1>1. TypeOK /\ Top(t) \in CallRecord /\ CallInv(Top(t))  BY CallsInProgress DEF IInv
<1>2. calls' \in [Thread -> Seq(CallRecord)] /\ InProgress' \subseteq InProgress
  BY <1>1, AfterReturn
<1>3. UNCHANGED <<frame, session, lastFrame, shot, tree, begun, active, crashed>>
  BY DEF engine, files
<1>4. TypeOK'  BY <1>1, <1>2, <1>3 DEF TypeOK
<1>5. FileInv'  BY <1>3 DEF IInv, FileInv
<1>6. \A d \in InProgress' : CallInv(d)'  BY <1>2, <1>3 DEF IInv, CallInv
<1>. QED BY <1>4, <1>5, <1>6 DEF IInv

(* Reading the frame number.                                               *)
LEMMA EnrichStep ==
    ASSUME IInv, NEW t \in Thread, Enrich(t)
    PROVE  IInv'
<1>1. TypeOK /\ calls[t] # <<>>  BY DEF IInv, Enrich, At
<1>2. Top(t) \in CallRecord /\ CallInv(Top(t))  BY <1>1, CallsInProgress DEF IInv
<1>3. /\ frame \in Nat /\ begun \in Nat /\ active \in BOOLEAN /\ crashed \in BOOLEAN
      /\ shot \in File /\ tree \in File /\ lastFrame \in [Session -> Nat \cup {None}]
  BY <1>1 DEF TypeOK
<1>. DEFINE d == [Top(t) EXCEPT !.stage = "check", !.at = frame]
<1>4. d \in CallRecord /\ d.stage = "check" /\ d.at = frame /\ d.began = Top(t).began
  BY <1>2, <1>3 DEF CallRecord, Stage
<1>5. Become(t, d)  BY DEF Enrich
<1>. HIDE DEF d
<1>6. PICK c \in CallRecord : c = d  BY <1>4
<1>7. calls' \in [Thread -> Seq(CallRecord)] /\ InProgress' \subseteq InProgress \cup {c}
  BY <1>1, <1>4, <1>5, <1>6, AfterBecome
<1>8. UNCHANGED <<frame, session, lastFrame, shot, tree, begun, active, crashed>>
  BY DEF Enrich, engine, files
<1>9. CallInv(c)'
  BY <1>2, <1>3, <1>4, <1>6, <1>8 DEF CallInv, PastCheck, PastRemove
<1>10. begun' \in Nat /\ begun' >= begun  BY <1>3, <1>8
<1>. QED BY <1>3, <1>4, <1>6, <1>7, <1>8, <1>9, <1>10, StepInv

(* The screenshot stays only if it shows the frame of the call.            *)
LEMMA CheckStep ==
    ASSUME IInv, NEW t \in Thread, CheckFrame(t)
    PROVE  IInv'
<1>1. /\ TypeOK /\ calls[t] # <<>>
      /\ tree' = tree /\ lastFrame' = lastFrame /\ lastFrame \in [Session -> Nat \cup {None}]
  BY DEF IInv, TypeOK, CheckFrame, At
<1>2. Top(t) \in CallRecord  BY <1>1, CallsInProgress
<1>3. Top(t).session \in Session  BY <1>2 DEF CallRecord
<1>. DEFINE done == Top(t).at = lastFrame[Top(t).session]
            x == IF ~done /\ WantsScreenshot(t) THEN "ask" ELSE "remove_tree"
<1>4. /\ shot' = IF done THEN shot ELSE NoFile
      /\ Goto(t, x)
      /\ UNCHANGED <<engine, begun, crashed>>
  BY DEF CheckFrame
<1>5. x \in Stage /\ x \notin PastRemove  BY DEF Stage, PastRemove
<1>6. shot'.at # None => done /\ shot' = shot  BY <1>4 DEF NoFile
<1>7. (shot'.at # None) => shot'.at >= Top(t).at
  <2>1. HAVE shot'.at # None
  <2>2. shot.at >= lastFrame[Top(t).session]  BY <1>3, <1>6, <2>1 DEF IInv, FileInv
  <2>. QED BY <1>6, <2>1, <2>2
<1>8. shot' \in {shot, NoFile}  BY <1>4
<1>. HIDE DEF x, done
<1>. QED BY <1>1, <1>4, <1>5, <1>7, <1>8, GotoStep

(* A processor remembers no frame that is newer than the file.             *)
LEMMA MarkStep ==
    ASSUME IInv, NEW t \in Thread, MarkFrame(t)
    PROVE  IInv'
<1>1. /\ TypeOK /\ calls[t] # <<>> /\ Top(t).stage = "mark"
      /\ Goto(t, "take") /\ UNCHANGED <<engine, begun, crashed>>
      /\ tree' = tree /\ shot' = shot
      /\ lastFrame' = [lastFrame EXCEPT ![Top(t).session] = Top(t).at]
  BY DEF IInv, MarkFrame, At, files
<1>2. Top(t) \in CallRecord /\ CallInv(Top(t))  BY <1>1, CallsInProgress DEF IInv
<1>3. Top(t).session \in Session /\ Top(t).at \in Nat \cup {None}  BY <1>2 DEF CallRecord
<1>4. Top(t).at <= frame /\ (shot.at # None => shot.at >= Top(t).at)
  BY <1>1, <1>2 DEF CallInv, PastCheck, Stage
<1>5. lastFrame \in [Session -> Nat \cup {None}]  BY <1>1 DEF TypeOK
<1>6. lastFrame' \in [Session -> Nat \cup {None}]  BY <1>1, <1>3, <1>5
<1>7. \A s \in Session :
        \/ lastFrame'[s] = lastFrame[s]
        \/ lastFrame'[s] <= frame /\ (shot'.at # None => shot'.at >= lastFrame'[s])
  BY <1>1, <1>4, <1>5
<1>8. "take" \in Stage /\ "take" \notin PastRemove  BY DEF Stage, PastRemove
<1>. QED BY <1>1, <1>4, <1>6, <1>7, <1>8, GotoStep

(* A file that is written now is older than nothing.                       *)
LEMMA TakeStep ==
    ASSUME IInv, NEW t \in Thread, NEW opened \in BOOLEAN, TakeScreenshot(t, opened)
    PROVE  IInv'
<1>1. /\ TypeOK /\ calls[t] # <<>> /\ Top(t).stage = "take"
      /\ UNCHANGED <<frame, session, active, lastFrame, tree, begun, crashed>>
      /\ shot' = IF opened THEN [at |-> frame, session |-> session] ELSE shot
  BY DEF IInv, TakeScreenshot, At, engine
<1>2. Top(t) \in CallRecord /\ CallInv(Top(t))  BY <1>1, CallsInProgress DEF IInv
<1>3. /\ frame \in Nat /\ begun \in Nat /\ active \in BOOLEAN /\ crashed \in BOOLEAN
      /\ shot \in File /\ tree \in File /\ lastFrame \in [Session -> Nat \cup {None}]
      /\ session \in Nat
  BY <1>1, ProcessingAssumption DEF TypeOK
<1>. DEFINE d == [Top(t) EXCEPT !.stage = "remove_tree",
                                !.wrote = IF opened THEN @ \cup {"shot"} ELSE @]
<1>4. d \in CallRecord /\ d.stage = "remove_tree" /\ d.at = Top(t).at /\ d.began = Top(t).began
  BY <1>2 DEF CallRecord, Stage
<1>5. Become(t, d)  BY DEF TakeScreenshot
<1>. HIDE DEF d
<1>6. PICK c \in CallRecord : c = d  BY <1>4
<1>7. calls' \in [Thread -> Seq(CallRecord)] /\ InProgress' \subseteq InProgress \cup {c}
  BY <1>1, <1>4, <1>5, <1>6, AfterBecome
<1>8. shot' \in File /\ (shot' \in {shot, NoFile} \/ shot'.at = frame)
  BY <1>1, <1>3 DEF File
<1>9. shot'.at # None => shot'.at >= c.at
  <2>1. CASE opened  BY <1>1, <1>2, <1>3, <1>4, <1>6, <2>1 DEF CallInv
  <2>2. CASE ~opened
    BY <1>1, <1>2, <1>4, <1>6, <2>2 DEF CallInv, PastCheck, Stage
  <2>. QED BY <2>1, <2>2
<1>10. CallInv(c)'  BY <1>1, <1>2, <1>4, <1>6, <1>9 DEF CallInv, PastRemove
<1>11. begun' \in Nat /\ begun' >= begun  BY <1>1, <1>3
<1>. QED BY <1>1, <1>3, <1>4, <1>6, <1>7, <1>8, <1>10, <1>11, StepInv

LEMMA RemoveTreeStep ==
    ASSUME IInv, NEW t \in Thread, RemoveTree(t)
    PROVE  IInv'
<1>. DEFINE x == IF t = Main THEN "build_tree" ELSE AfterTree(t)
<1>1. /\ TypeOK /\ calls[t] # <<>> /\ Top(t).stage = "remove_tree"
      /\ Goto(t, x) /\ UNCHANGED <<engine, begun, crashed>>
      /\ tree' = NoFile /\ shot' = shot /\ lastFrame' = lastFrame
  BY DEF IInv, RemoveTree, At
<1>2. x \in Stage  BY DEF Stage, AfterTree
<1>3. Top(t) \in CallRecord /\ CallInv(Top(t))  BY <1>1, CallsInProgress DEF IInv
<1>4. (x \in PastCheck /\ shot'.at # None) => shot'.at >= Top(t).at
  BY <1>1, <1>3 DEF CallInv, PastCheck, Stage
<1>5. lastFrame \in [Session -> Nat \cup {None}]  BY <1>1 DEF TypeOK
<1>6. tree'.at = None  BY <1>1 DEF NoFile
<1>. HIDE DEF x
<1>. QED BY <1>1, <1>2, <1>4, <1>5, <1>6, GotoStep

LEMMA BuildTreeStep ==
    ASSUME IInv, NEW t \in Thread, NEW opened \in BOOLEAN, BuildTree(t, opened)
    PROVE  IInv'
<1>1. /\ TypeOK /\ calls[t] # <<>> /\ Top(t).stage = "build_tree"
      /\ UNCHANGED <<frame, session, active, lastFrame, shot, begun, crashed>>
      /\ tree' = IF opened THEN [at |-> begun, session |-> session] ELSE tree
  BY DEF IInv, BuildTree, At, engine
<1>2. Top(t) \in CallRecord /\ CallInv(Top(t))  BY <1>1, CallsInProgress DEF IInv
<1>3. /\ frame \in Nat /\ begun \in Nat /\ active \in BOOLEAN /\ crashed \in BOOLEAN
      /\ shot \in File /\ tree \in File /\ lastFrame \in [Session -> Nat \cup {None}]
      /\ session \in Nat
  BY <1>1, ProcessingAssumption DEF TypeOK
<1>. DEFINE d == [Top(t) EXCEPT !.stage = AfterTree(t),
                                !.wrote = IF opened THEN @ \cup {"tree"} ELSE @]
<1>4. /\ d \in CallRecord /\ d.stage \in {"hook", "attach"} /\ d.at = Top(t).at /\ d.began = Top(t).began
      /\ d.processed = Top(t).processed
  BY <1>2 DEF CallRecord, Stage, AfterTree
<1>5. Become(t, d)  BY DEF BuildTree
<1>. HIDE DEF d
<1>6. PICK c \in CallRecord : c = d  BY <1>4
<1>7. calls' \in [Thread -> Seq(CallRecord)] /\ InProgress' \subseteq InProgress \cup {c}
  BY <1>1, <1>4, <1>5, <1>6, AfterBecome
<1>8. tree' \in File /\ (tree' \in {tree, NoFile} \/ tree'.at = begun)
  BY <1>1, <1>3 DEF File
<1>9. (c.processed /\ tree'.at # None) => tree'.at >= c.began
  <2>1. CASE opened  BY <1>1, <1>2, <1>3, <1>4, <1>6, <2>1 DEF CallInv
  <2>2. CASE ~opened
    BY <1>1, <1>2, <1>4, <1>6, <2>2 DEF CallInv, PastRemove
  <2>. QED BY <2>1, <2>2
<1>10. CallInv(c)'  BY <1>1, <1>2, <1>4, <1>6, <1>9 DEF CallInv, PastCheck, Stage
<1>11. begun' \in Nat /\ begun' >= begun  BY <1>1, <1>3
<1>. QED BY <1>1, <1>3, <1>4, <1>6, <1>7, <1>8, <1>10, <1>11, StepInv

(* The steps that change neither a file nor what a processor remembers.    *)
LEMMA QuietGoto ==
    ASSUME IInv, NEW t \in Thread, calls[t] # <<>>, NEW x \in Stage, Goto(t, x),
           UNCHANGED <<engine, lastFrame, files, begun, crashed>>,
           Top(t).stage \in PastCheck,
           x \in PastRemove => Top(t).stage \in PastRemove
    PROVE  IInv'
<1>1. TypeOK /\ Top(t) \in CallRecord /\ CallInv(Top(t))  BY CallsInProgress DEF IInv
<1>2. lastFrame \in [Session -> Nat \cup {None}]  BY <1>1 DEF TypeOK
<1>3. lastFrame' = lastFrame /\ shot' = shot /\ tree' = tree  BY DEF files
<1>4. (x \in PastCheck /\ shot'.at # None) => shot'.at >= Top(t).at
  BY <1>1, <1>3 DEF CallInv
<1>5. (Top(t).processed /\ x \in PastRemove /\ tree'.at # None) => tree'.at >= Top(t).began
  BY <1>1, <1>3 DEF CallInv
<1>6. UNCHANGED <<engine, begun, crashed>>  OBVIOUS
<1>. HIDE DEF IInv
<1>. QED BY <1>2, <1>3, <1>4, <1>5, <1>6, GotoStep

(* A capture starts with nothing seen; a nested one is sent unprocessed.   *)
LEMMA BeginStep ==
    ASSUME IInv, NEW t \in Thread, NEW kind \in Kind, NEW fatal \in BOOLEAN,
           active, Begin(t, kind, fatal), crashed' \in BOOLEAN
    PROVE  IInv'
<1>1. /\ TypeOK /\ FileInv /\ session \in Session /\ begun \in Nat /\ frame \in Nat
      /\ active \in BOOLEAN /\ shot \in File /\ tree \in File
      /\ lastFrame \in [Session -> Nat \cup {None}]
  BY DEF IInv, FileInv, TypeOK
<1>2. PICK c \in CallRecord : c = Fresh(t, kind, fatal)  BY <1>1, AfterBegin
<1>3. /\ calls' \in [Thread -> Seq(CallRecord)]
      /\ InProgress' \subseteq InProgress \cup {c}
      /\ begun' = begun + 1
      /\ UNCHANGED <<frame, session, active, lastFrame, shot, tree>>
  BY <1>1, <1>2, AfterBegin DEF engine, files
<1>4. /\ c.at \in {frame, None} /\ c.began = begun + 1
      /\ c.stage \in PastCheck => c.at = None
      /\ c.processed => c.stage \in {"enrich", "check"}
  BY <1>2 DEF Fresh, FirstStage, PastCheck, Stage, ShouldProceed
<1>5. shot.at \in Nat \cup {None}  BY <1>1 DEF File
<1>6. c.at <= frame' /\ c.began <= begun'  BY <1>1, <1>3, <1>4 DEF None
<1>7. (c.stage \in PastCheck /\ shot'.at # None) => shot'.at >= c.at  BY <1>3, <1>4, <1>5 DEF None
<1>8. ~(c.processed /\ c.stage \in PastRemove)  BY <1>4 DEF PastRemove
<1>9. CallInv(c)'  BY <1>6, <1>7, <1>8 DEF CallInv
<1>10. begun' \in Nat /\ begun' >= begun /\ active' \in BOOLEAN /\ (active' => active)
  BY <1>1, <1>3
<1>. HIDE DEF IInv
<1>. QED BY <1>1, <1>3, <1>9, <1>10, StepInv

(* Every step of every thread keeps the invariant.                         *)
LEMMA ProcessStep ==
    ASSUME IInv, NEW t \in Thread, Process(t)
    PROVE  IInv'
<1>1. CASE Enrich(t)  BY <1>1, EnrichStep
<1>2. CASE CheckFrame(t)  BY <1>2, CheckStep
<1>3. CASE \E allow \in BOOLEAN : AskScreenshot(t, allow)
  <2>1. PICK allow \in BOOLEAN : AskScreenshot(t, allow)  BY <1>3
  <2>. DEFINE x == IF allow THEN "mark" ELSE "remove_tree"
  <2>2. /\ calls[t] # <<>> /\ Top(t).stage = "ask" /\ Goto(t, x)
        /\ UNCHANGED <<engine, lastFrame, files, begun, crashed>>
    BY <2>1 DEF AskScreenshot, At
  <2>3. x \in Stage /\ x \notin PastRemove /\ "ask" \in PastCheck
    BY DEF Stage, PastRemove, PastCheck
  <2>. HIDE DEF x
  <2>. QED BY <2>2, <2>3, QuietGoto
<1>4. CASE MarkFrame(t)  BY <1>4, MarkStep
<1>5. CASE \E opened \in {TRUE, ~MayFail} : TakeScreenshot(t, opened)
  BY <1>5, TakeStep, ProcessingAssumption
<1>6. CASE RemoveTree(t)  BY <1>6, RemoveTreeStep
<1>7. CASE \E opened \in {TRUE, ~MayFail} : BuildTree(t, opened)
  BY <1>7, BuildTreeStep, ProcessingAssumption
<1>8. CASE \E keep \in BOOLEAN : ManagedHook(t, keep)
  <2>1. /\ calls[t] # <<>> /\ Top(t).stage = "hook"
        /\ Goto(t, "before_send") \/ Return(t)
        /\ UNCHANGED <<engine, lastFrame, files, begun, crashed>>
    BY <1>8 DEF ManagedHook, At
  <2>2. "before_send" \in Stage /\ "hook" \in PastCheck /\ "hook" \in PastRemove
    BY DEF Stage, PastRemove, PastCheck
  <2>. QED BY <2>1, <2>2, QuietGoto, ReturnStep
<1>9. CASE \E keep \in BOOLEAN : BeforeSend(t, keep)
  <2>1. /\ calls[t] # <<>> /\ Top(t).stage = "before_send"
        /\ Goto(t, "attach") \/ Return(t)
        /\ UNCHANGED <<engine, lastFrame, files, begun, crashed>>
    BY <1>9 DEF BeforeSend, At
  <2>2. "attach" \in Stage /\ "before_send" \in PastCheck /\ "before_send" \in PastRemove
    BY DEF Stage, PastRemove, PastCheck
  <2>. QED BY <2>1, <2>2, QuietGoto, ReturnStep
<1>10. CASE Attach(t)
  <2>1. /\ calls[t] # <<>> /\ Return(t)
        /\ UNCHANGED <<engine, lastFrame, files, begun, crashed>>
    BY <1>10 DEF Attach, At
  <2>. QED BY <2>1, ReturnStep
<1>. QED
  BY <1>1, <1>2, <1>3, <1>4, <1>5, <1>6, <1>7, <1>8, <1>9, <1>10 DEF Process

LEMMA InitialInv == Init => IInv
<1>. SUFFICES ASSUME Init PROVE IInv  OBVIOUS
<1>1. TypeOK
  <2>1. shot \in File /\ tree \in File  BY DEF Init, File, NoFile, PreviousRun, None
  <2>2. frame \in Nat /\ begun \in Nat /\ session \in 0..MaxSession
    BY ProcessingAssumption DEF Init
  <2>3. lastFrame \in [Session -> Nat \cup {None}]  BY DEF Init
  <2>4. calls \in [Thread -> Seq(CallRecord)]  BY DEF Init
  <2>5. {active, crashed} \subseteq BOOLEAN  BY DEF Init
  <2>. QED BY <2>1, <2>2, <2>3, <2>4, <2>5 DEF TypeOK
<1>2. InProgress = {}  BY DEF Init, InProgress
<1>3. FileInv
  BY DEF Init, FileInv, NoFile, PreviousRun, None
<1>. QED BY <1>1, <1>2, <1>3 DEF IInv

LEMMA StepKeepsInv == IInv /\ [Next]_vars => IInv'
<1>. SUFFICES ASSUME IInv, [Next]_vars PROVE IInv'  OBVIOUS
<1>1. /\ TypeOK /\ frame \in Nat /\ session \in 0..MaxSession /\ active \in BOOLEAN
      /\ lastFrame \in [Session -> Nat \cup {None}] /\ shot \in File /\ tree \in File
  BY DEF IInv, TypeOK
<1>2. CASE InitSdk
  <2>1. /\ session' = session + 1 /\ session < MaxSession /\ shot' = NoFile /\ tree' = NoFile
        /\ active' = TRUE /\ UNCHANGED <<frame, lastFrame, begun, calls, crashed>>
    BY <1>2 DEF InitSdk
  <2>2. MaxSession \in Nat  BY ProcessingAssumption
  <2>3. session' \in Session /\ session' \in 0..MaxSession  BY <1>1, <2>1, <2>2 DEF Session
  <2>4. NoFile \in File /\ NoFile.at = None  BY DEF NoFile, File, None
  <2>5. TypeOK'  BY <1>1, <2>1, <2>3, <2>4 DEF TypeOK
  <2>6. FileInv'  BY <2>1, <2>3, <2>4 DEF IInv, FileInv
  <2>7. InProgress' = InProgress  BY <2>1 DEF InProgress
  <2>8. \A c \in InProgress' : CallInv(c)'  BY <2>1, <2>4, <2>7 DEF IInv, CallInv
  <2>. QED BY <2>5, <2>6, <2>8 DEF IInv
<1>3. CASE CloseSdk
  <2>1. InProgress' = InProgress  BY <1>3 DEF InProgress, CloseSdk
  <2>. QED BY <1>3, <2>1 DEF IInv, TypeOK, FileInv, CallInv, CloseSdk, files
<1>4. CASE DrawFrame
  <2>1. frame' = frame + 1 /\ UNCHANGED <<session, active, lastFrame, shot, tree, begun, calls, crashed>>
    BY <1>4 DEF DrawFrame, files
  <2>2. TypeOK'  BY <1>1, <2>1 DEF TypeOK
  <2>3. FileInv'
    <3>1. \A s \in Session : lastFrame[s] \in Int  BY <1>1 DEF None
    <3>. QED BY <1>1, <2>1, <3>1 DEF IInv, FileInv
  <2>4. InProgress' = InProgress  BY <2>1 DEF InProgress
  <2>5. \A c \in InProgress : c.at \in Int  BY DEF InProgress, CallRecord, None
  <2>6. \A c \in InProgress' : CallInv(c)'  BY <1>1, <2>1, <2>4, <2>5 DEF IInv, CallInv
  <2>. QED BY <2>2, <2>3, <2>6 DEF IInv
<1>5. ASSUME NEW t \in Thread, NEW kind \in Kind \ {"crash"}, NEW fatal \in BOOLEAN,
             Capture(t, kind, fatal)
      PROVE  IInv'
  <2>1. active /\ Begin(t, kind, fatal) /\ crashed' = crashed  BY <1>5 DEF Capture
  <2>2. kind \in Kind /\ crashed' \in BOOLEAN  BY <1>1, <2>1 DEF Kind, TypeOK
  <2>. QED BY <2>1, <2>2, BeginStep
<1>6. ASSUME NEW t \in Thread, Crash(t)  PROVE IInv'
  <2>1. active /\ Begin(t, "crash", TRUE) /\ crashed' = TRUE  BY <1>6 DEF Crash
  <2>2. "crash" \in Kind /\ crashed' \in BOOLEAN  BY <2>1 DEF Kind
  <2>. QED BY <2>1, <2>2, BeginStep
<1>7. ASSUME NEW t \in Thread, Process(t)  PROVE IInv'
  BY <1>7, ProcessStep
<1>8. CASE UNCHANGED vars
  <2>1. InProgress' = InProgress  BY <1>8 DEF InProgress, vars
  <2>. QED BY <1>8, <2>1 DEF IInv, TypeOK, FileInv, CallInv, vars, engine, files
<1>. QED BY <1>2, <1>3, <1>4, <1>5, <1>6, <1>7, <1>8 DEF Next

(* The variables keep their types, and the invariant holds.                *)
THEOREM TypeCorrect == Spec => []TypeOK
<1>1. IInv => TypeOK  BY DEF IInv
<1>. QED BY <1>1, InitialInv, StepKeepsInv, PTL DEF Spec

LEMMA InvHolds == Spec => []IInv
BY InitialInv, StepKeepsInv, PTL DEF Spec

(* A screenshot that is sent with a processed event shows no frame older   *)
(* than the one the event was processed in.                                *)
THEOREM Screenshot_Current == Spec => []ScreenshotCurrent
<1>1. IInv => ScreenshotCurrent
  <2>. SUFFICES ASSUME IInv, NEW t \in Thread, Sent(t), shot.at # None
                PROVE  shot.at >= Top(t).at
    BY DEF ScreenshotCurrent
  <2>1. calls[t] # <<>> /\ Top(t).stage = "attach"  BY DEF Sent, At
  <2>2. CallInv(Top(t))  BY <2>1, CallsInProgress DEF IInv
  <2>. QED BY <2>1, <2>2 DEF CallInv, PastCheck, Stage
<1>. QED BY <1>1, InvHolds, PTL

(* A scene tree that is sent with a processed event was written after the  *)
(* event began, whatever other threads remove and write meanwhile.         *)
THEOREM Tree_Current == Spec => []TreeCurrent
<1>1. IInv => TreeCurrent
  <2>. SUFFICES ASSUME IInv, NEW t \in Thread, Sent(t), tree.at # None
                PROVE  tree.at >= Top(t).began
    BY DEF TreeCurrent
  <2>1. calls[t] # <<>> /\ Top(t).stage = "attach" /\ Top(t).processed  BY DEF Sent, At
  <2>2. CallInv(Top(t))  BY <2>1, CallsInProgress DEF IInv
  <2>. QED BY <2>1, <2>2 DEF CallInv, PastRemove
<1>. QED BY <1>1, InvHolds, PTL

-----------------------------------------------------------------------------
LEMMA WritesNow ==
    ASSUME NothingLeftOver, NEW t \in Thread, Process(t)
    PROVE  NothingLeftOver'
<1>. DEFINE Now(file) == file.at # None => file.session = session
<1>1. UNCHANGED <<session, active>> /\ (active => Now(shot) /\ Now(tree))
  BY DEF NothingLeftOver, Process, Enrich, CheckFrame, AskScreenshot, MarkFrame,
         TakeScreenshot, RemoveTree, BuildTree, ManagedHook, BeforeSend, Attach, engine
<1>2. Now(NoFile)  BY DEF NoFile
<1>3. shot' \in {shot, NoFile} \/ shot'.session = session
  BY DEF Process, Enrich, CheckFrame, AskScreenshot, MarkFrame,
         TakeScreenshot, RemoveTree, BuildTree, ManagedHook, BeforeSend, Attach, files
<1>4. tree' \in {tree, NoFile} \/ tree'.session = session
  BY DEF Process, Enrich, CheckFrame, AskScreenshot, MarkFrame,
         TakeScreenshot, RemoveTree, BuildTree, ManagedHook, BeforeSend, Attach, files
<1>. QED BY <1>1, <1>2, <1>3, <1>4 DEF NothingLeftOver

(* Files of earlier sessions and runs are gone when a session is active,   *)
(* and threads that are left over from one do not bring them back.         *)
THEOREM Nothing_LeftOver == Spec => []NothingLeftOver
<1>1. Init => NothingLeftOver  BY DEF Init, NothingLeftOver
<1>2. NothingLeftOver /\ [Next]_vars => NothingLeftOver'
  <2>. SUFFICES ASSUME NothingLeftOver, [Next]_vars PROVE NothingLeftOver'  OBVIOUS
  <2>1. CASE InitSdk  BY <2>1 DEF InitSdk, NothingLeftOver, NoFile
  <2>2. CASE CloseSdk  BY <2>2 DEF CloseSdk, NothingLeftOver
  <2>3. CASE \E t \in Thread : Process(t)  BY <2>3, WritesNow
  <2>4. CASE UNCHANGED <<session, active, files>>
    BY <2>4 DEF NothingLeftOver, files
  <2>. QED
    BY <2>1, <2>2, <2>3, <2>4 DEF Next, DrawFrame, Capture, Crash, Begin, engine, vars
<1>. QED BY <1>1, <1>2, PTL DEF Spec

-----------------------------------------------------------------------------
(* At most one call on a stack is in the hook for each guarded counter.    *)
InHook(c) == c.processed /\ c.stage # "attach"

OnceIn(q) ==
    \A i, j \in DOMAIN q :
        (/\ InHook(q[i]) /\ InHook(q[j])
         /\ Counter(q[i].kind) = Counter(q[j].kind) /\ q[i].kind # "managed") => i = j

LEMMA OncePop ==
    ASSUME NEW q \in Seq(CallRecord), q # <<>>, OnceIn(q)
    PROVE  OnceIn(Front(q))
<1>1. PICK p \in Seq(CallRecord) : p = Front(q)  BY StackShape
<1>2. Len(p) = Len(q) - 1 /\ \A i \in 1..(Len(q) - 1) : p[i] = q[i]  BY <1>1, StackShape
<1>3. DOMAIN p = 1..(Len(q) - 1) /\ DOMAIN q = 1..Len(q) /\ Len(q) \in Nat  BY <1>2
<1>4. \A i \in DOMAIN p : i \in DOMAIN q /\ p[i] = q[i]  BY <1>2, <1>3
<1>. QED BY <1>1, <1>4 DEF OnceIn

LEMMA OnceReplace ==
    ASSUME NEW q \in Seq(CallRecord), q # <<>>, OnceIn(q), NEW c \in CallRecord,
           c.kind = Last(q).kind, InHook(c) => InHook(Last(q))
    PROVE  OnceIn(Append(Front(q), c))
<1>1. PICK p \in Seq(CallRecord) : p = Append(Front(q), c)  BY ReplaceShape
<1>2. Len(p) = Len(q) /\ p[Len(q)] = c /\ \A i \in 1..(Len(q) - 1) : p[i] = q[i]
  BY <1>1, ReplaceShape
<1>3. DOMAIN p = 1..Len(q) /\ DOMAIN q = 1..Len(q) /\ Len(q) \in Nat  BY <1>2
<1>4. Len(q) \in Nat /\ \A i \in 1..Len(q) : i = Len(q) \/ i \in 1..(Len(q) - 1)
  <2>1. ASSUME NEW n \in Nat, NEW i \in 1..n  PROVE i = n \/ i \in 1..(n - 1)  OBVIOUS
  <2>. QED BY <1>3, <2>1
<1>5. c.kind = q[Len(q)].kind /\ (InHook(c) => InHook(q[Len(q)]))  BY StackShape
<1>6. \A i \in DOMAIN p : p[i].kind = q[i].kind /\ (InHook(p[i]) => InHook(q[i]))
  BY <1>2, <1>3, <1>4, <1>5
<1>. QED BY <1>1, <1>3, <1>6 DEF OnceIn

LEMMA OncePush ==
    ASSUME NEW q \in Seq(CallRecord), OnceIn(q), NEW c \in CallRecord,
           (c.processed /\ c.kind # "managed") =>
               \A i \in DOMAIN q : Counter(q[i].kind) = Counter(c.kind) => q[i].stage = "attach"
    PROVE  OnceIn(Append(q, c))
<1>1. Len(q) \in Nat /\ DOMAIN q = 1..Len(q)  OBVIOUS
<1>2. PICK p \in Seq(CallRecord) : p = Append(q, c)  BY AppendProperties
<1>3. Len(p) = Len(q) + 1 /\ p[Len(q) + 1] = c /\ \A i \in 1..Len(q) : p[i] = q[i]
  BY <1>2
<1>4. DOMAIN p = 1..(Len(q) + 1)  BY <1>3
<1>5. \A i \in DOMAIN p : \/ i = Len(q) + 1 /\ p[i] = c
                          \/ i \in DOMAIN q /\ p[i] = q[i]
  BY <1>1, <1>3, <1>4
<1>6. OnceIn(p)
  <2>. SUFFICES ASSUME NEW i \in DOMAIN p, NEW j \in DOMAIN p, InHook(p[i]), InHook(p[j]),
                       Counter(p[i].kind) = Counter(p[j].kind), p[i].kind # "managed"
                PROVE  i = j
    BY DEF OnceIn
  <2>1. p[j].kind # "managed"  BY DEF Counter
  <2>. QED BY <1>5, <2>1 DEF OnceIn, InHook
<1>. QED BY <1>2, <1>6

(* A call is what it was when it began, and ends from its last stage.      *)
LEMMA SameCall ==
    ASSUME TypeOK, NEW t \in Thread, Process(t)
    PROVE  /\ calls[t] # <<>>
           /\ \/ Return(t)
              \/ /\ Top(t).stage # "attach"
                 /\ \E c \in CallRecord : /\ Become(t, c)
                                          /\ c.kind = Top(t).kind
                                          /\ c.processed = Top(t).processed
<1>1. calls[t] # <<>>
  BY DEF Process, Enrich, CheckFrame, AskScreenshot, MarkFrame, TakeScreenshot,
         RemoveTree, BuildTree, ManagedHook, BeforeSend, Attach, At
<1>2. Top(t) \in CallRecord  BY <1>1, CallsInProgress
<1>3. frame \in Nat  BY DEF TypeOK
<1>4. ASSUME NEW x \in Stage, Goto(t, x)
      PROVE  \E c \in CallRecord : /\ Become(t, c)
                                   /\ c.kind = Top(t).kind
                                   /\ c.processed = Top(t).processed
  <2>. DEFINE d == [Top(t) EXCEPT !.stage = x]
  <2>1. d \in CallRecord /\ d.kind = Top(t).kind /\ d.processed = Top(t).processed
    BY <1>2 DEF CallRecord
  <2>2. Become(t, d)  BY <1>4 DEF Goto
  <2>. QED BY <2>1, <2>2
<1>5. Enrich(t) \/ (\E opened \in BOOLEAN : TakeScreenshot(t, opened) \/ BuildTree(t, opened))
        => Top(t).stage # "attach"
  BY DEF Enrich, TakeScreenshot, BuildTree, At
<1>6. CASE Enrich(t)
  <2>. DEFINE d == [Top(t) EXCEPT !.stage = "check", !.at = frame]
  <2>1. d \in CallRecord /\ d.kind = Top(t).kind /\ d.processed = Top(t).processed
    BY <1>2, <1>3 DEF CallRecord, Stage
  <2>2. Become(t, d)  BY <1>6 DEF Enrich
  <2>. QED BY <1>1, <1>5, <1>6, <2>1, <2>2
<1>7. CASE \E opened \in {TRUE, ~MayFail} : TakeScreenshot(t, opened)
  <2>1. PICK opened \in BOOLEAN : TakeScreenshot(t, opened)  BY <1>7, ProcessingAssumption
  <2>. DEFINE d == [Top(t) EXCEPT !.stage = "remove_tree",
                                  !.wrote = IF opened THEN @ \cup {"shot"} ELSE @]
  <2>2. d \in CallRecord /\ d.kind = Top(t).kind /\ d.processed = Top(t).processed
    BY <1>2 DEF CallRecord, Stage
  <2>3. Become(t, d)  BY <2>1 DEF TakeScreenshot
  <2>. QED BY <1>1, <1>5, <2>1, <2>2, <2>3
<1>8. CASE \E opened \in {TRUE, ~MayFail} : BuildTree(t, opened)
  <2>1. PICK opened \in BOOLEAN : BuildTree(t, opened)  BY <1>8, ProcessingAssumption
  <2>. DEFINE d == [Top(t) EXCEPT !.stage = AfterTree(t),
                                  !.wrote = IF opened THEN @ \cup {"tree"} ELSE @]
  <2>2. d \in CallRecord /\ d.kind = Top(t).kind /\ d.processed = Top(t).processed
    BY <1>2 DEF CallRecord, Stage, AfterTree
  <2>3. Become(t, d)  BY <2>1 DEF BuildTree
  <2>. QED BY <1>1, <1>5, <2>1, <2>2, <2>3
<1>9. ASSUME Process(t), ~Enrich(t), ~(\E opened \in {TRUE, ~MayFail} : TakeScreenshot(t, opened)),
             ~(\E opened \in {TRUE, ~MayFail} : BuildTree(t, opened))
      PROVE  Return(t) \/ (Top(t).stage # "attach" /\ \E x \in Stage : Goto(t, x))
  <2>1. {"ask", "remove_tree", "mark", "take", "build_tree", "hook", "before_send", "attach"}
          \subseteq Stage
    BY DEF Stage
  <2>. QED
    BY <1>9, <2>1 DEF Process, CheckFrame, AskScreenshot, MarkFrame, RemoveTree, ManagedHook,
                      BeforeSend, Attach, AfterTree, At
<1>. QED BY <1>1, <1>4, <1>6, <1>7, <1>8, <1>9

OnceEverywhere == \A t \in Thread : OnceIn(calls[t])

(* Processing does not run within itself, on any thread, whatever is       *)
(* captured while an event is processed.                                   *)
THEOREM Not_Reentered == Spec => []NotReentered
<1>1. Init => OnceEverywhere  BY DEF Init, OnceEverywhere, OnceIn
<1>2. TypeOK /\ IInv /\ OnceEverywhere /\ [Next]_vars => OnceEverywhere'
  <2>. SUFFICES ASSUME TypeOK, IInv, OnceEverywhere, [Next]_vars PROVE OnceEverywhere'
    OBVIOUS
  <2>1. calls \in [Thread -> Seq(CallRecord)]  BY DEF TypeOK
  <2>2. CASE calls' = calls  BY <2>2 DEF OnceEverywhere
  <2>3. ASSUME NEW t \in Thread, NEW q, calls' = [calls EXCEPT ![t] = q], OnceIn(q)
        PROVE  OnceEverywhere'
    <3>1. \A u \in Thread : calls'[u] = IF u = t THEN q ELSE calls[u]  BY <2>1, <2>3
    <3>. QED BY <2>3, <3>1 DEF OnceEverywhere
  <2>4. ASSUME NEW t \in Thread, Process(t)  PROVE OnceEverywhere'
    <3>1. calls[t] # <<>> /\ calls[t] \in Seq(CallRecord) /\ OnceIn(calls[t])
      BY <2>1, <2>4, SameCall DEF OnceEverywhere
    <3>2. CASE Return(t)
      <4>1. OnceIn(Front(calls[t]))  BY <3>1, OncePop
      <4>. QED BY <2>3, <3>2, <4>1 DEF Return
    <3>3. ASSUME NEW c \in CallRecord, Become(t, c), c.kind = Top(t).kind,
                 c.processed = Top(t).processed, Top(t).stage # "attach"
          PROVE  OnceEverywhere'
      <4>1. InHook(c) => InHook(Last(calls[t]))  BY <3>3 DEF InHook, Top
      <4>2. OnceIn(Append(Front(calls[t]), c))  BY <3>1, <3>3, <4>1, OnceReplace DEF Top
      <4>. QED BY <2>3, <3>3, <4>2 DEF Become
    <3>. QED BY <2>4, <3>2, <3>3, SameCall
  <2>5. ASSUME NEW t \in Thread, NEW kind \in Kind, NEW fatal \in BOOLEAN,
               active, Begin(t, kind, fatal)
        PROVE  OnceEverywhere'
    <3>1. session \in Session  BY <2>5 DEF IInv, FileInv
    <3>2. PICK c \in CallRecord : c = Fresh(t, kind, fatal)  BY <2>5, <3>1, AfterBegin
    <3>3. calls' = [calls EXCEPT ![t] = Append(calls[t], c)]
      BY <2>1, <2>5, <3>1, <3>2, AfterBegin
    <3>4. c.kind = kind /\ c.processed = ShouldProceed(t, kind)  BY <3>2 DEF Fresh
    <3>5. (c.processed /\ c.kind # "managed") =>
             \A i \in DOMAIN calls[t] :
                Counter(calls[t][i].kind) = Counter(c.kind) => calls[t][i].stage = "attach"
      BY <3>4 DEF ShouldProceed
    <3>6. OnceIn(Append(calls[t], c))  BY <2>1, <3>5, OncePush DEF OnceEverywhere
    <3>. QED BY <2>3, <3>3, <3>6
  <2>6. "crash" \in Kind  BY DEF Kind
  <2>. QED
    BY <2>2, <2>4, <2>5, <2>6 DEF Next, InitSdk, CloseSdk, DrawFrame, Capture, Crash, vars
<1>3. TypeOK /\ OnceEverywhere => NotReentered
  <2>. SUFFICES ASSUME TypeOK, OnceEverywhere, NEW t \in Thread,
                       NEW counter \in {"event", "feedback"}
                PROVE  Cardinality(Processing(t, counter)) <= 1
    BY DEF NotReentered
  <2>1. \A i, j \in Processing(t, counter) : i = j
    BY DEF OnceEverywhere, OnceIn, InHook, Processing, Counter
  <2>2. CASE Processing(t, counter) = {}  BY <2>2, FS_EmptySet
  <2>3. CASE Processing(t, counter) # {}
    <3>1. PICK i : i \in Processing(t, counter)  BY <2>3
    <3>2. Processing(t, counter) = {i}  BY <2>1, <3>1
    <3>. QED BY <3>2, FS_Singleton
  <2>. QED BY <2>2, <2>3
<1>. QED BY <1>1, <1>2, <1>3, TypeCorrect, InvHolds, PTL DEF Spec

-----------------------------------------------------------------------------
(* While the main thread is in the middle of an event, no frame is drawn   *)
(* and the session stays the same.  A screenshot that was taken for an     *)
(* event is therefore the session's last one for the captures nested in    *)
(* it, which leave it alone; and a nested capture that removes the scene   *)
(* tree is the one that has it built next.                                 *)
CallKept(c, s, f, last, file) ==
    /\ c.session = s
    /\ c.stage \in {"check", "ask", "mark", "take"} => c.at = f
    /\ c.stage = "take" => last[s] = f
    /\ "shot" \in c.wrote => file.at # None /\ last[s] = f
    /\ "tree" \in c.wrote => c.stage \in {"hook", "before_send", "attach"}

Rebuilt(q, i) == \E j \in DOMAIN q : j > i /\ q[j].stage = "build_tree"

KeptInv ==
    /\ calls[Main] # <<>> => active
    /\ \A i \in DOMAIN calls[Main] : CallKept(calls[Main][i], session, frame, lastFrame, shot)
    /\ ~MayFail => \A i \in DOMAIN calls[Main] :
          "tree" \in calls[Main][i].wrote /\ tree.at = None => Rebuilt(calls[Main], i)

LEMMA BecomeKept ==
    ASSUME IInv, KeptInv, calls[Main] # <<>>, NEW c \in CallRecord, Become(Main, c), active' = active,
           \A d \in CallRecord : CallKept(d, session, frame, lastFrame, shot) =>
                                CallKept(d, session', frame', lastFrame', shot'),
           CallKept(c, session', frame', lastFrame', shot'),
           ~MayFail =>
             \/ tree'.at # None
             \/ c.stage = "build_tree" /\ "tree" \notin c.wrote
             \/ /\ tree' = tree /\ Top(Main).stage # "build_tree"
                /\ "tree" \in c.wrote => "tree" \in Top(Main).wrote
    PROVE  KeptInv'
<1>. DEFINE q == calls[Main]
            z == calls'[Main]
            n == Len(q)
<1>1. q \in Seq(CallRecord) /\ calls \in [Thread -> Seq(CallRecord)] /\ Main \in Thread
  BY DEF IInv, TypeOK, Thread
<1>2. z = Append(Front(q), c)  BY <1>1 DEF Become
<1>3. /\ Top(Main) = q[n] /\ n \in Nat /\ n > 0
      /\ \A i \in DOMAIN q : q[i] \in CallRecord
  BY <1>1, StackShape DEF Top
<1>4. /\ z \in Seq(CallRecord) /\ Len(z) = n /\ z[n] = c
      /\ \A i \in 1..(n - 1) : z[i] = q[i]
  BY <1>1, <1>2, ReplaceShape
<1>5. DOMAIN z = 1..n /\ DOMAIN q = 1..n  BY <1>1, <1>4
<1>6. \A i \in 1..n : i # n => z[i] = q[i]  BY <1>3, <1>4
<1>. HIDE DEF q, z, n
<1>7. \A i \in DOMAIN z : CallKept(z[i], session', frame', lastFrame', shot')
  BY <1>3, <1>4, <1>5, <1>6 DEF KeptInv, q
<1>8. ASSUME ~MayFail, NEW i \in DOMAIN z, "tree" \in z[i].wrote, tree'.at = None
      PROVE  Rebuilt(z, i)
  <2>1. CASE c.stage = "build_tree" /\ "tree" \notin c.wrote
    <3>1. i # n  BY <1>4, <1>8, <2>1
    <3>2. n > i  BY <1>3, <1>5, <3>1
    <3>. QED BY <1>3, <1>4, <1>5, <2>1, <3>2 DEF Rebuilt
  <2>2. CASE /\ tree' = tree /\ Top(Main).stage # "build_tree"
             /\ "tree" \in c.wrote => "tree" \in Top(Main).wrote
    <3>1. "tree" \in q[i].wrote  BY <1>3, <1>4, <1>5, <1>6, <1>8, <2>2
    <3>2. PICK j \in DOMAIN q : j > i /\ q[j].stage = "build_tree"
      BY <1>5, <1>8, <2>2, <3>1 DEF KeptInv, Rebuilt, q
    <3>3. j # n  BY <1>3, <2>2, <3>2
    <3>. QED BY <1>5, <1>6, <3>2, <3>3 DEF Rebuilt
  <2>. QED BY <1>8, <2>1, <2>2
<1>9. active'  BY DEF KeptInv
<1>. QED BY <1>7, <1>8, <1>9 DEF KeptInv, z

LEMMA ReturnKept ==
    ASSUME IInv, KeptInv, calls[Main] # <<>>, Return(Main), Top(Main).stage # "build_tree",
           UNCHANGED <<engine, lastFrame, files>>
    PROVE  KeptInv'
<1>. DEFINE q == calls[Main]
            z == calls'[Main]
            n == Len(q)
<1>1. q \in Seq(CallRecord) /\ calls \in [Thread -> Seq(CallRecord)] /\ Main \in Thread
  BY DEF IInv, TypeOK, Thread
<1>2. z = Front(q)  BY <1>1 DEF Return
<1>3. Top(Main) = q[n] /\ n \in Nat /\ n > 0  BY <1>1, StackShape DEF Top
<1>4. z \in Seq(CallRecord) /\ Len(z) = n - 1 /\ \A i \in 1..(n - 1) : z[i] = q[i]
  BY <1>1, <1>2, StackShape
<1>5. DOMAIN z = 1..(n - 1) /\ DOMAIN q = 1..n  BY <1>1, <1>4
<1>6. \A i \in DOMAIN z : i \in DOMAIN q /\ z[i] = q[i]  BY <1>3, <1>4, <1>5
<1>7. active' = active /\ session' = session /\ frame' = frame /\ lastFrame' = lastFrame
      /\ shot' = shot /\ tree' = tree
  BY DEF engine, files
<1>. HIDE DEF q, z, n
<1>8. \A i \in DOMAIN z : CallKept(z[i], session', frame', lastFrame', shot')
  BY <1>6, <1>7 DEF KeptInv, CallKept, q
<1>9. ASSUME ~MayFail, NEW i \in DOMAIN z, "tree" \in z[i].wrote, tree'.at = None
      PROVE  Rebuilt(z, i)
  <2>1. PICK j \in DOMAIN q : j > i /\ q[j].stage = "build_tree"
    BY <1>6, <1>7, <1>9 DEF KeptInv, Rebuilt, q
  <2>2. j # n /\ j \in DOMAIN z  BY <1>3, <1>5, <2>1
  <2>. QED BY <1>6, <2>1, <2>2 DEF Rebuilt
<1>10. active'  BY <1>7 DEF KeptInv
<1>. QED BY <1>8, <1>9, <1>10 DEF KeptInv, z

LEMMA BeginKept ==
    ASSUME IInv, KeptInv, active, NEW kind \in Kind, NEW fatal \in BOOLEAN, Begin(Main, kind, fatal)
    PROVE  KeptInv'
<1>. DEFINE q == calls[Main]
            z == calls'[Main]
            n == Len(q)
<1>1. q \in Seq(CallRecord) /\ calls \in [Thread -> Seq(CallRecord)] /\ Main \in Thread
      /\ session \in Session
  BY DEF IInv, TypeOK, FileInv, Thread
<1>2. PICK c \in CallRecord : c = Fresh(Main, kind, fatal)  BY <1>1, AfterBegin DEF IInv
<1>3. z = Append(q, c)  BY <1>1, <1>2 DEF Begin, Fresh
<1>4. /\ active' = active /\ session' = session /\ frame' = frame /\ lastFrame' = lastFrame
      /\ shot' = shot /\ tree' = tree
  BY DEF Begin, engine, files
<1>5. /\ c.session = session /\ c.wrote = {}
      /\ c.stage \in {"check", "ask", "mark", "take"} => c.at = frame
      /\ c.stage # "take"
  BY <1>2 DEF Fresh, FirstStage
<1>. HIDE DEF q, z, n
<1>6. /\ n \in Nat /\ DOMAIN q = 1..n /\ DOMAIN z = 1..(n + 1)
      /\ z[n + 1] = c /\ \A i \in 1..n : z[i] = q[i]
  BY <1>1, <1>3 DEF n
<1>7. \A i \in DOMAIN z : i \in DOMAIN q \/ i = n + 1  BY <1>6
<1>8. \A i \in DOMAIN z : CallKept(z[i], session', frame', lastFrame', shot')
  BY <1>4, <1>5, <1>6, <1>7 DEF KeptInv, CallKept, q
<1>9. ASSUME ~MayFail, NEW i \in DOMAIN z, "tree" \in z[i].wrote, tree'.at = None
      PROVE  Rebuilt(z, i)
  <2>1. i \in DOMAIN q /\ "tree" \in q[i].wrote  BY <1>5, <1>6, <1>7, <1>9
  <2>2. PICK j \in DOMAIN q : j > i /\ q[j].stage = "build_tree"
    BY <1>4, <1>9, <2>1 DEF KeptInv, Rebuilt, q
  <2>3. j \in DOMAIN z /\ z[j] = q[j]  BY <1>6, <2>2
  <2>. QED BY <2>2, <2>3 DEF Rebuilt
<1>. QED BY <1>4, <1>8, <1>9 DEF KeptInv, z

(* A call that goes on without a file being touched.                       *)
LEMMA GotoKept ==
    ASSUME IInv, KeptInv, calls[Main] # <<>>, NEW x \in Stage, Goto(Main, x),
           UNCHANGED <<engine, lastFrame, files>>, Top(Main).stage # "build_tree",
           x \in {"check", "ask", "mark"} => Top(Main).at = frame,
           x # "take",
           "tree" \in Top(Main).wrote => x \in {"hook", "before_send", "attach"}
    PROVE  KeptInv'
<1>1. Top(Main) \in CallRecord  BY CallsInProgress DEF IInv, Thread
<1>2. CallKept(Top(Main), session, frame, lastFrame, shot)
  <2>1. calls[Main] \in Seq(CallRecord)  BY DEF IInv, TypeOK, Thread
  <2>2. Top(Main) = calls[Main][Len(calls[Main])] /\ Len(calls[Main]) \in DOMAIN calls[Main]
    BY <2>1 DEF Top, Last
  <2>. QED BY <2>2 DEF KeptInv
<1>. DEFINE c == [Top(Main) EXCEPT !.stage = x]
<1>3. /\ c \in CallRecord /\ c.stage = x /\ c.session = Top(Main).session
      /\ c.at = Top(Main).at /\ c.wrote = Top(Main).wrote
  BY <1>1 DEF CallRecord
<1>4. Become(Main, c)  BY DEF Goto
<1>5. /\ active' = active /\ session' = session /\ frame' = frame /\ lastFrame' = lastFrame
      /\ shot' = shot /\ tree' = tree
  BY DEF engine, files
<1>. HIDE DEF c
<1>6. CallKept(c, session', frame', lastFrame', shot')  BY <1>2, <1>3, <1>5 DEF CallKept
<1>. QED BY <1>3, <1>4, <1>5, <1>6, BecomeKept

LEMMA TopKept ==
    ASSUME IInv, KeptInv, calls[Main] # <<>>
    PROVE  /\ Top(Main) \in CallRecord
           /\ CallKept(Top(Main), session, frame, lastFrame, shot)
           /\ session \in Session /\ frame \in Nat /\ begun \in Nat
<1>1. Top(Main) \in CallRecord  BY CallsInProgress DEF IInv, Thread
<1>2. calls[Main] \in Seq(CallRecord)  BY DEF IInv, TypeOK, Thread
<1>3. Top(Main) = calls[Main][Len(calls[Main])] /\ Len(calls[Main]) \in DOMAIN calls[Main]
  BY <1>2 DEF Top, Last
<1>. QED BY <1>1, <1>3 DEF KeptInv, IInv, FileInv, TypeOK

LEMMA ProcessKept ==
    ASSUME IInv, KeptInv, Process(Main)
    PROVE  KeptInv'
<1>1. calls[Main] # <<>>
  BY DEF Process, Enrich, CheckFrame, AskScreenshot, MarkFrame, TakeScreenshot,
         RemoveTree, BuildTree, ManagedHook, BeforeSend, Attach, At
<1>. DEFINE top == Top(Main)
<1>2. /\ top \in CallRecord /\ CallKept(top, session, frame, lastFrame, shot)
      /\ session \in Session /\ frame \in Nat /\ begun \in Nat
  BY <1>1, TopKept
<1>3. CASE Enrich(Main)
  <2>. DEFINE c == [top EXCEPT !.stage = "check", !.at = frame]
  <2>1. /\ c \in CallRecord /\ c.stage = "check" /\ c.at = frame
        /\ c.session = top.session /\ c.wrote = top.wrote
    BY <1>2 DEF CallRecord, Stage
  <2>2. Become(Main, c)  BY <1>3 DEF Enrich
  <2>3. /\ active' = active /\ session' = session /\ frame' = frame /\ lastFrame' = lastFrame
        /\ shot' = shot /\ tree' = tree /\ top.stage = "enrich"
    BY <1>3 DEF Enrich, engine, files, At
  <2>. HIDE DEF c
  <2>4. CallKept(c, session', frame', lastFrame', shot')
    BY <1>2, <2>1, <2>3 DEF CallKept
  <2>. QED BY <1>1, <2>1, <2>2, <2>3, <2>4, BecomeKept
<1>4. CASE CheckFrame(Main)
  <2>. DEFINE done == top.at = lastFrame[top.session]
              x == IF ~done /\ WantsScreenshot(Main) THEN "ask" ELSE "remove_tree"
              c == [top EXCEPT !.stage = x]
  <2>1. /\ top.stage = "check" /\ Become(Main, c)
        /\ shot' = IF done THEN shot ELSE NoFile
        /\ active' = active /\ session' = session /\ frame' = frame /\ lastFrame' = lastFrame
        /\ tree' = tree
    BY <1>4 DEF CheckFrame, Goto, At, engine
  <2>2. x \in {"ask", "remove_tree"}  OBVIOUS
  <2>3. top.at = frame /\ top.session = session  BY <1>2, <2>1 DEF CallKept
  <2>4. done \/ lastFrame[session] # frame  BY <2>3
  <2>. HIDE DEF done, x
  <2>5. /\ c \in CallRecord /\ c.stage = x /\ c.at = top.at /\ c.session = top.session
        /\ c.wrote = top.wrote
    BY <1>2, <2>2 DEF CallRecord, Stage
  <2>. HIDE DEF c, top
  <2>6. ASSUME NEW d \in CallRecord, CallKept(d, session, frame, lastFrame, shot)
        PROVE  CallKept(d, session', frame', lastFrame', shot')
    BY <2>1, <2>4, <2>6 DEF CallKept
  <2>7. CallKept(c, session', frame', lastFrame', shot')
    BY <1>2, <2>1, <2>2, <2>3, <2>4, <2>5 DEF CallKept
  <2>. QED BY <1>1, <2>1, <2>5, <2>6, <2>7, BecomeKept DEF top
<1>5. CASE \E allow \in BOOLEAN : AskScreenshot(Main, allow)
  <2>1. PICK x \in {"mark", "remove_tree"} :
          /\ Goto(Main, x) /\ top.stage = "ask"
          /\ UNCHANGED <<engine, lastFrame, files>>
    BY <1>5 DEF AskScreenshot, At
  <2>2. x \in Stage  BY DEF Stage
  <2>. QED BY <1>1, <1>2, <2>1, <2>2, GotoKept DEF CallKept
<1>6. CASE MarkFrame(Main)
  <2>. DEFINE c == [top EXCEPT !.stage = "take"]
  <2>1. /\ top.stage = "mark" /\ Become(Main, c)
        /\ lastFrame' = [lastFrame EXCEPT ![top.session] = top.at]
        /\ active' = active /\ session' = session /\ frame' = frame /\ shot' = shot
        /\ tree' = tree
    BY <1>6 DEF MarkFrame, Goto, At, engine, files
  <2>2. top.at = frame /\ top.session = session  BY <1>2, <2>1 DEF CallKept
  <2>3. /\ c \in CallRecord /\ c.stage = "take" /\ c.at = top.at /\ c.session = top.session
        /\ c.wrote = top.wrote
    BY <1>2 DEF CallRecord, Stage
  <2>4. lastFrame'[session] = frame
    <3>1. lastFrame \in [Session -> Nat \cup {None}]  BY DEF IInv, TypeOK
    <3>. QED BY <1>2, <2>1, <2>2, <3>1
  <2>. HIDE DEF c, top
  <2>5. ASSUME NEW d \in CallRecord, CallKept(d, session, frame, lastFrame, shot)
        PROVE  CallKept(d, session', frame', lastFrame', shot')
    BY <2>1, <2>4, <2>5 DEF CallKept
  <2>6. CallKept(c, session', frame', lastFrame', shot')
    BY <1>2, <2>1, <2>2, <2>3, <2>4 DEF CallKept
  <2>. QED BY <1>1, <2>1, <2>3, <2>5, <2>6, BecomeKept DEF top
<1>7. CASE \E opened \in {TRUE, ~MayFail} : TakeScreenshot(Main, opened)
  <2>1. PICK opened \in BOOLEAN : TakeScreenshot(Main, opened)  BY <1>7, ProcessingAssumption
  <2>. DEFINE more == IF opened THEN top.wrote \cup {"shot"} ELSE top.wrote
              c == [top EXCEPT !.stage = "remove_tree", !.wrote = more]
  <2>2. /\ top.stage = "take" /\ Become(Main, c)
        /\ shot' = IF opened THEN [at |-> frame, session |-> session] ELSE shot
        /\ active' = active /\ session' = session /\ frame' = frame /\ lastFrame' = lastFrame
        /\ tree' = tree
    BY <2>1 DEF TakeScreenshot, At, engine
  <2>3. more \in SUBSET {"shot", "tree"}  BY <1>2 DEF CallRecord
  <2>4. "tree" \in more <=> "tree" \in top.wrote  OBVIOUS
  <2>5. "shot" \in more => shot'.at # None
    BY <1>2, <2>2 DEF CallKept, None
  <2>. HIDE DEF more
  <2>6. /\ c \in CallRecord /\ c.stage = "remove_tree" /\ c.at = top.at
        /\ c.session = top.session /\ c.wrote = more
    BY <1>2, <2>3 DEF CallRecord, Stage
  <2>. HIDE DEF c, top
  <2>7. shot' = shot \/ shot'.at # None
    BY <1>2, <2>2 DEF None
  <2>8. ASSUME NEW d \in CallRecord, CallKept(d, session, frame, lastFrame, shot)
        PROVE  CallKept(d, session', frame', lastFrame', shot')
    BY <2>2, <2>7, <2>8 DEF CallKept
  <2>9. CallKept(c, session', frame', lastFrame', shot')
    BY <1>2, <2>2, <2>4, <2>5, <2>6 DEF CallKept
  <2>. QED BY <1>1, <2>2, <2>4, <2>6, <2>8, <2>9, BecomeKept DEF top
<1>8. CASE RemoveTree(Main)
  <2>. DEFINE c == [top EXCEPT !.stage = "build_tree"]
  <2>1. /\ top.stage = "remove_tree" /\ Become(Main, c)
        /\ active' = active /\ session' = session /\ frame' = frame /\ lastFrame' = lastFrame
        /\ shot' = shot
    BY <1>8 DEF RemoveTree, Goto, At, engine
  <2>2. /\ c \in CallRecord /\ c.stage = "build_tree" /\ c.at = top.at
        /\ c.session = top.session /\ c.wrote = top.wrote
    BY <1>2 DEF CallRecord, Stage
  <2>. HIDE DEF c, top
  <2>3. "tree" \notin c.wrote  BY <1>2, <2>1, <2>2 DEF CallKept
  <2>4. CallKept(c, session', frame', lastFrame', shot')
    BY <1>2, <2>1, <2>2, <2>3 DEF CallKept
  <2>. QED BY <1>1, <2>1, <2>2, <2>3, <2>4, BecomeKept
<1>9. CASE \E opened \in {TRUE, ~MayFail} : BuildTree(Main, opened)
  <2>1. PICK opened \in BOOLEAN : BuildTree(Main, opened) /\ (~MayFail => opened)
    BY <1>9, ProcessingAssumption
  <2>. DEFINE more == IF opened THEN top.wrote \cup {"tree"} ELSE top.wrote
              x == AfterTree(Main)
              c == [top EXCEPT !.stage = x, !.wrote = more]
  <2>2. /\ top.stage = "build_tree" /\ Become(Main, c)
        /\ tree' = IF opened THEN [at |-> begun, session |-> session] ELSE tree
        /\ active' = active /\ session' = session /\ frame' = frame /\ lastFrame' = lastFrame
        /\ shot' = shot
    BY <2>1 DEF BuildTree, At, engine
  <2>3. more \in SUBSET {"shot", "tree"}  BY <1>2 DEF CallRecord
  <2>4. "shot" \in more <=> "shot" \in top.wrote  OBVIOUS
  <2>5. x \in {"attach", "hook"}  BY DEF AfterTree
  <2>. HIDE DEF more, x
  <2>6. /\ c \in CallRecord /\ c.stage = x /\ c.at = top.at
        /\ c.session = top.session /\ c.wrote = more
    BY <1>2, <2>3, <2>5 DEF CallRecord, Stage
  <2>. HIDE DEF c, top
  <2>7. ~MayFail => tree'.at # None  BY <1>2, <2>1, <2>2 DEF None
  <2>8. CallKept(c, session', frame', lastFrame', shot')
    BY <1>2, <2>2, <2>4, <2>5, <2>6 DEF CallKept
  <2>. QED BY <1>1, <2>2, <2>6, <2>7, <2>8, BecomeKept
<1>10. CASE \E keep \in BOOLEAN : ManagedHook(Main, keep) \/ BeforeSend(Main, keep)
  <2>1. /\ Goto(Main, "before_send") \/ Goto(Main, "attach") \/ Return(Main)
        /\ top.stage # "build_tree" /\ UNCHANGED <<engine, lastFrame, files>>
    BY <1>10 DEF ManagedHook, BeforeSend, At
  <2>2. {"before_send", "attach"} \subseteq Stage  BY DEF Stage
  <2>. QED BY <1>1, <2>1, <2>2, GotoKept, ReturnKept
<1>11. CASE Attach(Main)
  <2>1. Return(Main) /\ top.stage # "build_tree" /\ UNCHANGED <<engine, lastFrame, files>>
    BY <1>11 DEF Attach, At
  <2>. QED BY <1>1, <2>1, ReturnKept
<1>. QED
  BY <1>3, <1>4, <1>5, <1>6, <1>7, <1>8, <1>9, <1>10, <1>11 DEF Process

(* Where the main thread alone captures events, the screenshot and the     *)
(* scene tree that were written for an event are there when it is sent,    *)
(* although its callbacks capture further events, which are processed      *)
(* themselves.                                                             *)
THEOREM Files_Kept == Spec => []FilesKept
<1>. DEFINE Alone == Worker = {} => KeptInv
<1>1. Init => Alone
  BY DEF Init, KeptInv, Thread
<1>2. IInv /\ Alone /\ [Next]_vars => Alone'
  <2>. SUFFICES ASSUME IInv, KeptInv, [Next]_vars, Worker = {} PROVE KeptInv'  OBVIOUS
  <2>1. Thread = {Main}  BY DEF Thread
  <2>2. CASE InitSdk \/ CloseSdk \/ DrawFrame
    <3>1. calls[Main] = <<>> /\ calls' = calls  BY <2>2 DEF InitSdk, CloseSdk, DrawFrame
    <3>. QED BY <3>1 DEF KeptInv
  <2>3. ASSUME NEW kind \in Kind \ {"crash"}, NEW fatal \in BOOLEAN, Capture(Main, kind, fatal)
        PROVE  KeptInv'
    BY <2>3, BeginKept DEF Capture, Kind
  <2>4. CASE Crash(Main)
    <3>1. "crash" \in Kind /\ active /\ Begin(Main, "crash", TRUE)  BY <2>4 DEF Crash, Kind
    <3>. QED BY <3>1, BeginKept
  <2>5. CASE Process(Main)  BY <2>5, ProcessKept
  <2>6. CASE UNCHANGED vars
    BY <2>6 DEF vars, engine, files, KeptInv
  <2>. QED BY <2>1, <2>2, <2>3, <2>4, <2>5, <2>6 DEF Next
<1>3. IInv /\ Alone => FilesKept
  <2>. SUFFICES ASSUME IInv, KeptInv, Sent(Main)
                PROVE  /\ "shot" \in Top(Main).wrote => shot.at # None
                       /\ ~MayFail /\ "tree" \in Top(Main).wrote => tree.at # None
    BY DEF FilesKept, ScreenshotKept, TreeKept
  <2>1. calls[Main] # <<>>  BY DEF Sent, At
  <2>2. calls[Main] \in Seq(CallRecord)  BY DEF IInv, TypeOK, Thread
  <2>. DEFINE q == calls[Main]
              n == Len(q)
  <2>3. Top(Main) = q[n] /\ n \in DOMAIN q /\ \A j \in DOMAIN q : ~ (j > n)
    BY <2>1, <2>2 DEF Top, Last
  <2>4. "shot" \in Top(Main).wrote => shot.at # None
    BY <2>1, TopKept DEF CallKept
  <2>. HIDE DEF n
  <2>5. ~MayFail /\ "tree" \in Top(Main).wrote => tree.at # None
    BY <2>3 DEF KeptInv, Rebuilt
  <2>. QED BY <2>4, <2>5
<1>. QED BY <1>1, <1>2, <1>3, InvHolds, PTL DEF Spec
=============================================================================
