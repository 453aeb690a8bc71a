---------------------------- MODULE SessionProofs ----------------------------
(***************************************************************************)
(* Proofs about sessions.  Of Lifecycle: whatever the callbacks of a       *)
(* configuration initialize, close or throw, the managed layer stays       *)
(* consistent, its re-entry flags are released, and a BeforeSend is known  *)
(* to both layers.  Of the other parts of MCSession: settings, files and   *)
(* attachments.                                                            *)
(*                                                                         *)
(* The agenda is a stack that a step replaces the top of.  What makes the  *)
(* layers consistent between calls is that certain steps are only ever     *)
(* found right after certain others (StepsInOrder), so that a step finds   *)
(* the state its predecessor left (HeadReady).  Settings have no such      *)
(* history: a file means what its version says (FileInv), and a process    *)
(* has what the file means (ProcessInv).  The calls that change the        *)
(* attachments leave known work behind (Initialized, Attaching).           *)
(***************************************************************************)
EXTENDS MCSession, TLAPS

(* The next step is one of these.                                          *)
Now(names) == agenda # <<>> /\ agenda[1].do \in names

Positions == 1 .. Len(agenda)

(* Step x may be followed at once by step y.                               *)
Before(x, y) ==
    /\ y.do = "init_hub" <=> x.do = "set_options"
    /\ y.do = "close_hub" <=> x.do = "dispose_handler"
    /\ y.do = "clear_options" <=> x.do = "close_hub"
    /\ y.do = "clear_hooks" => x.do \in {"notify_close", "end_close"}
    /\ y.do = "remove_logger" => x.do = "clear_hooks"
    /\ y.do = "close_backend" => x.do = "remove_logger"
    /\ x.do = "init_native" => y.do = "set_options"
    /\ x.do \in {"cs_callback", "init_hub", "install_handler"} => y.do = "end_init"
    /\ y.do \notin {"install_handler", "add_logger"}
    /\ x.do # "release_bindings"

(* Steps that are never the last ones on the agenda.                       *)
Continued ==
    {"dispose_handler", "close_hub", "init_native", "set_options", "cs_callback", "init_hub",
     "install_handler"}

StepsInOrder ==
    /\ \A i, j \in Positions : j = i + 1 => Before(agenda[i], agenda[j])
    /\ agenda # <<>> => agenda[Len(agenda)].do \notin Continued
    /\ \A i \in Positions : agenda[i].do = "set_options" => agenda[i].with # "null"

HeadReady ==
    /\ Now({"init_hub", "install_handler"}) => currentOptions # "null"
    /\ Now({"close_hub", "clear_options"}) => handlers = 0
    /\ Now({"clear_options"}) => ~hubEnabled
    /\ Now({"clear_hooks", "remove_logger", "close_backend"}) => currentOptions = "null"

HubState ==
    /\ handlers \in {0, 1}
    /\ hubEnabled => currentOptions # "null"
    /\ hubEnabled => handlers = 1 \/ Now({"install_handler", "close_hub"})
    /\ currentOptions = "null" => handlers = 0

(* The steps of a Close(): until it ends, nothing else comes before it.    *)
ClosingSteps ==
    {"dispose_handler", "close_hub", "clear_options", "close_native", "notify_close",
     "clear_hooks", "remove_logger", "close_backend"}

ClosesOnTop ==
    \A p \in Positions : agenda[p].do = "end_close" =>
        \A q \in Positions : q < p => agenda[q].do \in ClosingSteps

ClosingState ==
    closing => \/ currentOptions = "null"
               \/ Now({"dispose_handler", "close_hub", "clear_options"})

(* Where the bindings are needed, they are there.                          *)
BoundSteps ==
    \A p \in Positions :
        /\ agenda[p].do \in {"cs_callback", "init_native", "set_options"} => registered
        /\ agenda[p].do = "release_bindings" => stopped

BoundOptions == ~registered => currentOptions = "null" \/ (stopped /\ agenda = <<>>)

(* The steps between init_native and the set_options of the same Init().   *)
InitSteps ==
    {"init_backend", "add_logger", "notify_init", "set_options", "init_hub",
     "install_handler", "end_init"}

(* Only steps of an initialization come before position p.                 *)
SoonAt(p) == \A q \in Positions : q < p => agenda[q].do \in InitSteps

(* Options with a BeforeSend are set only after the native layer knows.    *)
HooksAhead ==
    \A p \in Positions :
        (agenda[p].do = "set_options" /\ agenda[p].with = "hooked")
        => \/ definedHooks /\ SoonAt(p)
           \/ \E q \in Positions : /\ p = q + 1
                                   /\ agenda[q].do = "init_native"
                                   /\ agenda[q].with = "hooked"

SetsOptionsSoon == \E p \in Positions : agenda[p].do = "set_options" /\ SoonAt(p)

HooksKnown == (currentOptions = "hooked" /\ ~definedHooks) => SetsOptionsSoon

LayersInv ==
    /\ TypeOK
    /\ StepsInOrder /\ HeadReady /\ HubState
    /\ FlagsReleased
    /\ ClosesOnTop /\ ClosingState
    /\ BoundSteps /\ BoundOptions
    /\ HooksAhead /\ HooksKnown

-----------------------------------------------------------------------------
(***************************************************************************)
(* How a step changes the agenda: `steps` come in the place of its first   *)
(* k steps, k = 1 for a step that is done and k = 0 for a call.            *)
(***************************************************************************)
Replaces(steps, k) ==
    /\ agenda' \in Seq(StepRecord)
    /\ Len(agenda') = Len(steps) + Len(agenda) - k
    /\ \A i \in 1 .. Len(steps) : i <= Len(agenda') /\ agenda'[i] = steps[i]
    /\ \A i \in 1 .. Len(agenda') :
           i > Len(steps) => /\ i - Len(steps) + k \in Positions
                             /\ agenda'[i] = agenda[i - Len(steps) + k]

LEMMA StepTypes ==
    /\ \A name \in StepName : /\ Step(name) \in StepRecord
                              /\ Step(name).do = name
    /\ \A name \in StepName, o \in Options : /\ StepWith(name, o) \in StepRecord
                                             /\ StepWith(name, o).do = name
                                             /\ StepWith(name, o).with = o
  BY DEF Step, StepWith, StepRecord, Options

LEMMA ContinueReplaces ==
    ASSUME TypeOK, NEW steps \in Seq(StepRecord), agenda # <<>>, Continue(steps)
    PROVE  Replaces(steps, 1)
  <1>1. agenda \in Seq(StepRecord) /\ agenda' = steps \o Tail(agenda)
    BY DEF TypeOK, Continue
  <1>2. Len(agenda) \in Nat \ {0}
    BY <1>1
  <1>3. /\ Tail(agenda) \in Seq(StepRecord)
        /\ Len(Tail(agenda)) = Len(agenda) - 1
        /\ \A i \in 1 .. Len(agenda) - 1 : Tail(agenda)[i] = agenda[i + 1]
    BY <1>1, <1>2
  <1> DEFINE rest == Tail(agenda)
  <1> HIDE DEF rest
  <1>4. rest \in Seq(StepRecord) /\ agenda' = steps \o rest
    BY <1>1, <1>3 DEF rest
  <1>5. /\ agenda' \in Seq(StepRecord)
        /\ Len(agenda') = Len(steps) + Len(rest)
        /\ \A i \in 1 .. Len(steps) : agenda'[i] = steps[i]
        /\ \A i \in 1 .. Len(agenda') : i > Len(steps) => agenda'[i] = rest[i - Len(steps)]
    BY <1>4
  <1>6. \A i \in 1 .. Len(agenda') :
            i > Len(steps) => /\ i - Len(steps) \in 1 .. Len(agenda) - 1
                              /\ i - Len(steps) + 1 \in 1 .. Len(agenda)
    BY <1>2, <1>3, <1>5 DEF rest
  <1> QED
    BY <1>2, <1>3, <1>5, <1>6 DEF Replaces, Positions, rest

LEMMA CallReplaces ==
    ASSUME TypeOK, NEW steps \in Seq(StepRecord), agenda' = steps \o agenda
    PROVE  Replaces(steps, 0)
  <1>1. agenda \in Seq(StepRecord) /\ agenda' = steps \o agenda
    BY DEF TypeOK
  <1>2. /\ agenda' \in Seq(StepRecord)
        /\ Len(agenda') = Len(steps) + Len(agenda)
        /\ \A i \in 1 .. Len(steps) : agenda'[i] = steps[i]
        /\ \A i \in 1 .. Len(agenda') : i > Len(steps) => agenda'[i] = agenda[i - Len(steps)]
    BY <1>1
  <1> QED
    BY <1>1, <1>2 DEF Replaces, Positions

(* Which steps are next afterwards.                                        *)
LEMMA NewHead ==
    ASSUME TypeOK, NEW steps \in Seq(StepRecord), NEW k \in {0, 1}, Replaces(steps, k)
    PROVE  /\ steps # <<>> => agenda' # <<>> /\ agenda'[1] = steps[1]
           /\ steps = <<>> /\ k = 1 /\ agenda # <<>> /\ StepsInOrder =>
                  IF Len(agenda) = 1
                  THEN agenda' = <<>> /\ agenda[1].do \notin Continued
                  ELSE /\ agenda' # <<>>
                       /\ agenda'[1] = agenda[2]
                       /\ agenda[2] \in StepRecord
                       /\ Before(agenda[1], agenda[2])
  <1>1. agenda \in Seq(StepRecord)
    BY DEF TypeOK
  <1>2. steps # <<>> => agenda' # <<>> /\ agenda'[1] = steps[1]
    BY DEF Replaces
  <1>3. ASSUME steps = <<>>, k = 1, agenda # <<>>, StepsInOrder, Len(agenda) = 1
        PROVE  agenda' = <<>> /\ agenda[1].do \notin Continued
    BY <1>1, <1>3 DEF Replaces, StepsInOrder
  <1>4. ASSUME steps = <<>>, k = 1, agenda # <<>>, StepsInOrder, Len(agenda) # 1
        PROVE  /\ agenda' # <<>>
               /\ agenda'[1] = agenda[2]
               /\ agenda[2] \in StepRecord
               /\ Before(agenda[1], agenda[2])
    <2>1. 1 \in Positions /\ 2 \in Positions /\ Len(agenda') = Len(agenda) - 1
      BY <1>1, <1>4 DEF Positions, Replaces
    <2>2. agenda' # <<>> /\ agenda'[1] = agenda[2]
      BY <1>1, <1>4, <2>1 DEF Positions, Replaces
    <2>3. Before(agenda[1], agenda[2])
      <3>1. 2 = 1 + 1
        OBVIOUS
      <3> QED
        BY <1>4, <2>1, <3>1 DEF StepsInOrder
    <2> QED
      BY <1>1, <2>1, <2>2, <2>3 DEF Positions
  <1> QED
    BY <1>2, <1>3, <1>4

-----------------------------------------------------------------------------
(* Steps that may come in the place of the first k.                        *)
InOrder(steps, k) ==
    /\ \A i, j \in 1 .. Len(steps) : j = i + 1 => Before(steps[i], steps[j])
    /\ \A i \in 1 .. Len(steps) : steps[i].do = "set_options" => steps[i].with # "null"
    /\ steps # <<>> /\ k = Len(agenda) => steps[Len(steps)].do \notin Continued
    /\ steps # <<>> /\ k + 1 \in Positions => Before(steps[Len(steps)], agenda[k + 1])

LEMMA OrderKept ==
    ASSUME TypeOK, StepsInOrder, NEW steps \in Seq(StepRecord), NEW k \in {0, 1},
           Replaces(steps, k), InOrder(steps, k), k <= Len(agenda)
    PROVE  StepsInOrder'
  <1>1. agenda \in Seq(StepRecord) /\ Len(agenda) \in Nat /\ Len(steps) \in Nat
    BY DEF TypeOK
  <1>2. ASSUME NEW i \in 1 .. Len(agenda'), NEW j \in 1 .. Len(agenda'), j = i + 1
        PROVE  Before(agenda'[i], agenda'[j])
    <2>1. CASE j <= Len(steps)
      <3>1. i \in 1 .. Len(steps) /\ j \in 1 .. Len(steps)
        BY <1>1, <1>2, <2>1
      <3>2. agenda'[i] = steps[i] /\ agenda'[j] = steps[j]
        BY <3>1 DEF Replaces
      <3> QED
        BY <1>2, <3>1, <3>2 DEF InOrder
    <2>2. CASE i > Len(steps)
      <3>1. i - Len(steps) + k \in Positions /\ agenda'[i] = agenda[i - Len(steps) + k]
        BY <2>2 DEF Replaces
      <3>a. j > Len(steps)
        BY <1>1, <1>2, <2>2
      <3>b. j - Len(steps) + k \in Positions /\ agenda'[j] = agenda[j - Len(steps) + k]
        BY <3>a DEF Replaces
      <3>2. j - Len(steps) + k = (i - Len(steps) + k) + 1
        BY <1>1, <1>2
      <3> QED
        BY <3>1, <3>b, <3>2 DEF StepsInOrder
    <2>3. CASE i = Len(steps)
      <3>1. agenda'[i] = steps[Len(steps)] /\ steps # <<>>
        BY <1>1, <1>2, <2>3 DEF Replaces
      <3>2. j - Len(steps) + k \in Positions /\ agenda'[j] = agenda[j - Len(steps) + k]
        BY <1>1, <1>2, <2>3 DEF Replaces
      <3>3. j - Len(steps) + k = k + 1
        BY <1>1, <1>2, <2>3
      <3> QED
        BY <3>1, <3>2, <3>3 DEF InOrder
    <2> QED
      BY <1>1, <1>2, <2>1, <2>2, <2>3
  <1>3. ASSUME agenda' # <<>> PROVE agenda'[Len(agenda')].do \notin Continued
    <2>1. Len(agenda') \in Nat \ {0} /\ Len(agenda') \in 1 .. Len(agenda')
      BY <1>3 DEF Replaces
    <2>2. CASE Len(agenda') > Len(steps)
      <3>1. Len(agenda') - Len(steps) + k = Len(agenda)
        BY <1>1 DEF Replaces
      <3>2. agenda'[Len(agenda')] = agenda[Len(agenda)] /\ Len(agenda) \in Positions
        BY <2>1, <2>2, <3>1 DEF Replaces
      <3>3. agenda # <<>>
        BY <1>1, <3>2 DEF Positions
      <3> QED
        BY <3>2, <3>3 DEF StepsInOrder
    <2>3. CASE Len(agenda') = Len(steps)
      <3>1. agenda'[Len(agenda')] = steps[Len(steps)] /\ steps # <<>> /\ k = Len(agenda)
        BY <1>1, <2>1, <2>3 DEF Replaces
      <3> QED
        BY <3>1 DEF InOrder
    <2> QED
      BY <1>1, <2>1, <2>2, <2>3 DEF Replaces
  <1>4. ASSUME NEW i \in 1 .. Len(agenda'), agenda'[i].do = "set_options"
        PROVE  agenda'[i].with # "null"
    <2>1. CASE i <= Len(steps)
      <3>1. i \in 1 .. Len(steps)
        BY <1>1, <2>1
      <3>2. agenda'[i] = steps[i]
        BY <3>1 DEF Replaces
      <3> QED
        BY <1>4, <3>1, <3>2 DEF InOrder
    <2>2. CASE i > Len(steps)
      <3>1. i - Len(steps) + k \in Positions /\ agenda'[i] = agenda[i - Len(steps) + k]
        BY <2>2 DEF Replaces
      <3> QED
        BY <1>4, <3>1 DEF StepsInOrder
    <2> QED
      BY <1>1, <2>1, <2>2
  <1> QED
    BY <1>2, <1>3, <1>4 DEF StepsInOrder, Positions

(* What was pending and stays pending.                                     *)
LEMMA OldSteps ==
    ASSUME TypeOK, NEW steps \in Seq(StepRecord), NEW k \in {0, 1}, Replaces(steps, k),
           NEW i \in Positions, i > k
    PROVE  /\ i - k + Len(steps) \in 1 .. Len(agenda')
           /\ i - k + Len(steps) > Len(steps)
           /\ agenda'[i - k + Len(steps)] = agenda[i]
  <1>1. agenda \in Seq(StepRecord) /\ Len(agenda) \in Nat /\ Len(steps) \in Nat
    BY DEF TypeOK
  <1>2. /\ i - k + Len(steps) \in 1 .. Len(agenda')
        /\ i - k + Len(steps) > Len(steps)
    BY <1>1 DEF Replaces, Positions
  <1>3. (i - k + Len(steps)) - Len(steps) + k = i
    BY <1>1 DEF Positions
  <1> QED
    BY <1>2, <1>3 DEF Replaces

(* No step of this name comes or goes.                                     *)
LEMMA FlagKept ==
    ASSUME TypeOK, NEW steps \in Seq(StepRecord), NEW k \in {0, 1}, Replaces(steps, k),
           NEW name \in StepName,
           \A i \in 1 .. Len(steps) : steps[i].do # name,
           k = 1 => agenda[1].do # name,
           \A i, j \in Pending({name}) : i = j
    PROVE  /\ Pending({name})' = {} <=> Pending({name}) = {}
           /\ \A i, j \in Pending({name})' : i = j
  <1>1. agenda \in Seq(StepRecord) /\ Len(agenda) \in Nat /\ Len(steps) \in Nat
    BY DEF TypeOK
  <1>a. PICK before : before = Pending({name})
    OBVIOUS
  <1>b. PICK after : after = Pending({name})'
    OBVIOUS
  <1>2. /\ before = {i \in Positions : agenda[i].do = name}
        /\ after = {i \in 1 .. Len(agenda') : agenda'[i].do = name}
    BY <1>1, <1>a, <1>b DEF Pending, Positions, Replaces
  <1>3. ASSUME NEW i \in after PROVE i \in Nat /\ i - Len(steps) + k \in before
    <2>1. i \in 1 .. Len(agenda') /\ agenda'[i].do = name
      BY <1>2
    <2>2. i > Len(steps)
      <3>1. ~(i \in 1 .. Len(steps))
        BY <2>1 DEF Replaces
      <3> QED
        BY <1>1, <2>1, <3>1
    <2>3. i - Len(steps) + k \in Positions /\ agenda'[i] = agenda[i - Len(steps) + k]
      BY <2>1, <2>2 DEF Replaces
    <2> QED
      BY <1>2, <2>1, <2>3
  <1>4. ASSUME NEW i \in before PROVE i - k + Len(steps) \in after
    <2>1. i \in Positions /\ agenda[i].do = name
      BY <1>2
    <2>2. i > k
      BY <1>1, <2>1 DEF Positions
    <2> QED
      BY <1>2, <2>1, <2>2, OldSteps
  <1>5. ASSUME NEW i \in after, NEW j \in after PROVE i = j
    <2>1. i - Len(steps) + k = j - Len(steps) + k
      BY <1>3, <1>a
    <2>2. i \in Nat /\ j \in Nat
      BY <1>3
    <2> QED
      BY <1>1, <2>1, <2>2
  <1> QED
    BY <1>a, <1>b, <1>3, <1>4, <1>5

(* The first and only step of this name comes.                             *)
LEMMA FlagRaised ==
    ASSUME TypeOK, NEW steps \in Seq(StepRecord), NEW k \in {0, 1}, Replaces(steps, k),
           NEW name \in StepName,
           NEW m \in 1 .. Len(steps),
           \A i \in 1 .. Len(steps) : steps[i].do = name <=> i = m,
           Pending({name}) = {}
    PROVE  /\ Pending({name})' # {}
           /\ \A i, j \in Pending({name})' : i = j
  <1>1. agenda \in Seq(StepRecord) /\ Len(agenda) \in Nat /\ Len(steps) \in Nat
    BY DEF TypeOK
  <1>b. PICK after : after = Pending({name})'
    OBVIOUS
  <1>2. /\ \A i \in Positions : agenda[i].do # name
        /\ after = {i \in 1 .. Len(agenda') : agenda'[i].do = name}
    BY <1>1, <1>b DEF Pending, Positions, Replaces
  <1>3. m \in after
    <2>1. m \in 1 .. Len(agenda') /\ agenda'[m] = steps[m]
      BY <1>1 DEF Replaces
    <2> QED
      BY <1>2, <2>1
  <1>4. ASSUME NEW i \in after PROVE i = m
    <2>1. i \in 1 .. Len(agenda') /\ agenda'[i].do = name
      BY <1>2
    <2>2. CASE i > Len(steps)
      <3>1. i - Len(steps) + k \in Positions /\ agenda'[i] = agenda[i - Len(steps) + k]
        BY <2>1, <2>2 DEF Replaces
      <3> QED
        BY <1>2, <2>1, <3>1
    <2>3. CASE i <= Len(steps)
      <3>1. i \in 1 .. Len(steps)
        BY <1>1, <2>1, <2>3
      <3>2. agenda'[i] = steps[i]
        BY <3>1 DEF Replaces
      <3> QED
        BY <2>1, <3>1, <3>2
    <2> QED
      BY <1>1, <2>1, <2>2, <2>3
  <1> QED
    BY <1>b, <1>3, <1>4

(* The only step of this name is done.                                     *)
LEMMA FlagDropped ==
    ASSUME TypeOK, Replaces(<<>>, 1), NEW name \in StepName,
           agenda # <<>>, agenda[1].do = name,
           \A i, j \in Pending({name}) : i = j
    PROVE  Pending({name})' = {}
  <1>1. agenda \in Seq(StepRecord) /\ Len(agenda) \in Nat
    BY DEF TypeOK
  <1>a. PICK before : before = Pending({name})
    OBVIOUS
  <1>b. PICK after : after = Pending({name})'
    OBVIOUS
  <1>2. /\ before = {i \in Positions : agenda[i].do = name}
        /\ after = {i \in 1 .. Len(agenda') : agenda'[i].do = name}
    BY <1>1, <1>a, <1>b DEF Pending, Positions, Replaces
  <1>3. 1 \in before
    BY <1>1, <1>2 DEF Positions
  <1>4. ASSUME NEW i \in after PROVE FALSE
    <2>1. i \in 1 .. Len(agenda') /\ agenda'[i].do = name
      BY <1>2
    <2>2. i + 1 \in Positions /\ agenda'[i] = agenda[i + 1]
      <3>1. i > Len(<<>>) /\ i - Len(<<>>) + 1 = i + 1
        BY <2>1
      <3> QED
        BY <2>1, <3>1 DEF Replaces
    <2>3. i + 1 \in before
      BY <1>2, <2>1, <2>2
    <2>4. i + 1 = 1
      BY <1>a, <1>3, <2>3
    <2> QED
      BY <2>1, <2>4
  <1> QED
    BY <1>b, <1>4

(* Nothing but the steps of a Close() comes before its end.                *)
LEMMA ClosesStayOnTop ==
    ASSUME TypeOK, NEW steps \in Seq(StepRecord), NEW k \in {0, 1}, Replaces(steps, k),
           k <= Len(agenda), ClosesOnTop,
           \A p, q \in 1 .. Len(steps) :
               steps[p].do = "end_close" /\ q < p => steps[q].do \in ClosingSteps,
           k = 1 /\ agenda[1].do \in ClosingSteps /\ Pending({"end_close"}) # {}
               => \A q \in 1 .. Len(steps) : steps[q].do \in ClosingSteps,
           k = 0 => agenda = <<>> \/ agenda[1].do \in Callbacks
    PROVE  ClosesOnTop'
  <1>1. agenda \in Seq(StepRecord) /\ Len(agenda) \in Nat /\ Len(steps) \in Nat
    BY DEF TypeOK
  <1> SUFFICES ASSUME NEW p \in 1 .. Len(agenda'), agenda'[p].do = "end_close",
                      NEW q \in 1 .. Len(agenda'), q < p
               PROVE  agenda'[q].do \in ClosingSteps
    BY DEF ClosesOnTop, Positions
  <1>2. CASE p <= Len(steps)
    <2>1. p \in 1 .. Len(steps) /\ q \in 1 .. Len(steps)
      BY <1>1, <1>2
    <2>2. agenda'[p] = steps[p] /\ agenda'[q] = steps[q]
      BY <2>1 DEF Replaces
    <2> QED
      BY <2>1, <2>2
  <1>3. CASE p > Len(steps)
    <2>1. /\ p - Len(steps) + k \in Positions
          /\ agenda[p - Len(steps) + k].do = "end_close"
      BY <1>3 DEF Replaces
    <2>2. Pending({"end_close"}) # {}
      BY <1>1, <2>1 DEF Pending, Positions
    <2>3. ASSUME q > Len(steps) PROVE agenda'[q].do \in ClosingSteps
      <3>1. q - Len(steps) + k \in Positions /\ agenda'[q] = agenda[q - Len(steps) + k]
        BY <2>3 DEF Replaces
      <3>2. q - Len(steps) + k < p - Len(steps) + k
        BY <1>1
      <3> QED
        BY <2>1, <3>1, <3>2 DEF ClosesOnTop
    <2>4. ASSUME q <= Len(steps) PROVE agenda'[q].do \in ClosingSteps
      <3>0. 1 \in Positions /\ agenda # <<>>
        BY <1>1, <2>1 DEF Positions
      <3>1. CASE k = 1
        <4>1. 1 < p - Len(steps) + k
          BY <1>1, <1>3, <3>1
        <4>2. agenda[1].do \in ClosingSteps
          BY <2>1, <3>0, <4>1 DEF ClosesOnTop
        <4>3. \A r \in 1 .. Len(steps) : steps[r].do \in ClosingSteps
          BY <2>2, <3>1, <4>2
        <4>4. q \in 1 .. Len(steps)
          BY <1>1, <2>4
        <4>5. agenda'[q] = steps[q]
          BY <4>4 DEF Replaces
        <4> QED
          BY <4>3, <4>4, <4>5
      <3>2. CASE k = 0
        <4>1. agenda[1].do \in Callbacks
          BY <3>0, <3>2
        <4>2. CASE p - Len(steps) + k = 1
          BY <2>1, <4>1, <4>2 DEF Callbacks
        <4>3. CASE p - Len(steps) + k # 1
          <5>1. 1 < p - Len(steps) + k
            BY <1>1, <2>1, <4>3 DEF Positions
          <5>2. agenda[1].do \in ClosingSteps
            BY <2>1, <3>0, <5>1 DEF ClosesOnTop
          <5> QED
            BY <4>1, <5>2 DEF ClosingSteps, Callbacks
        <4> QED
          BY <4>2, <4>3
      <3> QED
        BY <3>1, <3>2
    <2> QED
      BY <1>1, <2>3, <2>4
  <1> QED
    BY <1>1, <1>2, <1>3

(* The bindings stay where they are needed.                                *)
LEMMA BoundStepsKept ==
    ASSUME TypeOK, NEW steps \in Seq(StepRecord), NEW k \in {0, 1}, Replaces(steps, k),
           BoundSteps, registered => registered', stopped => stopped',
           \A p \in 1 .. Len(steps) :
               /\ steps[p].do \in {"cs_callback", "init_native", "set_options"} => registered'
               /\ steps[p].do = "release_bindings" => stopped'
    PROVE  BoundSteps'
  <1>1. agenda \in Seq(StepRecord) /\ Len(agenda) \in Nat /\ Len(steps) \in Nat
    BY DEF TypeOK
  <1> SUFFICES ASSUME NEW p \in 1 .. Len(agenda')
               PROVE  /\ agenda'[p].do \in {"cs_callback", "init_native", "set_options"} => registered'
                      /\ agenda'[p].do = "release_bindings" => stopped'
    BY DEF BoundSteps, Positions
  <1>2. CASE p <= Len(steps)
    <2>1. p \in 1 .. Len(steps) /\ agenda'[p] = steps[p]
      BY <1>1, <1>2 DEF Replaces
    <2> QED
      BY <2>1
  <1>3. CASE p > Len(steps)
    <2>1. p - Len(steps) + k \in Positions /\ agenda'[p] = agenda[p - Len(steps) + k]
      BY <1>3 DEF Replaces
    <2> QED
      BY <2>1 DEF BoundSteps
  <1> QED
    BY <1>1, <1>2, <1>3

(* Steps that come in the place of a step of an initialization belong to   *)
(* one themselves; those before a callback are not counted.                *)
Soon(steps, k) ==
    /\ k = 1 /\ agenda[1].do \in InitSteps
           => \A q \in 1 .. Len(steps) : steps[q].do \in InitSteps
    /\ k = 0 => agenda = <<>> \/ agenda[1].do \in Callbacks

LEMMA SoonKept ==
    ASSUME TypeOK, NEW steps \in Seq(StepRecord), NEW k \in {0, 1}, Replaces(steps, k),
           Soon(steps, k), NEW p \in Positions, p > k, agenda[p].do = "set_options", SoonAt(p)
    PROVE  \A q \in 1 .. Len(agenda') :
               q < p - k + Len(steps) => agenda'[q].do \in InitSteps
  <1>1. agenda \in Seq(StepRecord) /\ Len(agenda) \in Nat /\ Len(steps) \in Nat
    BY DEF TypeOK
  <1>2. 1 \in Positions /\ agenda # <<>>
    BY <1>1 DEF Positions
  <1>3. k = 1
    <2>1. ASSUME k = 0 PROVE FALSE
      <3>1. agenda[1].do \in Callbacks
        BY <1>2, <2>1 DEF Soon
      <3>2. CASE p = 1
        BY <3>1, <3>2 DEF Callbacks
      <3>3. CASE p # 1
        <4>1. 1 < p
          BY <1>1, <3>3 DEF Positions
        <4>2. agenda[1].do \in InitSteps
          BY <1>2, <4>1 DEF SoonAt
        <4> QED
          BY <3>1, <4>2 DEF InitSteps, Callbacks
      <3> QED
        BY <3>2, <3>3
    <2> QED
      BY <2>1
  <1>4. \A q \in 1 .. Len(steps) : steps[q].do \in InitSteps
    <2>1. agenda[1].do \in InitSteps
      BY <1>2, <1>3 DEF SoonAt
    <2> QED
      BY <1>3, <2>1 DEF Soon
  <1>5. ASSUME NEW q \in 1 .. Len(agenda'), q < p - k + Len(steps)
        PROVE  agenda'[q].do \in InitSteps
    <2>1. CASE q <= Len(steps)
      <3>1. q \in 1 .. Len(steps) /\ agenda'[q] = steps[q]
        BY <1>1, <2>1 DEF Replaces
      <3> QED
        BY <1>4, <3>1
    <2>2. CASE q > Len(steps)
      <3>1. q - Len(steps) + k \in Positions /\ agenda'[q] = agenda[q - Len(steps) + k]
        BY <2>2 DEF Replaces
      <3>2. q - Len(steps) + k < p
        BY <1>1, <1>5 DEF Positions
      <3> QED
        BY <3>1, <3>2 DEF SoonAt
    <2> QED
      BY <1>1, <2>1, <2>2
  <1> QED
    BY <1>5

LEMMA SetsOptionsStill ==
    ASSUME TypeOK, NEW steps \in Seq(StepRecord), NEW k \in {0, 1}, Replaces(steps, k),
           Soon(steps, k), SetsOptionsSoon,
           k = 1 => agenda[1].do # "set_options"
    PROVE  SetsOptionsSoon'
  <1>1. agenda \in Seq(StepRecord) /\ Len(agenda) \in Nat /\ Len(steps) \in Nat
    BY DEF TypeOK
  <1>2. PICK p \in Positions : agenda[p].do = "set_options" /\ SoonAt(p)
    BY DEF SetsOptionsSoon
  <1>3. p > k
    BY <1>1, <1>2 DEF Positions
  <1>4. /\ p - k + Len(steps) \in 1 .. Len(agenda')
        /\ agenda'[p - k + Len(steps)].do = "set_options"
    BY <1>2, <1>3, OldSteps
  <1>5. \A q \in 1 .. Len(agenda') :
            q < p - k + Len(steps) => agenda'[q].do \in InitSteps
    BY <1>2, <1>3, SoonKept
  <1> QED
    BY <1>4, <1>5 DEF SetsOptionsSoon, SoonAt, Positions

(* The native layer is told of a BeforeSend before it is set, or already   *)
(* knows and is not told otherwise in between.                             *)
LEMMA HooksStayAhead ==
    ASSUME TypeOK, NEW steps \in Seq(StepRecord), NEW k \in {0, 1}, Replaces(steps, k),
           k <= Len(agenda), Soon(steps, k), HooksAhead,
           \/ definedHooks' = definedHooks
           \/ k = 1 /\ agenda[1].do \notin InitSteps,
           \A p \in 1 .. Len(steps) :
               steps[p].do = "set_options" /\ steps[p].with = "hooked"
                   => \E q \in 1 .. Len(steps) : /\ p = q + 1
                                                 /\ steps[q].do = "init_native"
                                                 /\ steps[q].with = "hooked",
           k = 1 /\ agenda[1].do = "init_native" /\ agenda[1].with = "hooked"
               => definedHooks' /\ \A q \in 1 .. Len(steps) : steps[q].do \in InitSteps
    PROVE  HooksAhead'
  <1>1. agenda \in Seq(StepRecord) /\ Len(agenda) \in Nat /\ Len(steps) \in Nat
    BY DEF TypeOK
  <1> SUFFICES ASSUME NEW p \in 1 .. Len(agenda'),
                      agenda'[p].do = "set_options", agenda'[p].with = "hooked"
               PROVE  \/ /\ definedHooks'
                         /\ \A q \in 1 .. Len(agenda') : q < p => agenda'[q].do \in InitSteps
                      \/ \E q \in 1 .. Len(agenda') : /\ p = q + 1
                                                      /\ agenda'[q].do = "init_native"
                                                      /\ agenda'[q].with = "hooked"
    BY DEF HooksAhead, SoonAt, Positions
  <1>2. CASE p <= Len(steps)
    <2>1. p \in 1 .. Len(steps) /\ agenda'[p] = steps[p]
      BY <1>1, <1>2 DEF Replaces
    <2>2. PICK q \in 1 .. Len(steps) : /\ p = q + 1
                                       /\ steps[q].do = "init_native"
                                       /\ steps[q].with = "hooked"
      BY <2>1
    <2>3. q \in 1 .. Len(agenda') /\ agenda'[q] = steps[q]
      BY <2>2 DEF Replaces
    <2> QED
      BY <2>2, <2>3
  <1>3. CASE p > Len(steps)
    <2> DEFINE o == p - Len(steps) + k
    <2>1. o \in Positions /\ agenda'[p] = agenda[o]
      BY <1>3 DEF Replaces
    <2>2. o > k /\ o - k + Len(steps) = p
      BY <1>1, <1>3, <2>1 DEF Positions
    <2> HIDE DEF o
    <2>3. \/ definedHooks /\ SoonAt(o)
          \/ \E q \in Positions : /\ o = q + 1
                                  /\ agenda[q].do = "init_native"
                                  /\ agenda[q].with = "hooked"
      BY <2>1 DEF HooksAhead
    <2>4. CASE definedHooks /\ SoonAt(o)
      <3>1. \A q \in 1 .. Len(agenda') : q < p => agenda'[q].do \in InitSteps
        BY <2>1, <2>2, <2>4, SoonKept
      <3>2. k = 1 => agenda[1].do \in InitSteps
        <4>1. ASSUME k = 1 PROVE 1 \in Positions /\ 1 < o
          BY <1>1, <2>1, <2>2, <4>1 DEF Positions
        <4> QED
          BY <2>4, <4>1 DEF SoonAt
      <3> QED
        BY <2>4, <3>1, <3>2
    <2>5. ASSUME NEW q \in Positions, o = q + 1,
                 agenda[q].do = "init_native", agenda[q].with = "hooked"
          PROVE  \/ /\ definedHooks'
                    /\ \A r \in 1 .. Len(agenda') : r < p => agenda'[r].do \in InitSteps
                 \/ \E r \in 1 .. Len(agenda') : /\ p = r + 1
                                                 /\ agenda'[r].do = "init_native"
                                                 /\ agenda'[r].with = "hooked"
      <3>1. CASE q > k
        <4>1. /\ q - k + Len(steps) \in 1 .. Len(agenda')
              /\ agenda'[q - k + Len(steps)] = agenda[q]
          BY <3>1, OldSteps
        <4>2. p = (q - k + Len(steps)) + 1
          BY <1>1, <2>2, <2>5 DEF Positions
        <4> QED
          BY <2>5, <4>1, <4>2
      <3>2. CASE q <= k
        <4>1. k = 1 /\ q = 1
          BY <1>1, <3>2 DEF Positions
        <4>2. definedHooks' /\ \A r \in 1 .. Len(steps) : steps[r].do \in InitSteps
          BY <2>5, <4>1
        <4>3. p = Len(steps) + 1
          BY <1>1, <2>2, <2>5, <4>1
        <4>4. ASSUME NEW r \in 1 .. Len(agenda'), r < p PROVE agenda'[r].do \in InitSteps
          <5>1. r \in 1 .. Len(steps)
            BY <1>1, <4>3, <4>4
          <5>2. agenda'[r] = steps[r]
            BY <5>1 DEF Replaces
          <5> QED
            BY <4>2, <5>1, <5>2
        <4> QED
          BY <4>2, <4>4
      <3> QED
        BY <1>1, <3>1, <3>2 DEF Positions
    <2> QED
      BY <2>3, <2>4, <2>5
  <1> QED
    BY <1>1, <1>2, <1>3

-----------------------------------------------------------------------------
(* All that is asked of the steps that come in the place of the first k.   *)
Allowed(steps, k) ==
    /\ k <= Len(agenda)
    /\ InOrder(steps, k)
    /\ Soon(steps, k)
    /\ \A p, q \in 1 .. Len(steps) :
           steps[p].do = "end_close" /\ q < p => steps[q].do \in ClosingSteps
    /\ k = 1 /\ agenda[1].do \in ClosingSteps /\ Pending({"end_close"}) # {}
           => \A q \in 1 .. Len(steps) : steps[q].do \in ClosingSteps
    /\ \A p \in 1 .. Len(steps) :
           /\ steps[p].do \in {"cs_callback", "init_native", "set_options"} => registered'
           /\ steps[p].do = "release_bindings" => stopped'
    /\ \A p \in 1 .. Len(steps) :
           steps[p].do = "set_options" /\ steps[p].with = "hooked"
               => \E q \in 1 .. Len(steps) : /\ p = q + 1
                                             /\ steps[q].do = "init_native"
                                             /\ steps[q].with = "hooked"
    /\ definedHooks' # definedHooks => k = 1 /\ agenda[1].do \notin InitSteps
    /\ k = 1 /\ agenda[1].do = "init_native" /\ agenda[1].with = "hooked"
           => definedHooks' /\ \A q \in 1 .. Len(steps) : steps[q].do \in InitSteps

LEMMA AgendaKept ==
    ASSUME LayersInv, NEW steps \in Seq(StepRecord), NEW k \in {0, 1}, Replaces(steps, k),
           Allowed(steps, k), registered => registered', stopped => stopped'
    PROVE  /\ agenda' \in Seq(StepRecord)
           /\ StepsInOrder' /\ ClosesOnTop' /\ BoundSteps' /\ HooksAhead'
           /\ SetsOptionsSoon /\ (k = 1 => agenda[1].do # "set_options") => SetsOptionsSoon'
  <1>0. TypeOK /\ StepsInOrder /\ ClosesOnTop /\ BoundSteps /\ HooksAhead
    BY DEF LayersInv
  <1>1. agenda' \in Seq(StepRecord)
    BY DEF Replaces
  <1>2. StepsInOrder'
    BY <1>0, OrderKept DEF Allowed
  <1>3. ClosesOnTop'
    <2>1. k = 0 => agenda = <<>> \/ agenda[1].do \in Callbacks
      BY DEF Allowed, Soon
    <2> QED
      BY <1>0, <2>1, ClosesStayOnTop DEF Allowed
  <1>4. BoundSteps'
    BY <1>0, BoundStepsKept DEF Allowed
  <1>5. HooksAhead'
    BY <1>0, HooksStayAhead DEF Allowed
  <1>6. SetsOptionsSoon /\ (k = 1 => agenda[1].do # "set_options") => SetsOptionsSoon'
    BY <1>0, SetsOptionsStill DEF Allowed
  <1> QED
    BY <1>1, <1>2, <1>3, <1>4, <1>5, <1>6

(* The flags outlast every step but the end of the call that set them.     *)
LEMMA FlagsKept ==
    ASSUME LayersInv, NEW steps \in Seq(StepRecord), NEW k \in {0, 1}, Replaces(steps, k)
    PROVE  /\ /\ \A i \in 1 .. Len(steps) : steps[i].do # "end_init"
              /\ k = 1 => agenda[1].do # "end_init"
              /\ initializing' = initializing
              => HeldOnce("end_init", initializing)'
           /\ /\ \A i \in 1 .. Len(steps) : steps[i].do # "end_close"
              /\ k = 1 => agenda[1].do # "end_close"
              /\ closing' = closing
              => HeldOnce("end_close", closing)'
  <1>0. TypeOK /\ HeldOnce("end_init", initializing) /\ HeldOnce("end_close", closing)
    BY DEF LayersInv, FlagsReleased
  <1>1. "end_init" \in StepName /\ "end_close" \in StepName
    BY DEF StepName
  <1>2. ASSUME \A i \in 1 .. Len(steps) : steps[i].do # "end_init",
               k = 1 => agenda[1].do # "end_init",
               initializing' = initializing
        PROVE  HeldOnce("end_init", initializing)'
    <2>1. \A i, j \in Pending({"end_init"}) : i = j
      BY <1>0 DEF HeldOnce
    <2>2. /\ Pending({"end_init"})' = {} <=> Pending({"end_init"}) = {}
          /\ \A i, j \in Pending({"end_init"})' : i = j
      BY <1>0, <1>1, <1>2, <2>1, FlagKept, SMTT(30)
    <2> QED
      BY <1>0, <1>2, <2>2 DEF HeldOnce
  <1>3. ASSUME \A i \in 1 .. Len(steps) : steps[i].do # "end_close",
               k = 1 => agenda[1].do # "end_close",
               closing' = closing
        PROVE  HeldOnce("end_close", closing)'
    <2>1. \A i, j \in Pending({"end_close"}) : i = j
      BY <1>0 DEF HeldOnce
    <2>2. /\ Pending({"end_close"})' = {} <=> Pending({"end_close"}) = {}
          /\ \A i, j \in Pending({"end_close"})' : i = j
      BY <1>0, <1>1, <1>3, <2>1, FlagKept, SMTT(30)
    <2> QED
      BY <1>0, <1>3, <2>2 DEF HeldOnce
  <1> QED
    BY <1>2, <1>3

(* A step that calls nothing.                                              *)
LEMMA PopKept ==
    ASSUME LayersInv, NEW name \in StepName, AtStep(name), Continue(<<>>),
           registered' = registered, stopped' = stopped,
           definedHooks' # definedHooks => name \notin InitSteps,
           name = "init_native" => (Argument = "hooked" => definedHooks')
    PROVE  /\ agenda' \in Seq(StepRecord)
           /\ StepsInOrder' /\ ClosesOnTop' /\ BoundSteps' /\ HooksAhead'
           /\ SetsOptionsSoon /\ name # "set_options" => SetsOptionsSoon'
           /\ name # "end_init" /\ initializing' = initializing
                  => HeldOnce("end_init", initializing)'
           /\ name # "end_close" /\ closing' = closing => HeldOnce("end_close", closing)'
           /\ Replaces(<<>>, 1)
  <1>0. TypeOK /\ <<>> \in Seq(StepRecord) /\ 1 \in {0, 1} /\ Len(<<>>) = 0
    BY DEF LayersInv
  <1>1. agenda # <<>> /\ agenda[1].do = name /\ Head(agenda) = agenda[1] /\ 1 <= Len(agenda)
    BY <1>0 DEF AtStep, TypeOK
  <1>2. Replaces(<<>>, 1)
    BY <1>0, <1>1, ContinueReplaces
  <1>3. Allowed(<<>>, 1)
    BY <1>0, <1>1 DEF Allowed, InOrder, Soon, Argument
  <1>4. /\ agenda' \in Seq(StepRecord)
        /\ StepsInOrder' /\ ClosesOnTop' /\ BoundSteps' /\ HooksAhead'
        /\ SetsOptionsSoon /\ name # "set_options" => SetsOptionsSoon'
    BY <1>0, <1>1, <1>2, <1>3, AgendaKept
  <1>5. \A i \in 1 .. Len(<<>>) : <<>>[i].do # "end_init" /\ <<>>[i].do # "end_close"
    BY <1>0
  <1>6. name # "end_init" /\ initializing' = initializing
            => HeldOnce("end_init", initializing)'
    BY <1>0, <1>1, <1>2, <1>5, FlagsKept
  <1>7. name # "end_close" /\ closing' = closing => HeldOnce("end_close", closing)'
    BY <1>0, <1>1, <1>2, <1>5, FlagsKept
  <1> QED
    BY <1>2, <1>4, <1>6, <1>7

(* What is next after it.                                                  *)
LEMMA PopNext ==
    ASSUME LayersInv, NEW name \in StepName, AtStep(name), Continue(<<>>)
    PROVE  /\ name # "set_options" => ~Now({"init_hub", "install_handler"})'
           /\ ~Now({"install_handler"})'
           /\ Now({"close_hub"})' <=> name = "dispose_handler"
           /\ Now({"clear_options"})' <=> name = "close_hub"
           /\ name \notin {"notify_close", "end_close"} => ~Now({"clear_hooks"})'
           /\ name # "clear_hooks" => ~Now({"remove_logger"})'
           /\ name # "remove_logger" => ~Now({"close_backend"})'
           /\ ~Now({"add_logger"})'
           /\ name = "init_native" => Now({"set_options"})'
           /\ name = "set_options" => Now({"init_hub"})'
           /\ name \in {"cs_callback", "init_hub", "install_handler"} => Now({"end_init"})'
           /\ name = "release_bindings" => agenda' = <<>>
  <1>0. TypeOK /\ StepsInOrder /\ <<>> \in Seq(StepRecord) /\ 1 \in {0, 1}
    BY DEF LayersInv
  <1>1. agenda # <<>> /\ agenda[1].do = name
    BY <1>0 DEF AtStep, TypeOK
  <1>2. Replaces(<<>>, 1)
    BY <1>0, <1>1, ContinueReplaces
  <1>3. IF Len(agenda) = 1
        THEN agenda' = <<>> /\ name \notin Continued
        ELSE /\ agenda' # <<>>
             /\ agenda'[1] = agenda[2]
             /\ agenda[2] \in StepRecord
             /\ Before(agenda[1], agenda[2])
    BY <1>0, <1>1, <1>2, NewHead
  <1>4. CASE Len(agenda) = 1
    BY <1>3, <1>4 DEF Now, Continued
  <1>5. CASE Len(agenda) # 1
    BY <1>1, <1>3, <1>5 DEF Now, Before
  <1> QED
    BY <1>4, <1>5

(* The last of the new steps is followed by what the replaced one would    *)
(* have been followed by.                                                  *)
Plain ==
    StepName \ {"set_options", "dispose_handler", "close_hub", "notify_close", "end_close",
                "clear_hooks", "remove_logger", "release_bindings"}

(* ... and so may be the end of an initialization.                         *)
Replaced(name) ==
    CASE name = "cs_callback" -> {"init_hub"}
      [] name = "init_hub" -> {"install_handler"}
      [] OTHER -> {}

LEMMA Joins ==
    ASSUME LayersInv, NEW k \in {0, 1}, k + 1 \in Positions, NEW x,
           x.do # "release_bindings",
           x.do \in Continued => k = 1 /\ x.do \in Replaced(agenda[1].do),
           k = 0 => agenda[1].do \in Callbacks,
           k = 1 => \/ agenda[1].do \in Plain
                    \/ agenda[1].do = "notify_close" /\ x.do = "end_close"
    PROVE  Before(x, agenda[k + 1])
  <1>0. TypeOK /\ StepsInOrder /\ agenda \in Seq(StepRecord)
    BY DEF LayersInv, TypeOK
  <1>1. CASE k = 0
    <2>1. agenda[k + 1].do \in Callbacks
      BY <1>1
    <2> QED
      BY <1>1, <2>1 DEF Before, Callbacks, Continued
  <1>2. CASE k = 1
    <2>1. 1 \in Positions /\ 2 \in Positions /\ 2 = 1 + 1 /\ agenda[k + 1] = agenda[2]
      BY <1>0, <1>2 DEF Positions
    <2>2. Before(agenda[1], agenda[2])
      BY <1>0, <2>1 DEF StepsInOrder
    <2> QED
      BY <1>2, <2>1, <2>2 DEF Before, Plain, Continued, Replaced
  <1> QED
    BY <1>1, <1>2

(* A step or a call that has steps of its own to do.                       *)
Proper(steps, k) ==
    /\ steps # <<>>
    /\ \A i, j \in 1 .. Len(steps) : j = i + 1 => Before(steps[i], steps[j])
    /\ \A i \in 1 .. Len(steps) : steps[i].do = "set_options" => steps[i].with # "null"
    /\ steps[Len(steps)].do \in Continued
           => k = 1 /\ steps[Len(steps)].do \in Replaced(agenda[1].do)
    /\ steps[Len(steps)].do = "release_bindings" => agenda = <<>>
    /\ k = 1 => \/ agenda[1].do \in Plain
                \/ agenda[1].do = "notify_close" /\ steps[Len(steps)].do = "end_close"
    /\ k = 1 /\ agenda[1].do \in InitSteps
           => \A q \in 1 .. Len(steps) : steps[q].do \in InitSteps
    /\ \A p, q \in 1 .. Len(steps) :
           steps[p].do = "end_close" /\ q < p => steps[q].do \in ClosingSteps
    /\ k = 1 /\ agenda[1].do \in ClosingSteps /\ Pending({"end_close"}) # {}
           => \A q \in 1 .. Len(steps) : steps[q].do \in ClosingSteps
    /\ \A p \in 1 .. Len(steps) :
           /\ steps[p].do \in {"cs_callback", "init_native", "set_options"} => registered'
           /\ steps[p].do = "release_bindings" => stopped'
    /\ \A p \in 1 .. Len(steps) :
           steps[p].do = "set_options" /\ steps[p].with = "hooked"
               => \E q \in 1 .. Len(steps) : /\ p = q + 1
                                             /\ steps[q].do = "init_native"
                                             /\ steps[q].with = "hooked"
    /\ definedHooks' # definedHooks => k = 1 /\ agenda[1].do \notin InitSteps
    /\ k = 1 /\ agenda[1].do = "init_native" /\ agenda[1].with = "hooked"
           => definedHooks' /\ \A q \in 1 .. Len(steps) : steps[q].do \in InitSteps

LEMMA PushKept ==
    ASSUME LayersInv, NEW steps \in Seq(StepRecord), NEW k \in {0, 1}, Proper(steps, k),
           \/ /\ k = 0 /\ agenda' = steps \o agenda
              /\ agenda # <<>> => agenda[1].do \in Callbacks
           \/ k = 1 /\ agenda # <<>> /\ Continue(steps),
           registered => registered', stopped => stopped'
    PROVE  /\ Replaces(steps, k)
           /\ agenda' \in Seq(StepRecord)
           /\ StepsInOrder' /\ ClosesOnTop' /\ BoundSteps' /\ HooksAhead'
           /\ SetsOptionsSoon /\ (k = 1 => agenda[1].do # "set_options") => SetsOptionsSoon'
           /\ agenda' # <<>> /\ agenda'[1] = steps[1]
           /\ /\ \A i \in 1 .. Len(steps) : steps[i].do # "end_init"
              /\ k = 1 => agenda[1].do # "end_init"
              /\ initializing' = initializing
              => HeldOnce("end_init", initializing)'
           /\ /\ \A i \in 1 .. Len(steps) : steps[i].do # "end_close"
              /\ k = 1 => agenda[1].do # "end_close"
              /\ closing' = closing
              => HeldOnce("end_close", closing)'
  <1>0. TypeOK /\ agenda \in Seq(StepRecord) /\ Len(agenda) \in Nat
    BY DEF LayersInv, TypeOK
  <1>1. Replaces(steps, k)
    BY <1>0, ContinueReplaces, CallReplaces
  <1>2. Allowed(steps, k)
    <2>1. k <= Len(agenda)
      BY <1>0
    <2>2. InOrder(steps, k)
      <3>1. k + 1 \in Positions => Before(steps[Len(steps)], agenda[k + 1])
        <4>1. k + 1 \in Positions => agenda # <<>>
          BY <1>0 DEF Positions
        <4> QED
          BY <4>1, Joins DEF Proper
      <3>2. k = Len(agenda) => steps[Len(steps)].do \notin Continued
        <4> SUFFICES ASSUME k = Len(agenda), steps[Len(steps)].do \in Continued PROVE FALSE
          OBVIOUS
        <4>1. k = 1 /\ steps[Len(steps)].do \in Replaced(agenda[1].do)
          BY DEF Proper
        <4>2. agenda[1].do \in {"cs_callback", "init_hub"}
          BY <4>1 DEF Replaced
        <4>3. agenda # <<>> /\ Len(agenda) = 1
          BY <1>0, <4>1
        <4> QED
          BY <4>2, <4>3 DEF LayersInv, StepsInOrder, Continued
      <3> QED
        BY <3>1, <3>2 DEF InOrder, Proper
    <2>3. Soon(steps, k)
      BY DEF Soon, Proper
    <2> QED
      BY <2>1, <2>2, <2>3 DEF Allowed, Proper
  <1>3. /\ agenda' \in Seq(StepRecord)
        /\ StepsInOrder' /\ ClosesOnTop' /\ BoundSteps' /\ HooksAhead'
        /\ SetsOptionsSoon /\ (k = 1 => agenda[1].do # "set_options") => SetsOptionsSoon'
    BY <1>1, <1>2, AgendaKept
  <1>4. agenda' # <<>> /\ agenda'[1] = steps[1]
    BY <1>0, <1>1, NewHead DEF Proper
  <1> QED
    BY <1>1, <1>3, <1>4, FlagsKept

-----------------------------------------------------------------------------
(* The invariant, action by action.                                        *)

THEOREM LayersInit == Init => LayersInv
  <1> SUFFICES ASSUME Init PROVE LayersInv
    OBVIOUS
  <1>1. agenda = <<>> /\ Positions = {} /\ Pending({"end_init"}) = {} /\ Pending({"end_close"}) = {}
    BY DEF Init, Positions, Pending
  <1>2. TypeOK
    <2>1. agenda \in Seq(StepRecord)
      BY <1>1
    <2> QED
      BY <2>1 DEF Init, TypeOK, Options
  <1>3. StepsInOrder /\ HeadReady /\ HubState
    BY <1>1 DEF Init, StepsInOrder, HeadReady, HubState, Now
  <1>4. FlagsReleased
    BY <1>1 DEF Init, FlagsReleased, HeldOnce
  <1>5. ClosesOnTop /\ ClosingState /\ BoundSteps /\ BoundOptions /\ HooksAhead /\ HooksKnown
    BY <1>1 DEF Init, ClosesOnTop, ClosingState, BoundSteps, BoundOptions, HooksAhead, HooksKnown
  <1> QED
    BY <1>2, <1>3, <1>4, <1>5 DEF LayersInv

(* Done, and nothing that the invariant depends on has changed.            *)
LEMMA PlainPop ==
    ASSUME LayersInv, TypeOK', NEW name \in StepName, AtStep(name), Continue(<<>>),
           name \in Plain \cup {"notify_close", "remove_logger"},
           name \notin {"end_init", "init_native", "install_handler", "clear_options"},
           name = "notify_close" => currentOptions = "null",
           UNCHANGED <<bridgeVars, hubEnabled, currentOptions, handlers, flags, stopped>>
    PROVE  LayersInv'
  <1>0. TypeOK /\ UNCHANGED <<registered, definedHooks, initializing, closing>>
    BY DEF LayersInv, bridgeVars, flags
  <1>1. agenda # <<>> /\ agenda[1].do = name
    BY <1>0 DEF AtStep, TypeOK
  <1>2. name \notin {"set_options", "dispose_handler", "close_hub", "end_close", "clear_hooks",
                    "release_bindings"}
    BY DEF Plain
  <1>3. /\ StepsInOrder' /\ ClosesOnTop' /\ BoundSteps' /\ HooksAhead'
        /\ SetsOptionsSoon => SetsOptionsSoon'
        /\ HeldOnce("end_init", initializing)'
        /\ HeldOnce("end_close", closing)'
    BY <1>0, <1>2, PopKept
  <1>4. /\ ~Now({"init_hub", "install_handler"})'
        /\ ~Now({"close_hub"})' /\ ~Now({"clear_options"})'
        /\ name # "notify_close" => ~Now({"clear_hooks"})'
        /\ ~Now({"remove_logger"})'
        /\ name # "remove_logger" => ~Now({"close_backend"})'
    BY <1>0, <1>2, PopNext
  <1>5. HeadReady' /\ HubState'
    BY <1>0, <1>1, <1>2, <1>4 DEF LayersInv, HeadReady, HubState, Now
  <1>6. ClosingState' /\ BoundOptions' /\ HooksKnown'
    BY <1>0, <1>1, <1>2, <1>3 DEF LayersInv, ClosingState, BoundOptions, HooksKnown, Now
  <1> QED
    BY <1>3, <1>5, <1>6 DEF LayersInv, FlagsReleased

(* More to do first, and at most the flags and the bindings are set.       *)
LEMMA PlainPush ==
    ASSUME LayersInv, TypeOK', FlagsReleased',
           NEW steps \in Seq(StepRecord), NEW k \in {0, 1}, Proper(steps, k),
           \/ /\ k = 0 /\ agenda' = steps \o agenda
              /\ agenda # <<>> => agenda[1].do \in Callbacks
           \/ k = 1 /\ agenda # <<>> /\ Continue(steps),
           k = 1 => agenda[1].do \notin {"install_handler", "close_hub", "clear_options"},
           k = 0 => ~stopped,
           steps[1].do \notin {"init_hub", "install_handler", "close_hub", "clear_options", "clear_hooks",
                             "remove_logger", "close_backend"},
           registered => registered', stopped => stopped',
           closing' => closing \/ steps[1].do = "dispose_handler",
           UNCHANGED <<definedHooks, hubEnabled, currentOptions, handlers>>
    PROVE  LayersInv'
  <1>0. TypeOK
    BY DEF LayersInv
  <1>1. /\ StepsInOrder' /\ ClosesOnTop' /\ BoundSteps' /\ HooksAhead'
        /\ SetsOptionsSoon /\ (k = 1 => agenda[1].do # "set_options") => SetsOptionsSoon'
        /\ agenda' # <<>> /\ agenda'[1] = steps[1]
    BY PushKept
  <1>2. k = 1 => agenda[1].do \notin {"set_options", "dispose_handler"}
    BY DEF Proper, Plain
  <1>3. agenda # <<>> => agenda[1].do \notin {"install_handler", "close_hub", "clear_options", "dispose_handler"}
    BY <1>2 DEF Callbacks
  <1>4. HeadReady' /\ HubState'
    BY <1>1, <1>3 DEF LayersInv, HeadReady, HubState, Now
  <1>5. ClosingState' /\ BoundOptions' /\ HooksKnown'
    BY <1>1, <1>2, <1>3 DEF LayersInv, ClosingState, BoundOptions, HooksKnown, Now
  <1> QED
    BY <1>1, <1>4, <1>5 DEF LayersInv

LEMMA InitNativeSdkKeeps ==
    ASSUME LayersInv, NEW withCallback \in BOOLEAN, InitNativeSdk(withCallback) PROVE LayersInv'
  <1> DEFINE steps == IF withCallback THEN <<Step("gd_callback"), Step("init_backend")>>
                                      ELSE <<Step("init_backend")>>
  <1>0. /\ TypeOK /\ UserCode /\ agenda' = steps \o agenda /\ ~stopped
        /\ UNCHANGED <<nativeVars, hubVars, bypassed, registered, definedHooks, hubEnabled,
                       currentOptions, handlers, initializing, closing, stopped>>
    BY DEF LayersInv, InitNativeSdk, Call, UserCode, bridgeVars, hubVars, flags
  <1>1. /\ steps \in Seq(StepRecord) /\ steps # <<>>
        /\ 1 .. Len(steps) \subseteq {1, 2} /\ Len(steps) \in 1 .. Len(steps)
        /\ \A i \in 1 .. Len(steps) : steps[i].do \in {"gd_callback", "init_backend"}
    <2>1. CASE withCallback
      <3>1. steps = <<Step("gd_callback"), Step("init_backend")>>
        BY <2>1
      <3> QED
        BY <3>1, StepTypes DEF StepName, Callbacks, Step
    <2>2. CASE ~withCallback
      <3>1. steps = <<Step("init_backend")>>
        BY <2>2
      <3> QED
        BY <3>1, StepTypes DEF StepName, Callbacks, Step
    <2> QED
      BY <2>1, <2>2
  <1> HIDE DEF steps
  <1>2. agenda # <<>> => agenda[1].do \in Callbacks
    BY <1>0 DEF UserCode, TypeOK
  <1>3. 1 \in 1 .. Len(steps)
    BY <1>1
  <1>4. Proper(steps, 0)
    BY <1>0, <1>1, <1>2 DEF Proper, Before, Continued
  <1>5. /\ agenda' \in Seq(StepRecord)
        /\ HeldOnce("end_init", initializing)' /\ HeldOnce("end_close", closing)'
    <2>1. \A i \in 1 .. Len(steps) : steps[i].do # "end_init" /\ steps[i].do # "end_close"
      BY <1>1
    <2> QED
      BY <1>0, <1>1, <1>2, <1>4, <2>1, PushKept, SMTT(30)
  <1>6. TypeOK' /\ FlagsReleased'
    BY <1>0, <1>5 DEF TypeOK, FlagsReleased, nativeVars, hubVars
  <1> QED
    BY <1>0, <1>1, <1>2, <1>3, <1>4, <1>6, PlainPush

LEMMA ReturnFromGdCallbackKeeps ==
    ASSUME LayersInv, ReturnFromGdCallback PROVE LayersInv'
  <1>1. TypeOK /\ AtStep("gd_callback") /\ Continue(<<>>) /\ "gd_callback" \in Plain
    BY DEF LayersInv, ReturnFromGdCallback, Do, StepName, Callbacks, Plain
  <1>2. TypeOK'
    <2>1. agenda' \in Seq(StepRecord)
      BY <1>1, PopKept DEF ReturnFromGdCallback, bridgeVars, Plain
    <2> QED
      BY <1>1, <2>1 DEF TypeOK, ReturnFromGdCallback, nativeVars, bridgeVars, hubVars, flags
  <1> QED
    BY <1>1, <1>2, PlainPop DEF ReturnFromGdCallback, hubVars, Plain

LEMMA InitBackendKeeps ==
    ASSUME LayersInv, NEW ok \in BOOLEAN, InitBackend(ok) PROVE LayersInv'
  <1>0. TypeOK /\ AtStep("init_backend") /\ "init_backend" \in Plain /\ agenda # <<>>
    BY DEF LayersInv, InitBackend, Do, StepName, Plain, AtStep
  <1>1. CASE ok
    <2> DEFINE steps == <<Step("add_logger"), Step("notify_init")>>
    <2>1. /\ steps \in Seq(StepRecord) /\ steps # <<>>
          /\ Len(steps) = 2 /\ 1 .. Len(steps) = {1, 2}
          /\ steps[1].do = "add_logger" /\ steps[2].do = "notify_init"
      BY StepTypes DEF StepName, Step
    <2>2. Continue(steps) /\ agenda[1].do = "init_backend"
      BY <1>0, <1>1 DEF InitBackend, Do, AtStep, TypeOK
    <2> HIDE DEF steps
    <2>3. Proper(steps, 1)
      BY <1>0, <2>1, <2>2
         DEF Proper, Before, Continued, InitSteps, ClosingSteps, InitBackend, bridgeVars
    <2>4. /\ agenda' \in Seq(StepRecord)
          /\ HeldOnce("end_init", initializing)' /\ HeldOnce("end_close", closing)'
      BY <1>0, <2>1, <2>2, <2>3, PushKept DEF InitBackend, bridgeVars, flags
    <2>5. TypeOK' /\ FlagsReleased'
      BY <1>0, <2>4 DEF TypeOK, FlagsReleased, InitBackend, bridgeVars, hubVars, flags
    <2> QED
      BY <1>0, <2>1, <2>2, <2>3, <2>5, PlainPush DEF InitBackend, bridgeVars, hubVars, flags
  <1>2. CASE ~ok
    <2>1. Continue(<<>>)
      BY <1>2 DEF InitBackend, Do
    <2>2. agenda' \in Seq(StepRecord)
      BY <1>0, <2>1, PopKept DEF InitBackend, bridgeVars, Plain
    <2>3. TypeOK'
      BY <1>0, <2>2 DEF TypeOK, InitBackend, bridgeVars, hubVars, flags
    <2> QED
      BY <1>0, <2>1, <2>3, PlainPop DEF InitBackend, hubVars, Plain
  <1> QED
    BY <1>1, <1>2

LEMMA AddLoggerKeeps ==
    ASSUME LayersInv, NEW loggerOption \in BOOLEAN, AddLogger(loggerOption) PROVE LayersInv'
  <1>1. TypeOK /\ AtStep("add_logger") /\ Continue(<<>>) /\ "add_logger" \in Plain
    BY DEF LayersInv, AddLogger, Do, StepName, Callbacks, Plain
  <1>2. TypeOK'
    <2>1. agenda' \in Seq(StepRecord)
      BY <1>1, PopKept DEF AddLogger, bridgeVars, Plain
    <2> QED
      BY <1>1, <2>1 DEF TypeOK, AddLogger, nativeVars, bridgeVars, hubVars, flags
  <1> QED
    BY <1>1, <1>2, PlainPop DEF AddLogger, hubVars, Plain

(* The steps that the two layers ask of one another.                       *)
LEMMA AppendStep ==
    ASSUME NEW s \in Seq(StepRecord), NEW e \in StepRecord
    PROVE  /\ Append(s, e) \in Seq(StepRecord)
           /\ Len(Append(s, e)) = Len(s) + 1
           /\ \A i \in 1 .. Len(s) : Append(s, e)[i] = s[i]
           /\ Append(s, e)[Len(s) + 1] = e
  OBVIOUS

LEMMA ConcatSteps ==
    ASSUME NEW s \in Seq(StepRecord), NEW t \in Seq(StepRecord)
    PROVE  /\ s \o t \in Seq(StepRecord)
           /\ Len(s \o t) = Len(s) + Len(t)
           /\ \A i \in 1 .. Len(s) : (s \o t)[i] = s[i]
           /\ \A i \in 1 .. Len(t) : (s \o t)[i + Len(s)] = t[i]
  OBVIOUS

LEMMA InitDotnetSteps ==
    ASSUME NEW o \in Options
    PROVE  /\ InitDotnet(o) \in Seq(StepRecord) /\ Len(InitDotnet(o)) = 2
           /\ InitDotnet(o)[1] = StepWith("set_options", o)
           /\ InitDotnet(o)[2] = Step("init_hub")
           /\ StepWith("set_options", o).do = "set_options"
           /\ StepWith("set_options", o).with = o
           /\ Step("init_hub").do = "init_hub"
  BY StepTypes DEF InitDotnet, StepName, Step, StepWith

LEMMA InitFromNativeSteps ==
    LET steps == Append(InitDotnet("native"), Step("end_init"))
    IN  /\ steps \in Seq(StepRecord) /\ steps # <<>>
        /\ Len(steps) = 3 /\ 1 .. Len(steps) = {1, 2, 3}
        /\ steps[1].do = "set_options" /\ steps[1].with = "native"
        /\ steps[2].do = "init_hub" /\ steps[3].do = "end_init"
  <1>1. "native" \in Options /\ Step("end_init") \in StepRecord /\ Step("end_init").do = "end_init"
    BY StepTypes DEF Options, StepName, Step
  <1> DEFINE s == InitDotnet("native")
  <1>2. /\ s \in Seq(StepRecord) /\ Len(s) = 2 /\ s[1].do = "set_options" /\ s[1].with = "native"
        /\ s[2].do = "init_hub"
    BY <1>1, InitDotnetSteps
  <1> HIDE DEF s
  <1>3. /\ Append(s, Step("end_init")) \in Seq(StepRecord)
        /\ Len(Append(s, Step("end_init"))) = Len(s) + 1
        /\ \A i \in 1 .. Len(s) : Append(s, Step("end_init"))[i] = s[i]
        /\ Append(s, Step("end_init"))[Len(s) + 1] = Step("end_init")
    BY <1>1, <1>2, AppendStep
  <1>4. /\ Len(s) + 1 = 3 /\ 1 .. Len(s) = 1 .. 2 /\ 1 .. 3 = {1, 2, 3}
        /\ 1 \in 1 .. 2 /\ 2 \in 1 .. 2
    BY <1>2
  <1> QED
    BY <1>1, <1>2, <1>3, <1>4 DEF s

LEMMA CloseDotnetSteps ==
    /\ CloseDotnetSdk \in Seq(StepRecord) /\ Len(CloseDotnetSdk) = 3
    /\ CloseDotnetSdk[1].do = "dispose_handler"
    /\ CloseDotnetSdk[2].do = "close_hub"
    /\ CloseDotnetSdk[3].do = "clear_options"
  BY StepTypes DEF CloseDotnetSdk, StepName, Step

LEMMA CloseFromNativeSteps ==
    LET steps == Append(CloseDotnetSdk, Step("end_close"))
    IN  /\ steps \in Seq(StepRecord) /\ steps # <<>>
        /\ Len(steps) = 4 /\ 1 .. Len(steps) = {1, 2, 3, 4}
        /\ steps[1].do = "dispose_handler" /\ steps[2].do = "close_hub"
        /\ steps[3].do = "clear_options" /\ steps[4].do = "end_close"
  <1>1. Step("end_close") \in StepRecord /\ Step("end_close").do = "end_close"
    BY StepTypes DEF StepName, Step
  <1> DEFINE s == CloseDotnetSdk
  <1>2. /\ s \in Seq(StepRecord) /\ Len(s) = 3 /\ s[1].do = "dispose_handler"
        /\ s[2].do = "close_hub" /\ s[3].do = "clear_options"
    BY CloseDotnetSteps
  <1> HIDE DEF s
  <1>3. /\ Append(s, Step("end_close")) \in Seq(StepRecord)
        /\ Len(Append(s, Step("end_close"))) = Len(s) + 1
        /\ \A i \in 1 .. Len(s) : Append(s, Step("end_close"))[i] = s[i]
        /\ Append(s, Step("end_close"))[Len(s) + 1] = Step("end_close")
    BY <1>1, <1>2, AppendStep
  <1>4. /\ Len(s) + 1 = 4 /\ 1 .. Len(s) = 1 .. 3 /\ 1 .. 4 = {1, 2, 3, 4}
        /\ 1 \in 1 .. 3 /\ 2 \in 1 .. 3 /\ 3 \in 1 .. 3
    BY <1>2
  <1> QED
    BY <1>1, <1>2, <1>3, <1>4 DEF s

LEMMA CloseStepsProper ==
    /\ CloseSteps \in Seq(StepRecord) /\ CloseSteps # <<>>
    /\ Len(CloseSteps) = 4 /\ 1 .. Len(CloseSteps) = {1, 2, 3, 4}
    /\ CloseSteps[1].do = "notify_close" /\ CloseSteps[2].do = "clear_hooks"
    /\ CloseSteps[3].do = "remove_logger" /\ CloseSteps[4].do = "close_backend"
  BY StepTypes DEF CloseSteps, StepName, Step

LEMMA ShutdownSteps ==
    ASSUME NEW closes \in BOOLEAN
    PROVE  LET steps == (IF closes THEN CloseSteps ELSE <<>>) \o <<Step("release_bindings")>>
           IN  /\ steps \in Seq(StepRecord) /\ steps # <<>>
               /\ 1 \in 1 .. Len(steps) /\ Len(steps) \in 1 .. Len(steps)
               /\ steps[1].do \in {"notify_close", "release_bindings"}
               /\ steps[Len(steps)].do = "release_bindings"
               /\ \A i \in 1 .. Len(steps) :
                      IF i = Len(steps) THEN steps[i].do = "release_bindings"
                                        ELSE steps[i].do \in {"notify_close", "clear_hooks", "remove_logger", "close_backend"}
               /\ \A i, j \in 1 .. Len(steps) : j = i + 1 => Before(steps[i], steps[j])
               /\ \A p \in 1 .. Len(steps) : steps[p].do = "notify_close" =>
                      \E q \in 1 .. Len(steps) : q > p /\ steps[q].do = "close_backend"
  <1> DEFINE s == IF closes THEN CloseSteps ELSE <<>>
             t == <<Step("release_bindings")>>
  <1>1. t \in Seq(StepRecord) /\ Len(t) = 1 /\ t[1].do = "release_bindings"
    BY StepTypes DEF StepName, Step
  <1>2. /\ s \in Seq(StepRecord) /\ Len(s) \in {0, 4}
        /\ Len(s) = 4 => /\ s[1].do = "notify_close" /\ s[2].do = "clear_hooks"
                         /\ s[3].do = "remove_logger" /\ s[4].do = "close_backend"
    <2>1. CASE closes
      BY <2>1, CloseStepsProper
    <2>2. CASE ~closes
      BY <2>2
    <2> QED
      BY <2>1, <2>2
  <1> HIDE DEF s, t
  <1>3. PICK steps : steps = s \o t
    OBVIOUS
  <1>4. /\ steps \in Seq(StepRecord) /\ Len(steps) = Len(s) + 1
        /\ \A i \in 1 .. Len(s) : steps[i] = s[i]
        /\ steps[Len(s) + 1].do = "release_bindings"
    <2>1. \A i \in 1 .. Len(t) : steps[i + Len(s)] = t[i]
      BY <1>1, <1>2, <1>3, ConcatSteps
    <2>2. 1 \in 1 .. Len(t) /\ 1 + Len(s) = Len(s) + 1
      BY <1>1, <1>2
    <2>3. /\ steps \in Seq(StepRecord) /\ Len(steps) = Len(s) + Len(t)
          /\ \A i \in 1 .. Len(s) : steps[i] = s[i]
      BY <1>1, <1>2, <1>3, ConcatSteps
    <2>4. steps[Len(s) + 1] = t[1]
      BY <2>1, <2>2
    <2> QED
      BY <1>1, <2>3, <2>4
  <1>5. CASE Len(s) = 0
    <2>1. Len(steps) = 1 /\ steps[1].do = "release_bindings" /\ 1 .. Len(steps) = {1}
      BY <1>4, <1>5
    <2> QED
      BY <1>3, <1>4, <2>1 DEF s, t
  <1>6. CASE Len(s) = 4
    <2>1. Len(steps) = 5 /\ 1 .. Len(steps) = {1, 2, 3, 4, 5} /\ 1 .. Len(s) = {1, 2, 3, 4}
      BY <1>4, <1>6
    <2>2. /\ steps[1].do = "notify_close" /\ steps[2].do = "clear_hooks"
          /\ steps[3].do = "remove_logger" /\ steps[4].do = "close_backend"
          /\ steps[5].do = "release_bindings"
      BY <1>2, <1>4, <1>6, <2>1
    <2>3. /\ \A i \in 1 .. Len(steps) :
                 IF i = Len(steps) THEN steps[i].do = "release_bindings"
                                   ELSE steps[i].do \in {"notify_close", "clear_hooks", "remove_logger", "close_backend"}
          /\ \A i, j \in 1 .. Len(steps) : j = i + 1 => Before(steps[i], steps[j])
      BY <2>1, <2>2 DEF Before
    <2>4. \A p \in 1 .. Len(steps) : steps[p].do = "notify_close" =>
              \E q \in 1 .. Len(steps) : q > p /\ steps[q].do = "close_backend"
      <3>1. 4 \in 1 .. Len(steps) /\ \A p \in 1 .. Len(steps) : steps[p].do = "notify_close" => p < 4
        BY <2>1, <2>2
      <3> QED
        BY <2>2, <3>1
    <2> QED
      BY <1>3, <1>4, <2>1, <2>2, <2>3, <2>4 DEF s, t
  <1> QED
    BY <1>2, <1>5, <1>6

LEMMA CloseManagedSteps ==
    LET steps == CloseDotnetSdk \o <<Step("close_native"), Step("end_close")>>
    IN  /\ steps \in Seq(StepRecord) /\ steps # <<>>
        /\ Len(steps) = 5 /\ 1 .. Len(steps) = {1, 2, 3, 4, 5}
        /\ steps[1].do = "dispose_handler" /\ steps[2].do = "close_hub"
        /\ steps[3].do = "clear_options" /\ steps[4].do = "close_native"
        /\ steps[5].do = "end_close"
  <1> DEFINE s == CloseDotnetSdk
             t == <<Step("close_native"), Step("end_close")>>
  <1>1. t \in Seq(StepRecord) /\ Len(t) = 2 /\ t[1].do = "close_native" /\ t[2].do = "end_close"
    BY StepTypes DEF StepName, Step
  <1>2. /\ s \in Seq(StepRecord) /\ Len(s) = 3 /\ s[1].do = "dispose_handler"
        /\ s[2].do = "close_hub" /\ s[3].do = "clear_options"
    BY CloseDotnetSteps
  <1> HIDE DEF s, t
  <1>3. /\ s \o t \in Seq(StepRecord)
        /\ Len(s \o t) = Len(s) + Len(t)
        /\ \A i \in 1 .. Len(s) : (s \o t)[i] = s[i]
        /\ \A i \in 1 .. Len(t) : (s \o t)[i + Len(s)] = t[i]
    BY <1>1, <1>2, ConcatSteps
  <1>4. /\ 1 \in 1 .. Len(s) /\ 2 \in 1 .. Len(s) /\ 3 \in 1 .. Len(s)
        /\ 1 \in 1 .. Len(t) /\ 2 \in 1 .. Len(t)
        /\ 1 + Len(s) = 4 /\ 2 + Len(s) = 5 /\ Len(s) + Len(t) = 5
        /\ 1 .. 5 = {1, 2, 3, 4, 5}
    BY <1>1, <1>2
  <1> QED
    BY <1>1, <1>2, <1>3, <1>4 DEF s, t

LEMMA CallbackSteps ==
    ASSUME NEW o \in Options
    PROVE  LET steps == <<StepWith("init_native", o)>> \o InitDotnet(o)
           IN  /\ steps \in Seq(StepRecord) /\ steps # <<>>
               /\ Len(steps) = 3 /\ 1 .. Len(steps) = {1, 2, 3}
               /\ steps[1].do = "init_native" /\ steps[1].with = o
               /\ steps[2].do = "set_options" /\ steps[2].with = o
               /\ steps[3].do = "init_hub"
  <1> DEFINE s == <<StepWith("init_native", o)>>
             t == InitDotnet(o)
  <1>1. s \in Seq(StepRecord) /\ Len(s) = 1 /\ s[1].do = "init_native" /\ s[1].with = o
    BY StepTypes DEF StepName, StepWith
  <1>2. /\ t \in Seq(StepRecord) /\ Len(t) = 2 /\ t[1].do = "set_options"
        /\ t[1].with = o /\ t[2].do = "init_hub"
    BY InitDotnetSteps
  <1> HIDE DEF s, t
  <1>3. /\ s \o t \in Seq(StepRecord)
        /\ Len(s \o t) = Len(s) + Len(t)
        /\ \A i \in 1 .. Len(s) : (s \o t)[i] = s[i]
        /\ \A i \in 1 .. Len(t) : (s \o t)[i + Len(s)] = t[i]
    BY <1>1, <1>2, ConcatSteps
  <1>4. /\ 1 \in 1 .. Len(s) /\ 1 \in 1 .. Len(t) /\ 2 \in 1 .. Len(t)
        /\ 1 + Len(s) = 2 /\ 2 + Len(s) = 3 /\ Len(s) + Len(t) = 3
        /\ 1 .. 3 = {1, 2, 3}
    BY <1>1, <1>2
  <1> QED
    BY <1>1, <1>2, <1>3, <1>4 DEF s, t

LEMMA NotifyInitKeeps ==
    ASSUME LayersInv, NotifyInit PROVE LayersInv'
  <1>0. /\ TypeOK /\ AtStep("notify_init") /\ agenda # <<>> /\ agenda[1].do = "notify_init"
        /\ "notify_init" \in Plain
        /\ UNCHANGED <<nativeVars, hubVars, bypassed, registered, definedHooks, hubEnabled,
                       currentOptions, handlers, closing, stopped>>
    BY DEF LayersInv, NotifyInit, StepName, Plain, AtStep, TypeOK, bridgeVars, hubVars
  <1>1. CASE registered /\ ~initializing
    <2> DEFINE steps == Append(InitDotnet("native"), Step("end_init"))
    <2>1. /\ steps \in Seq(StepRecord) /\ steps # <<>>
          /\ Len(steps) = 3 /\ 1 .. Len(steps) = {1, 2, 3}
          /\ steps[1].do = "set_options" /\ steps[1].with = "native"
          /\ steps[2].do = "init_hub" /\ steps[3].do = "end_init"
      BY InitFromNativeSteps
    <2>2. initializing' = TRUE /\ Continue(steps)
      BY <1>1 DEF NotifyInit, InitFromNative
    <2> HIDE DEF steps
    <2>3. Proper(steps, 1)
      BY <1>0, <1>1, <2>1, <2>2 DEF Proper, Before, Continued, InitSteps, ClosingSteps
    <2>4. /\ Replaces(steps, 1) /\ agenda' \in Seq(StepRecord)
          /\ HeldOnce("end_close", closing)'
      BY <1>0, <2>1, <2>2, <2>3, PushKept
    <2>5. FlagsReleased'
      <3>1. Pending({"end_init"}) = {} /\ "end_init" \in StepName
        BY <1>1 DEF LayersInv, FlagsReleased, HeldOnce, StepName
      <3>2. 3 \in 1 .. Len(steps) /\ \A i \in 1 .. Len(steps) : steps[i].do = "end_init" <=> i = 3
        BY <2>1
      <3>3. Pending({"end_init"})' # {} /\ \A i, j \in Pending({"end_init"})' : i = j
        BY <1>0, <2>1, <2>4, <3>1, <3>2, FlagRaised
      <3> QED
        BY <2>2, <2>4, <3>3 DEF FlagsReleased, HeldOnce
    <2>6. TypeOK'
      BY <1>0, <2>2, <2>4 DEF TypeOK, nativeVars, hubVars
    <2> QED
      BY <1>0, <2>1, <2>2, <2>3, <2>5, <2>6, PlainPush
  <1>2. CASE ~(registered /\ ~initializing)
    <2>1. Continue(<<>>) /\ UNCHANGED initializing
      BY <1>2 DEF NotifyInit, InitFromNative
    <2>2. agenda' \in Seq(StepRecord)
      BY <1>0, <2>1, PopKept DEF Plain
    <2>3. TypeOK'
      BY <1>0, <2>1, <2>2 DEF TypeOK, nativeVars, hubVars
    <2> QED
      BY <1>0, <2>1, <2>3, PlainPop DEF Plain, bridgeVars, flags
  <1> QED
    BY <1>1, <1>2

LEMMA CloseNativeSdkKeeps ==
    ASSUME LayersInv, CloseNativeSdk PROVE LayersInv'
  <1>0. /\ TypeOK /\ UserCode /\ agenda' = CloseSteps \o agenda /\ ~stopped
        /\ UNCHANGED <<nativeVars, hubVars, bypassed, registered, definedHooks, hubEnabled,
                       currentOptions, handlers, initializing, closing, stopped>>
    BY DEF LayersInv, CloseNativeSdk, Call, UserCode, bridgeVars, hubVars, flags
  <1>1. agenda # <<>> => agenda[1].do \in Callbacks
    BY <1>0 DEF UserCode, TypeOK
  <1>2. Proper(CloseSteps, 0)
    BY <1>0, CloseStepsProper DEF Proper, Before, Continued
  <1>3. /\ agenda' \in Seq(StepRecord)
        /\ HeldOnce("end_init", initializing)' /\ HeldOnce("end_close", closing)'
    BY <1>0, <1>1, <1>2, CloseStepsProper, PushKept
  <1>4. TypeOK' /\ FlagsReleased'
    BY <1>0, <1>3 DEF TypeOK, FlagsReleased, nativeVars, hubVars
  <1> QED
    BY <1>0, <1>1, <1>2, <1>4, CloseStepsProper, PlainPush

LEMMA NotifyCloseKeeps ==
    ASSUME LayersInv, NotifyClose PROVE LayersInv'
  <1>0. /\ TypeOK /\ AtStep("notify_close") /\ agenda # <<>> /\ agenda[1].do = "notify_close"
        /\ "notify_close" \in StepName
        /\ UNCHANGED <<nativeVars, hubVars, bypassed, registered, definedHooks, hubEnabled,
                       currentOptions, handlers, initializing, stopped>>
    BY DEF LayersInv, NotifyClose, StepName, AtStep, TypeOK, bridgeVars, hubVars
  <1>1. CASE registered /\ ~closing
    <2> DEFINE steps == Append(CloseDotnetSdk, Step("end_close"))
    <2>1. /\ steps \in Seq(StepRecord) /\ steps # <<>>
          /\ Len(steps) = 4 /\ 1 .. Len(steps) = {1, 2, 3, 4}
          /\ steps[1].do = "dispose_handler" /\ steps[2].do = "close_hub"
          /\ steps[3].do = "clear_options" /\ steps[4].do = "end_close"
      BY CloseFromNativeSteps
    <2>2. closing' = TRUE /\ Continue(steps)
      BY <1>1 DEF NotifyClose
    <2> HIDE DEF steps
    <2>3. Pending({"end_close"}) = {} /\ "end_close" \in StepName
      BY <1>1 DEF LayersInv, FlagsReleased, HeldOnce, StepName
    <2>4. Proper(steps, 1)
      BY <1>0, <1>1, <2>1, <2>2, <2>3 DEF Proper, Before, Continued, InitSteps, ClosingSteps
    <2>5. /\ Replaces(steps, 1) /\ agenda' \in Seq(StepRecord)
          /\ HeldOnce("end_init", initializing)'
      BY <1>0, <2>1, <2>2, <2>4, PushKept
    <2>6. FlagsReleased'
      <3>1. 4 \in 1 .. Len(steps) /\ \A i \in 1 .. Len(steps) : steps[i].do = "end_close" <=> i = 4
        BY <2>1
      <3>2. Pending({"end_close"})' # {} /\ \A i, j \in Pending({"end_close"})' : i = j
        BY <1>0, <2>1, <2>3, <2>5, <3>1, FlagRaised
      <3> QED
        BY <2>2, <2>5, <3>2 DEF FlagsReleased, HeldOnce
    <2>7. TypeOK'
      BY <1>0, <2>2, <2>5 DEF TypeOK, nativeVars, hubVars
    <2> QED
      BY <1>0, <2>1, <2>2, <2>4, <2>6, <2>7, PlainPush
  <1>2. CASE ~(registered /\ ~closing)
    <2>1. Continue(<<>>) /\ UNCHANGED closing
      BY <1>2 DEF NotifyClose
    <2>2. currentOptions = "null"
      BY <1>0, <1>2 DEF LayersInv, BoundOptions, ClosingState, Now
    <2>3. agenda' \in Seq(StepRecord)
      BY <1>0, <2>1, PopKept
    <2>4. TypeOK'
      BY <1>0, <2>1, <2>3 DEF TypeOK, nativeVars, hubVars
    <2> QED
      BY <1>0, <2>1, <2>2, <2>4, PlainPop DEF bridgeVars, flags
  <1> QED
    BY <1>1, <1>2

LEMMA RemoveLoggerKeeps ==
    ASSUME LayersInv, RemoveLogger PROVE LayersInv'
  <1>1. TypeOK /\ AtStep("remove_logger") /\ Continue(<<>>) /\ "remove_logger" \in StepName
    BY DEF LayersInv, RemoveLogger, Do, StepName, Callbacks, Plain
  <1>2. TypeOK'
    <2>1. agenda' \in Seq(StepRecord)
      BY <1>1, PopKept DEF RemoveLogger, bridgeVars
    <2> QED
      BY <1>1, <2>1 DEF TypeOK, RemoveLogger, nativeVars, bridgeVars, hubVars, flags
  <1> QED
    BY <1>1, <1>2, PlainPop DEF RemoveLogger, hubVars, Plain

LEMMA CloseBackendKeeps ==
    ASSUME LayersInv, CloseBackend PROVE LayersInv'
  <1>1. TypeOK /\ AtStep("close_backend") /\ Continue(<<>>) /\ "close_backend" \in Plain
    BY DEF LayersInv, CloseBackend, Do, StepName, Callbacks, Plain
  <1>2. TypeOK'
    <2>1. agenda' \in Seq(StepRecord)
      BY <1>1, PopKept DEF CloseBackend, bridgeVars, Plain
    <2> QED
      BY <1>1, <2>1 DEF TypeOK, CloseBackend, nativeVars, bridgeVars, hubVars, flags
  <1> QED
    BY <1>1, <1>2, PlainPop DEF CloseBackend, hubVars, Plain

LEMMA ShutdownKeeps ==
    ASSUME LayersInv, Shutdown PROVE LayersInv'
  <1> DEFINE steps == (IF nativeEnabled THEN CloseSteps ELSE <<>>) \o <<Step("release_bindings")>>
  <1>0. /\ TypeOK /\ agenda = <<>> /\ agenda' = steps /\ ~stopped /\ stopped' = TRUE
        /\ nativeEnabled \in BOOLEAN
        /\ UNCHANGED <<nativeVars, hubVars, bypassed, registered, definedHooks, hubEnabled,
                       currentOptions, handlers, initializing, closing>>
    BY DEF LayersInv, TypeOK, Shutdown, Idle, bridgeVars, hubVars, flags
  <1>1. /\ steps \in Seq(StepRecord) /\ steps # <<>>
        /\ 1 \in 1 .. Len(steps) /\ Len(steps) \in 1 .. Len(steps)
        /\ steps[1].do \in {"notify_close", "release_bindings"}
        /\ steps[Len(steps)].do = "release_bindings"
        /\ \A i \in 1 .. Len(steps) :
               IF i = Len(steps) THEN steps[i].do = "release_bindings"
                                 ELSE steps[i].do \in {"notify_close", "clear_hooks", "remove_logger", "close_backend"}
        /\ \A i, j \in 1 .. Len(steps) : j = i + 1 => Before(steps[i], steps[j])
    BY <1>0, ShutdownSteps
  <1> HIDE DEF steps
  <1>2. agenda' = steps \o agenda
    BY <1>0, <1>1
  <1>3. \A i \in 1 .. Len(steps) :
            steps[i].do \notin {"end_init", "end_close", "set_options", "init_native", "cs_callback"}
    BY <1>1 DEF ClosingSteps
  <1>4. Proper(steps, 0)
    BY <1>0, <1>1, <1>3 DEF Proper, Continued
  <1>5. \A i \in 1 .. Len(steps) : steps[i].do # "end_init" /\ steps[i].do # "end_close"
    BY <1>3
  <1>6. /\ agenda' \in Seq(StepRecord)
        /\ HeldOnce("end_init", initializing)' /\ HeldOnce("end_close", closing)'
    BY <1>0, <1>1, <1>2, <1>4, <1>5, PushKept
  <1>7. TypeOK' /\ FlagsReleased'
    BY <1>0, <1>6 DEF TypeOK, FlagsReleased, nativeVars, hubVars
  <1> QED
    BY <1>0, <1>1, <1>2, <1>4, <1>7, PlainPush

LEMMA ReleaseBindingsKeeps ==
    ASSUME LayersInv, ReleaseBindings PROVE LayersInv'
  <1>0. /\ TypeOK /\ AtStep("release_bindings") /\ Continue(<<>>)
        /\ "release_bindings" \in StepName /\ stopped
        /\ agenda # <<>> /\ agenda[1].do = "release_bindings" /\ 1 \in Positions
        /\ registered' = FALSE
        /\ UNCHANGED <<nativeVars, hubVars, bypassed, definedHooks, hubEnabled,
                       currentOptions, handlers, initializing, closing, stopped>>
    <2>1. /\ TypeOK /\ AtStep("release_bindings") /\ Continue(<<>>)
          /\ "release_bindings" \in StepName
          /\ agenda # <<>> /\ agenda[1].do = "release_bindings" /\ 1 \in Positions
      BY DEF LayersInv, TypeOK, ReleaseBindings, Do, AtStep, StepName, Positions
    <2> QED
      BY <2>1 DEF LayersInv, BoundSteps, ReleaseBindings, hubVars, flags
  <1>1. agenda' = <<>> /\ 1 .. Len(agenda') = {} /\ <<>> \in Seq(StepRecord) /\ Len(<<>>) = 0
    BY <1>0, PopNext
  <1>2. Replaces(<<>>, 1)
    BY <1>0, <1>1, ContinueReplaces
  <1>3. FlagsReleased'
    <2>1. \A i \in 1 .. Len(<<>>) : <<>>[i].do # "end_init" /\ <<>>[i].do # "end_close"
      BY <1>1
    <2>2. HeldOnce("end_init", initializing)'
      BY <1>0, <1>1, <1>2, <2>1, FlagsKept
    <2>3. HeldOnce("end_close", closing)'
      BY <1>0, <1>1, <1>2, <2>1, FlagsKept
    <2> QED
      BY <2>2, <2>3 DEF FlagsReleased
  <1>4. TypeOK'
    BY <1>0, <1>1 DEF TypeOK, nativeVars, hubVars
  <1>5. StepsInOrder' /\ ClosesOnTop' /\ BoundSteps' /\ HooksAhead'
    BY <1>1 DEF StepsInOrder, ClosesOnTop, BoundSteps, HooksAhead, Positions
  <1>6. HeadReady' /\ HubState'
    BY <1>0, <1>1 DEF LayersInv, HeadReady, HubState, Now
  <1>7. ClosingState' /\ BoundOptions'
    BY <1>0, <1>1 DEF LayersInv, ClosingState, BoundOptions, Now
  <1>8. HooksKnown'
    <2>1. ~SetsOptionsSoon
      <3> SUFFICES ASSUME NEW p \in Positions, agenda[p].do = "set_options", SoonAt(p)
                   PROVE  FALSE
        BY DEF SetsOptionsSoon
      <3>1. p # 1
        BY <1>0
      <3>2. 1 < p
        BY <3>1 DEF Positions
      <3> QED
        BY <1>0, <3>2 DEF SoonAt, InitSteps
    <2> QED
      BY <1>0, <2>1 DEF LayersInv, HooksKnown
  <1> QED
    BY <1>3, <1>4, <1>5, <1>6, <1>7, <1>8 DEF LayersInv

LEMMA ClearHooksKeeps ==
    ASSUME LayersInv, ClearHooks PROVE LayersInv'
  <1>0. /\ TypeOK /\ AtStep("clear_hooks") /\ Continue(<<>>) /\ "clear_hooks" \in StepName
        /\ agenda # <<>> /\ agenda[1].do = "clear_hooks" /\ "clear_hooks" \notin InitSteps
        /\ definedHooks' = FALSE
        /\ UNCHANGED <<nativeVars, hubVars, bypassed, registered, hubEnabled,
                       currentOptions, handlers, initializing, closing, stopped>>
    BY DEF LayersInv, TypeOK, ClearHooks, Do, AtStep, StepName, InitSteps, hubVars, flags
  <1>1. currentOptions = "null"
    BY <1>0 DEF LayersInv, HeadReady, Now
  <1>2. /\ agenda' \in Seq(StepRecord)
        /\ StepsInOrder' /\ ClosesOnTop' /\ BoundSteps' /\ HooksAhead'
        /\ HeldOnce("end_init", initializing)' /\ HeldOnce("end_close", closing)'
    BY <1>0, PopKept
  <1>3. /\ ~Now({"init_hub", "install_handler"})'
        /\ ~Now({"close_hub"})' /\ ~Now({"clear_options"})' /\ ~Now({"clear_hooks"})'
    BY <1>0, PopNext
  <1>4. TypeOK'
    BY <1>0, <1>2 DEF TypeOK, nativeVars, hubVars
  <1>5. HeadReady' /\ HubState'
    BY <1>0, <1>1, <1>3 DEF LayersInv, HeadReady, HubState, Now
  <1>6. ClosingState' /\ BoundOptions' /\ HooksKnown'
    BY <1>0, <1>1 DEF ClosingState, BoundOptions, HooksKnown
  <1> QED
    BY <1>2, <1>4, <1>5, <1>6 DEF LayersInv, FlagsReleased

LEMMA LoadAssemblyKeeps ==
    ASSUME LayersInv, LoadAssembly PROVE LayersInv'
  <1>0. /\ TypeOK /\ agenda = <<>> /\ ~stopped /\ ~registered /\ registered' = TRUE
        /\ UNCHANGED <<nativeVars, hubVars, bypassed, definedHooks, hubEnabled,
                       currentOptions, handlers, closing, stopped>>
    BY DEF LayersInv, LoadAssembly, Idle, hubVars
  <1>1. ~initializing /\ Pending({"end_init"}) = {} /\ "end_init" \in StepName
    BY <1>0 DEF LayersInv, FlagsReleased, HeldOnce, Pending, StepName
  <1>2. CASE nativeEnabled
    <2> DEFINE steps == Append(InitDotnet("native"), Step("end_init"))
    <2>1. /\ steps \in Seq(StepRecord) /\ steps # <<>>
          /\ Len(steps) = 3 /\ 1 .. Len(steps) = {1, 2, 3}
          /\ steps[1].do = "set_options" /\ steps[1].with = "native"
          /\ steps[2].do = "init_hub" /\ steps[3].do = "end_init"
      BY InitFromNativeSteps
    <2>2. initializing' = TRUE /\ agenda' = steps
      BY <1>2 DEF LoadAssembly
    <2> HIDE DEF steps
    <2>3. agenda' = steps \o agenda
      BY <1>0, <2>1, <2>2
    <2>4. Proper(steps, 0)
      BY <1>0, <2>1 DEF Proper, Before, Continued
    <2>5. /\ Replaces(steps, 0) /\ agenda' \in Seq(StepRecord)
          /\ HeldOnce("end_close", closing)'
      BY <1>0, <2>1, <2>3, <2>4, PushKept
    <2>6. FlagsReleased'
      <3>1. 3 \in 1 .. Len(steps) /\ \A i \in 1 .. Len(steps) : steps[i].do = "end_init" <=> i = 3
        BY <2>1
      <3>2. Pending({"end_init"})' # {} /\ \A i, j \in Pending({"end_init"})' : i = j
        BY <1>0, <1>1, <2>1, <2>5, <3>1, FlagRaised
      <3> QED
        BY <2>2, <2>5, <3>2 DEF FlagsReleased, HeldOnce
    <2>7. TypeOK'
      BY <1>0, <2>2, <2>5 DEF TypeOK, nativeVars, hubVars
    <2> QED
      BY <1>0, <2>1, <2>3, <2>4, <2>6, <2>7, PlainPush
  <1>3. CASE ~nativeEnabled
    <2>1. UNCHANGED <<initializing, agenda>>
      BY <1>3 DEF LoadAssembly
    <2>2. agenda' = <<>> /\ 1 .. Len(agenda') = {} /\ Positions = {}
      BY <1>0, <2>1 DEF Positions
    <2>3. TypeOK'
      BY <1>0, <2>1 DEF TypeOK, nativeVars, hubVars
    <2>4. StepsInOrder' /\ ClosesOnTop' /\ BoundSteps' /\ HooksAhead'
      BY <2>2 DEF StepsInOrder, ClosesOnTop, BoundSteps, HooksAhead, Positions
    <2>5. HeadReady' /\ HubState'
      BY <1>0, <2>1 DEF LayersInv, HeadReady, HubState, Now
    <2>6. FlagsReleased'
      BY <1>0, <2>1 DEF LayersInv, FlagsReleased, HeldOnce, Pending
    <2>7. ClosingState' /\ BoundOptions' /\ HooksKnown'
      BY <1>0, <2>1, <2>2 DEF LayersInv, ClosingState, BoundOptions, HooksKnown, SetsOptionsSoon, Now
    <2> QED
      BY <2>3, <2>4, <2>5, <2>6, <2>7 DEF LayersInv
  <1> QED
    BY <1>2, <1>3

LEMMA InitManagedSdkKeeps ==
    ASSUME LayersInv, InitManagedSdk PROVE LayersInv'
  <1> DEFINE steps == <<Step("cs_callback"), Step("end_init")>>
  <1>0. TypeOK /\ UserCode /\ agenda' = steps \o agenda
    BY DEF LayersInv, InitManagedSdk, Call
  <1>1. /\ steps \in Seq(StepRecord) /\ steps # <<>>
        /\ Len(steps) = 2 /\ 1 .. Len(steps) = {1, 2}
        /\ steps[1].do = "cs_callback" /\ steps[2].do = "end_init"
    BY StepTypes DEF StepName, Callbacks, Step
  <1> HIDE DEF steps
  <1>2. agenda # <<>> => agenda[1].do \in Callbacks
    BY <1>0 DEF UserCode, TypeOK
  <1>3. Proper(steps, 0)
    BY <1>1, <1>2 DEF Proper, Before, Continued, InitManagedSdk, bridgeVars
  <1>4. /\ Replaces(steps, 0)
        /\ agenda' \in Seq(StepRecord)
        /\ StepsInOrder' /\ ClosesOnTop' /\ BoundSteps' /\ HooksAhead'
        /\ SetsOptionsSoon => SetsOptionsSoon'
        /\ agenda' # <<>> /\ agenda'[1].do = "cs_callback"
        /\ HeldOnce("end_close", closing)'
    BY <1>0, <1>1, <1>2, <1>3, PushKept DEF InitManagedSdk, bridgeVars
  <1>5. TypeOK'
    BY <1>0, <1>4 DEF TypeOK, InitManagedSdk, nativeVars, bridgeVars, hubVars
  <1>6. HeadReady' /\ HubState'
    BY <1>0, <1>2, <1>4
       DEF LayersInv, HeadReady, HubState, Now, InitManagedSdk, bridgeVars, hubVars, Callbacks
  <1>7. FlagsReleased'
    <2>1. Pending({"end_init"}) = {} /\ "end_init" \in StepName
      BY DEF LayersInv, FlagsReleased, HeldOnce, InitManagedSdk, StepName
    <2>2. 2 \in 1 .. Len(steps) /\ \A i \in 1 .. Len(steps) : steps[i].do = "end_init" <=> i = 2
      BY <1>1
    <2>3. Pending({"end_init"})' # {} /\ \A i, j \in Pending({"end_init"})' : i = j
      BY <1>0, <1>1, <1>4, <2>1, <2>2, FlagRaised
    <2> QED
      BY <1>4, <2>3 DEF FlagsReleased, HeldOnce, InitManagedSdk
  <1>8. ClosingState' /\ BoundOptions' /\ HooksKnown'
    BY <1>0, <1>2, <1>4
       DEF LayersInv, ClosingState, BoundOptions, HooksKnown, Now, UserCode,
           InitManagedSdk, bridgeVars, hubVars, Callbacks
  <1> QED
    BY <1>4, <1>5, <1>6, <1>7, <1>8 DEF LayersInv

LEMMA ReturnFromCsCallbackKeeps ==
    ASSUME LayersInv, NEW o \in ManagedOptions, ReturnFromCsCallback(o) PROVE LayersInv'
  <1> DEFINE steps == <<StepWith("init_native", o)>> \o InitDotnet(o)
  <1>0. /\ TypeOK /\ AtStep("cs_callback") /\ agenda # <<>> /\ agenda[1].do = "cs_callback"
        /\ "cs_callback" \in Plain /\ Continue(steps) /\ 1 \in Positions
        /\ UNCHANGED <<nativeVars, hubVars, bypassed, registered, definedHooks, hubEnabled,
                       currentOptions, handlers, initializing, closing, stopped>>
    BY DEF LayersInv, TypeOK, ReturnFromCsCallback, Do, AtStep, StepName, Callbacks, Plain,
       Positions, bridgeVars, hubVars, flags
  <1>1. registered /\ o \in Options /\ o # "null"
    BY <1>0 DEF LayersInv, BoundSteps, ManagedOptions, Options
  <1>2. /\ steps \in Seq(StepRecord) /\ steps # <<>>
        /\ Len(steps) = 3 /\ 1 .. Len(steps) = {1, 2, 3}
        /\ steps[1].do = "init_native" /\ steps[1].with = o
        /\ steps[2].do = "set_options" /\ steps[2].with = o
        /\ steps[3].do = "init_hub"
    BY <1>1, CallbackSteps
  <1> HIDE DEF steps
  <1>3. Proper(steps, 1)
    <2>1. "cs_callback" \notin InitSteps \cup ClosingSteps
      BY DEF InitSteps, ClosingSteps
    <2>2. \A p \in 1 .. Len(steps) :
              steps[p].do = "set_options" => /\ 1 \in 1 .. Len(steps) /\ p = 1 + 1
      BY <1>2
    <2> QED
      BY <1>0, <1>1, <1>2, <2>1, <2>2 DEF Proper, Before, Continued, Replaced
  <1>4. \A i \in 1 .. Len(steps) : steps[i].do # "end_init" /\ steps[i].do # "end_close"
    BY <1>2
  <1>5. /\ agenda' \in Seq(StepRecord)
        /\ HeldOnce("end_init", initializing)' /\ HeldOnce("end_close", closing)'
    BY <1>0, <1>2, <1>3, <1>4, PushKept
  <1>6. TypeOK' /\ FlagsReleased'
    BY <1>0, <1>5 DEF TypeOK, FlagsReleased, nativeVars, hubVars
  <1> QED
    BY <1>0, <1>2, <1>3, <1>6, PlainPush

LEMMA ThrowFromCsCallbackKeeps ==
    ASSUME LayersInv, ThrowFromCsCallback PROVE LayersInv'
  <1>1. TypeOK /\ AtStep("cs_callback") /\ Continue(<<>>) /\ "cs_callback" \in Plain
    BY DEF LayersInv, ThrowFromCsCallback, Do, StepName, Callbacks, Plain
  <1>2. TypeOK'
    <2>1. agenda' \in Seq(StepRecord)
      BY <1>1, PopKept DEF ThrowFromCsCallback, bridgeVars, Plain
    <2> QED
      BY <1>1, <2>1 DEF TypeOK, ThrowFromCsCallback, nativeVars, bridgeVars, hubVars, flags
  <1> QED
    BY <1>1, <1>2, PlainPop DEF ThrowFromCsCallback, hubVars, Plain

LEMMA InitNativeKeeps ==
    ASSUME LayersInv, InitNative PROVE LayersInv'
  <1> DEFINE hooked == agenda[1].with = "hooked"
  <1>0. /\ TypeOK /\ AtStep("init_native") /\ agenda # <<>> /\ agenda[1].do = "init_native"
        /\ "init_native" \in Plain /\ "init_native" \in StepName /\ 1 \in Positions
        /\ agenda[1] \in StepRecord /\ Argument = agenda[1].with
        /\ definedHooks' = hooked
        /\ UNCHANGED <<nativeVars, hubVars, bypassed, registered, hubEnabled,
                       currentOptions, handlers, initializing, closing, stopped>>
    <2>1. /\ TypeOK /\ AtStep("init_native") /\ agenda # <<>> /\ agenda[1].do = "init_native"
          /\ "init_native" \in Plain /\ "init_native" \in StepName /\ 1 \in Positions
          /\ agenda[1] \in StepRecord /\ Argument = agenda[1].with
      BY DEF LayersInv, TypeOK, InitNative, Do, AtStep, StepName, Plain, Positions, Argument
    <2> QED
      BY <2>1 DEF InitNative, hubVars, flags
  <1>1. "init_native" \notin InitSteps /\ "init_native" \notin ClosingSteps
    BY DEF InitSteps, ClosingSteps
  <1>2. CASE nativeEnabled
    <2>1. Continue(<<>>)
      BY <1>2 DEF InitNative, Do
    <2>2. /\ agenda' \in Seq(StepRecord)
          /\ StepsInOrder' /\ ClosesOnTop' /\ BoundSteps' /\ HooksAhead'
          /\ HeldOnce("end_init", initializing)' /\ HeldOnce("end_close", closing)'
      BY <1>0, <1>1, <2>1, PopKept
    <2>3. /\ ~Now({"init_hub", "install_handler"})'
          /\ ~Now({"close_hub"})' /\ ~Now({"clear_options"})' /\ ~Now({"clear_hooks"})'
        /\ ~Now({"remove_logger"})' /\ ~Now({"close_backend"})'
          /\ Now({"set_options"})'
      BY <1>0, <2>1, PopNext
    <2>4. TypeOK'
      BY <1>0, <2>2 DEF TypeOK, nativeVars, hubVars
    <2>5. HeadReady' /\ HubState'
      BY <1>0, <2>3 DEF LayersInv, HeadReady, HubState, Now
    <2>6. SetsOptionsSoon'
      <3>1. agenda' # <<>> /\ agenda'[1].do = "set_options" /\ 1 \in 1 .. Len(agenda')
        BY <2>2, <2>3 DEF Now
      <3>2. \A q \in 1 .. Len(agenda') : ~(q < 1)
        BY <2>2
      <3> QED
        BY <3>1, <3>2 DEF SetsOptionsSoon, SoonAt, Positions
    <2>7. ClosingState' /\ BoundOptions' /\ HooksKnown'
      BY <1>0, <2>6 DEF LayersInv, ClosingState, BoundOptions, HooksKnown, Now
    <2> QED
      BY <2>2, <2>4, <2>5, <2>7 DEF LayersInv, FlagsReleased
  <1>3. CASE ~nativeEnabled
    <2> DEFINE steps == <<StepWith("init_backend", Argument)>>
    <2>0. Argument \in Options
      BY <1>0 DEF StepRecord
    <2>1. /\ steps \in Seq(StepRecord) /\ steps # <<>>
          /\ Len(steps) = 1 /\ 1 .. Len(steps) = {1} /\ steps[1].do = "init_backend"
      BY <2>0, StepTypes DEF StepName, StepWith
    <2>2. Continue(steps)
      BY <1>3 DEF InitNative, Do
    <2> HIDE DEF steps
    <2>3. Proper(steps, 1)
      <3>1. "init_backend" \in InitSteps /\ "init_backend" \notin Continued
        BY DEF InitSteps, Continued
      <3>2. /\ \A i \in 1 .. Len(steps) : i = 1 /\ steps[i].do = "init_backend"
            /\ steps[Len(steps)].do = "init_backend"
            /\ \A i, j \in 1 .. Len(steps) : j # i + 1
        BY <2>1
      <3> QED
        BY <1>0, <1>1, <2>1, <3>1, <3>2 DEF Proper, Plain
    <2>4. /\ Replaces(steps, 1) /\ agenda' \in Seq(StepRecord)
          /\ StepsInOrder' /\ ClosesOnTop' /\ BoundSteps' /\ HooksAhead'
          /\ agenda' # <<>> /\ agenda'[1].do = "init_backend"
          /\ HeldOnce("end_init", initializing)' /\ HeldOnce("end_close", closing)'
      BY <1>0, <2>1, <2>2, <2>3, PushKept
    <2>5. TypeOK'
      BY <1>0, <2>4 DEF TypeOK, nativeVars, hubVars
    <2>6. HeadReady' /\ HubState'
      BY <1>0, <2>4 DEF LayersInv, HeadReady, HubState, Now
    <2>7. SetsOptionsSoon'
      <3>1. /\ 2 \in Positions /\ 2 > 1 /\ agenda[2].do = "set_options"
        <4>1. Len(agenda) \in Nat \ {0}
          BY <1>0 DEF TypeOK
        <4>2. Len(agenda) # 1
          BY <1>0 DEF LayersInv, StepsInOrder, Continued
        <4>3. 2 \in Positions /\ 2 = 1 + 1
          BY <4>1, <4>2 DEF Positions
        <4>4. Before(agenda[1], agenda[2])
          BY <1>0, <4>3 DEF LayersInv, StepsInOrder
        <4> QED
          BY <1>0, <4>3, <4>4 DEF Before
      <3>2. 2 - 1 + Len(steps) \in 1 .. Len(agenda') /\ agenda'[2 - 1 + Len(steps)] = agenda[2]
        BY <1>0, <2>1, <2>4, <3>1, OldSteps
      <3>3. 2 - 1 + Len(steps) = 2
        BY <2>1
      <3>4. 2 \in 1 .. Len(agenda') /\ agenda'[2].do = "set_options"
        BY <3>1, <3>2, <3>3
      <3>5. \A q \in 1 .. Len(agenda') : q < 2 => agenda'[q].do \in InitSteps
        <4>1. \A q \in 1 .. Len(agenda') : q < 2 => q = 1
          BY <2>4
        <4> QED
          BY <2>4, <4>1 DEF InitSteps
      <3> QED
        BY <3>4, <3>5 DEF SetsOptionsSoon, SoonAt, Positions
    <2>8. ClosingState' /\ BoundOptions' /\ HooksKnown'
      BY <1>0, <2>7 DEF LayersInv, ClosingState, BoundOptions, HooksKnown, Now
    <2> QED
      BY <2>4, <2>5, <2>6, <2>8 DEF LayersInv, FlagsReleased
  <1> QED
    BY <1>2, <1>3

LEMMA SetOptionsKeeps ==
    ASSUME LayersInv, SetOptions PROVE LayersInv'
  <1>0. /\ TypeOK /\ AtStep("set_options") /\ Continue(<<>>) /\ "set_options" \in StepName
        /\ agenda # <<>> /\ agenda[1].do = "set_options" /\ 1 \in Positions
        /\ agenda[1] \in StepRecord
        /\ currentOptions' = agenda[1].with
        /\ UNCHANGED <<nativeVars, bypassed, registered, definedHooks, hubEnabled,
                       handlers, nativeSession, initializing, closing, stopped>>
    <2>1. /\ TypeOK /\ AtStep("set_options") /\ Continue(<<>>) /\ "set_options" \in StepName
          /\ agenda # <<>> /\ agenda[1].do = "set_options" /\ 1 \in Positions
          /\ agenda[1] \in StepRecord /\ Argument = agenda[1].with
      BY DEF LayersInv, TypeOK, SetOptions, Do, AtStep, StepName, Positions, Argument
    <2> QED
      BY <2>1 DEF SetOptions, bridgeVars, flags
  <1>1. registered /\ agenda[1].with # "null" /\ agenda[1].with \in Options
    BY <1>0 DEF LayersInv, BoundSteps, StepsInOrder, StepRecord
  <1>2. /\ agenda' \in Seq(StepRecord)
        /\ StepsInOrder' /\ ClosesOnTop' /\ BoundSteps' /\ HooksAhead'
        /\ HeldOnce("end_init", initializing)' /\ HeldOnce("end_close", closing)'
    BY <1>0, PopKept
  <1>3. /\ ~Now({"install_handler"})'
        /\ ~Now({"close_hub"})' /\ ~Now({"clear_options"})' /\ ~Now({"clear_hooks"})'
        /\ ~Now({"remove_logger"})' /\ ~Now({"close_backend"})'
    BY <1>0, PopNext
  <1>4. TypeOK'
    BY <1>0, <1>1, <1>2 DEF TypeOK, nativeVars
  <1>5. HeadReady' /\ HubState'
    BY <1>0, <1>1, <1>3 DEF LayersInv, HeadReady, HubState, Now
  <1>6. ~closing
    <2> SUFFICES ASSUME closing PROVE FALSE
      OBVIOUS
    <2>1. PICK p \in Pending({"end_close"}) : TRUE
      BY DEF LayersInv, FlagsReleased, HeldOnce
    <2>2. p \in Positions /\ agenda[p].do = "end_close"
      BY <1>0, <2>1 DEF Pending, Positions, TypeOK
    <2>3. 1 < p
      BY <1>0, <2>2 DEF Positions
    <2> QED
      BY <1>0, <2>2, <2>3 DEF LayersInv, ClosesOnTop, ClosingSteps
  <1>7. agenda[1].with = "hooked" => definedHooks
    <2>1. \A q \in Positions : 1 # q + 1
      BY DEF Positions
    <2> QED
      BY <1>0, <2>1 DEF LayersInv, HooksAhead
  <1>8. ClosingState' /\ BoundOptions' /\ HooksKnown'
    BY <1>0, <1>1, <1>6, <1>7 DEF ClosingState, BoundOptions, HooksKnown
  <1> QED
    BY <1>2, <1>4, <1>5, <1>8 DEF LayersInv, FlagsReleased

LEMMA InitHubKeeps ==
    ASSUME LayersInv, NEW outcome \in {"enabled", "disabled", "throws"}, InitHub(outcome)
    PROVE  LayersInv'
  <1>0. /\ TypeOK /\ AtStep("init_hub") /\ agenda # <<>> /\ agenda[1].do = "init_hub"
        /\ "init_hub" \in Plain /\ "init_hub" \in StepName
        /\ UNCHANGED <<nativeVars, bypassed, registered, definedHooks, currentOptions, handlers,
                       initializing, closing, stopped>>
    <2>1. /\ TypeOK /\ AtStep("init_hub") /\ agenda # <<>> /\ agenda[1].do = "init_hub"
          /\ "init_hub" \in Plain /\ "init_hub" \in StepName
      BY DEF LayersInv, TypeOK, InitHub, Do, AtStep, StepName, Plain
    <2> QED
      BY <2>1 DEF InitHub, bridgeVars, flags
  <1>1. currentOptions # "null"
    BY <1>0 DEF LayersInv, HeadReady, Now
  <1>2. CASE outcome = "throws"
    <2>1. Continue(<<>>) /\ UNCHANGED <<hubEnabled, nativeSession>>
      BY <1>2 DEF InitHub, Do
    <2>2. agenda' \in Seq(StepRecord)
      BY <1>0, <2>1, PopKept
    <2>3. TypeOK'
      BY <1>0, <2>1, <2>2 DEF TypeOK, nativeVars
    <2> QED
      BY <1>0, <2>1, <2>3, PlainPop DEF bridgeVars, flags
  <1>3. CASE outcome # "throws"
    <2> DEFINE steps == <<Step("install_handler")>>
    <2>1. /\ steps \in Seq(StepRecord) /\ steps # <<>>
          /\ Len(steps) = 1 /\ 1 .. Len(steps) = {1} /\ steps[1].do = "install_handler"
      BY StepTypes DEF StepName, Step
    <2>2. Continue(steps) /\ hubEnabled' \in BOOLEAN /\ nativeSession' = nativeEnabled
      BY <1>3 DEF InitHub, Do
    <2> HIDE DEF steps
    <2>3. Proper(steps, 1)
      <3>1. /\ "install_handler" \in InitSteps /\ "install_handler" \in Replaced("init_hub")
            /\ "init_hub" \notin ClosingSteps
        BY DEF InitSteps, Replaced, ClosingSteps
      <3>2. /\ \A i \in 1 .. Len(steps) : i = 1 /\ steps[i].do = "install_handler"
            /\ steps[Len(steps)].do = "install_handler"
            /\ \A i, j \in 1 .. Len(steps) : j # i + 1
        BY <2>1
      <3> QED
        BY <1>0, <2>1, <3>1, <3>2 DEF Proper
    <2>4. /\ agenda' \in Seq(StepRecord)
          /\ StepsInOrder' /\ ClosesOnTop' /\ BoundSteps' /\ HooksAhead'
          /\ SetsOptionsSoon => SetsOptionsSoon'
          /\ agenda' # <<>> /\ agenda'[1].do = "install_handler"
          /\ HeldOnce("end_init", initializing)' /\ HeldOnce("end_close", closing)'
      BY <1>0, <2>1, <2>2, <2>3, PushKept
    <2>5. TypeOK'
      BY <1>0, <2>2, <2>4 DEF TypeOK, nativeVars
    <2>6. HeadReady' /\ HubState'
      BY <1>0, <1>1, <2>4 DEF LayersInv, HeadReady, HubState, Now
    <2>7. ClosingState' /\ BoundOptions' /\ HooksKnown'
      BY <1>0, <1>1, <2>4 DEF LayersInv, ClosingState, BoundOptions, HooksKnown, Now
    <2> QED
      BY <2>4, <2>5, <2>6, <2>7 DEF LayersInv, FlagsReleased
  <1> QED
    BY <1>2, <1>3

LEMMA InstallHandlerKeeps ==
    ASSUME LayersInv, InstallHandler PROVE LayersInv'
  <1>0. /\ TypeOK /\ AtStep("install_handler") /\ Continue(<<>>) /\ "install_handler" \in StepName
        /\ agenda # <<>> /\ agenda[1].do = "install_handler"
        /\ handlers' = IF handlers = 0 THEN handlers + 1 ELSE handlers
        /\ UNCHANGED <<nativeVars, bypassed, registered, definedHooks, hubEnabled, currentOptions,
                       nativeSession, initializing, closing, stopped>>
    <2>1. /\ TypeOK /\ AtStep("install_handler") /\ Continue(<<>>) /\ "install_handler" \in StepName
          /\ agenda # <<>> /\ agenda[1].do = "install_handler"
      BY DEF LayersInv, TypeOK, InstallHandler, Do, AtStep, StepName
    <2> QED
      BY <2>1 DEF InstallHandler, bridgeVars, flags
  <1>1. currentOptions # "null" /\ handlers \in {0, 1} /\ handlers' = 1
    BY <1>0 DEF LayersInv, HeadReady, HubState, Now
  <1>2. /\ agenda' \in Seq(StepRecord)
        /\ StepsInOrder' /\ ClosesOnTop' /\ BoundSteps' /\ HooksAhead'
        /\ SetsOptionsSoon => SetsOptionsSoon'
        /\ HeldOnce("end_init", initializing)' /\ HeldOnce("end_close", closing)'
    BY <1>0, PopKept
  <1>3. /\ ~Now({"init_hub", "install_handler"})'
        /\ ~Now({"close_hub"})' /\ ~Now({"clear_options"})' /\ ~Now({"clear_hooks"})'
        /\ ~Now({"remove_logger"})' /\ ~Now({"close_backend"})'
    BY <1>0, PopNext
  <1>4. TypeOK'
    BY <1>0, <1>1, <1>2 DEF TypeOK, nativeVars
  <1>5. HeadReady' /\ HubState'
    BY <1>0, <1>1, <1>3 DEF HeadReady, HubState, Now
  <1>6. ClosingState' /\ BoundOptions' /\ HooksKnown'
    BY <1>0, <1>1, <1>2 DEF LayersInv, ClosingState, BoundOptions, HooksKnown, Now
  <1> QED
    BY <1>2, <1>4, <1>5, <1>6 DEF LayersInv, FlagsReleased

LEMMA EndInitKeeps ==
    ASSUME LayersInv, EndInit PROVE LayersInv'
  <1>0. /\ TypeOK /\ AtStep("end_init") /\ Continue(<<>>) /\ "end_init" \in StepName
        /\ agenda # <<>> /\ agenda[1].do = "end_init"
        /\ initializing' = FALSE
        /\ UNCHANGED <<nativeVars, hubVars, bypassed, registered, definedHooks, hubEnabled,
                       currentOptions, handlers, closing, stopped>>
    <2>1. /\ TypeOK /\ AtStep("end_init") /\ Continue(<<>>) /\ "end_init" \in StepName
          /\ agenda # <<>> /\ agenda[1].do = "end_init"
      BY DEF LayersInv, TypeOK, EndInit, Do, AtStep, StepName
    <2> QED
      BY <2>1 DEF EndInit, bridgeVars, hubVars
  <1>1. /\ agenda' \in Seq(StepRecord) /\ Replaces(<<>>, 1)
        /\ StepsInOrder' /\ ClosesOnTop' /\ BoundSteps' /\ HooksAhead'
        /\ SetsOptionsSoon => SetsOptionsSoon'
        /\ HeldOnce("end_close", closing)'
    BY <1>0, PopKept
  <1>2. /\ ~Now({"init_hub", "install_handler"})'
        /\ ~Now({"close_hub"})' /\ ~Now({"clear_options"})' /\ ~Now({"clear_hooks"})'
        /\ ~Now({"remove_logger"})' /\ ~Now({"close_backend"})'
    BY <1>0, PopNext
  <1>3. FlagsReleased'
    <2>1. \A i, j \in Pending({"end_init"}) : i = j
      BY DEF LayersInv, FlagsReleased, HeldOnce
    <2>2. Pending({"end_init"})' = {}
      BY <1>0, <1>1, <2>1, FlagDropped
    <2> QED
      BY <1>0, <1>1, <2>2 DEF FlagsReleased, HeldOnce
  <1>4. TypeOK'
    BY <1>0, <1>1 DEF TypeOK, nativeVars, hubVars
  <1>5. HeadReady' /\ HubState'
    BY <1>0, <1>2 DEF LayersInv, HeadReady, HubState, Now
  <1>6. ClosingState' /\ BoundOptions' /\ HooksKnown'
    BY <1>0, <1>1 DEF LayersInv, ClosingState, BoundOptions, HooksKnown, Now
  <1> QED
    BY <1>1, <1>3, <1>4, <1>5, <1>6 DEF LayersInv

LEMMA CloseManagedSdkKeeps ==
    ASSUME LayersInv, CloseManagedSdk PROVE LayersInv'
  <1> DEFINE steps == CloseDotnetSdk \o <<Step("close_native"), Step("end_close")>>
  <1>0. /\ TypeOK /\ UserCode /\ agenda' = steps \o agenda /\ ~stopped
        /\ ~closing /\ closing' = TRUE
        /\ UNCHANGED <<nativeVars, hubVars, bypassed, registered, definedHooks, hubEnabled,
                       currentOptions, handlers, initializing, stopped>>
    BY DEF LayersInv, CloseManagedSdk, Call, UserCode, bridgeVars, hubVars
  <1>1. /\ steps \in Seq(StepRecord) /\ steps # <<>>
        /\ Len(steps) = 5 /\ 1 .. Len(steps) = {1, 2, 3, 4, 5}
        /\ steps[1].do = "dispose_handler" /\ steps[2].do = "close_hub"
        /\ steps[3].do = "clear_options" /\ steps[4].do = "close_native"
        /\ steps[5].do = "end_close"
    BY CloseManagedSteps
  <1> HIDE DEF steps
  <1>2. agenda # <<>> => agenda[1].do \in Callbacks
    BY <1>0 DEF UserCode, TypeOK
  <1>3. Proper(steps, 0)
    BY <1>0, <1>1 DEF Proper, Before, Continued, ClosingSteps
  <1>4. /\ Replaces(steps, 0) /\ agenda' \in Seq(StepRecord)
        /\ HeldOnce("end_init", initializing)'
    BY <1>0, <1>1, <1>2, <1>3, PushKept
  <1>5. FlagsReleased'
    <2>1. Pending({"end_close"}) = {} /\ "end_close" \in StepName
      BY <1>0 DEF LayersInv, FlagsReleased, HeldOnce, StepName
    <2>2. 5 \in 1 .. Len(steps) /\ \A i \in 1 .. Len(steps) : steps[i].do = "end_close" <=> i = 5
      BY <1>1
    <2>3. Pending({"end_close"})' # {} /\ \A i, j \in Pending({"end_close"})' : i = j
      BY <1>0, <1>1, <1>4, <2>1, <2>2, FlagRaised
    <2> QED
      BY <1>0, <1>4, <2>3 DEF FlagsReleased, HeldOnce
  <1>6. TypeOK'
    BY <1>0, <1>4 DEF TypeOK, nativeVars, hubVars
  <1> QED
    BY <1>0, <1>1, <1>2, <1>3, <1>5, <1>6, PlainPush

LEMMA CloseNativeKeeps ==
    ASSUME LayersInv, CloseNative PROVE LayersInv'
  <1>0. /\ TypeOK /\ AtStep("close_native") /\ agenda # <<>> /\ agenda[1].do = "close_native"
        /\ "close_native" \in Plain /\ "close_native" \in StepName
        /\ UNCHANGED <<nativeVars, hubVars, bypassed, registered, definedHooks, hubEnabled,
                       currentOptions, handlers, initializing, closing, stopped>>
    <2>1. /\ TypeOK /\ AtStep("close_native") /\ agenda # <<>> /\ agenda[1].do = "close_native"
          /\ "close_native" \in Plain /\ "close_native" \in StepName
      BY DEF LayersInv, TypeOK, CloseNative, Do, AtStep, StepName, Plain
    <2> QED
      BY <2>1 DEF CloseNative, bridgeVars, hubVars, flags
  <1>1. CASE nativeEnabled
    <2>1. Continue(CloseSteps)
      BY <1>1 DEF CloseNative, Do
    <2>2. Proper(CloseSteps, 1)
      BY <1>0, CloseStepsProper DEF Proper, Before, Continued, InitSteps, ClosingSteps
    <2>3. /\ agenda' \in Seq(StepRecord)
          /\ HeldOnce("end_init", initializing)' /\ HeldOnce("end_close", closing)'
      BY <1>0, <2>1, <2>2, CloseStepsProper, PushKept
    <2>4. TypeOK' /\ FlagsReleased'
      BY <1>0, <2>3 DEF TypeOK, FlagsReleased, nativeVars, hubVars
    <2> QED
      BY <1>0, <2>1, <2>2, <2>4, CloseStepsProper, PlainPush
  <1>2. CASE ~nativeEnabled
    <2>1. Continue(<<>>)
      BY <1>2 DEF CloseNative, Do
    <2>2. agenda' \in Seq(StepRecord)
      BY <1>0, <2>1, PopKept
    <2>3. TypeOK'
      BY <1>0, <2>2 DEF TypeOK, nativeVars, hubVars
    <2> QED
      BY <1>0, <2>1, <2>3, PlainPop DEF bridgeVars, flags
  <1> QED
    BY <1>1, <1>2

LEMMA DisposeHandlerKeeps ==
    ASSUME LayersInv, DisposeHandler PROVE LayersInv'
  <1>0. /\ TypeOK /\ AtStep("dispose_handler") /\ Continue(<<>>) /\ "dispose_handler" \in StepName
        /\ agenda # <<>> /\ agenda[1].do = "dispose_handler"
        /\ handlers' = IF handlers = 0 THEN handlers ELSE handlers - 1
        /\ UNCHANGED <<nativeVars, bypassed, registered, definedHooks, hubEnabled, currentOptions,
                       nativeSession, initializing, closing, stopped>>
    <2>1. /\ TypeOK /\ AtStep("dispose_handler") /\ Continue(<<>>) /\ "dispose_handler" \in StepName
          /\ agenda # <<>> /\ agenda[1].do = "dispose_handler"
      BY DEF LayersInv, TypeOK, DisposeHandler, Do, AtStep, StepName
    <2> QED
      BY <2>1 DEF DisposeHandler, bridgeVars, hubVars, flags
  <1>1. handlers' = 0
    BY <1>0 DEF LayersInv, HubState
  <1>2. /\ agenda' \in Seq(StepRecord) /\ Replaces(<<>>, 1)
        /\ StepsInOrder' /\ ClosesOnTop' /\ BoundSteps' /\ HooksAhead'
        /\ SetsOptionsSoon => SetsOptionsSoon'
        /\ HeldOnce("end_init", initializing)'
        /\ "dispose_handler" # "end_close" => HeldOnce("end_close", closing)'
    BY <1>0, PopKept
  <1>3. /\ ~Now({"init_hub", "install_handler"})'
        /\ Now({"close_hub"})' <=> "dispose_handler" = "dispose_handler"
        /\ Now({"clear_options"})' <=> "dispose_handler" = "close_hub"
        /\ ~Now({"clear_hooks"})' /\ ~Now({"remove_logger"})' /\ ~Now({"close_backend"})'
    BY <1>0, PopNext
  <1>4. TypeOK'
    BY <1>0, <1>1, <1>2 DEF TypeOK, nativeVars
  <1>5. HeadReady' /\ HubState'
    BY <1>0, <1>1, <1>3 DEF LayersInv, HeadReady, HubState, Now
  <1>6. ClosingState' /\ BoundOptions' /\ HooksKnown'
    BY <1>0, <1>1, <1>2, <1>3 DEF LayersInv, ClosingState, BoundOptions, HooksKnown, Now
  <1> QED
    BY <1>2, <1>4, <1>5, <1>6 DEF LayersInv, FlagsReleased

LEMMA CloseHubKeeps ==
    ASSUME LayersInv, CloseHub PROVE LayersInv'
  <1>0. /\ TypeOK /\ AtStep("close_hub") /\ Continue(<<>>) /\ "close_hub" \in StepName
        /\ agenda # <<>> /\ agenda[1].do = "close_hub"
        /\ hubEnabled' = FALSE
        /\ UNCHANGED <<nativeVars, bypassed, registered, definedHooks, currentOptions, handlers,
                       nativeSession, initializing, closing, stopped>>
    <2>1. /\ TypeOK /\ AtStep("close_hub") /\ Continue(<<>>) /\ "close_hub" \in StepName
          /\ agenda # <<>> /\ agenda[1].do = "close_hub"
      BY DEF LayersInv, TypeOK, CloseHub, Do, AtStep, StepName
    <2> QED
      BY <2>1 DEF CloseHub, bridgeVars, hubVars, flags
  <1>1. handlers = 0
    BY <1>0 DEF LayersInv, HeadReady, Now
  <1>2. /\ agenda' \in Seq(StepRecord) /\ Replaces(<<>>, 1)
        /\ StepsInOrder' /\ ClosesOnTop' /\ BoundSteps' /\ HooksAhead'
        /\ SetsOptionsSoon => SetsOptionsSoon'
        /\ HeldOnce("end_init", initializing)'
        /\ "close_hub" # "end_close" => HeldOnce("end_close", closing)'
    BY <1>0, PopKept
  <1>3. /\ ~Now({"init_hub", "install_handler"})'
        /\ Now({"close_hub"})' <=> "close_hub" = "dispose_handler"
        /\ Now({"clear_options"})' <=> "close_hub" = "close_hub"
        /\ ~Now({"clear_hooks"})' /\ ~Now({"remove_logger"})' /\ ~Now({"close_backend"})'
    BY <1>0, PopNext
  <1>4. TypeOK'
    BY <1>0, <1>1, <1>2 DEF TypeOK, nativeVars
  <1>5. HeadReady' /\ HubState'
    BY <1>0, <1>1, <1>3 DEF LayersInv, HeadReady, HubState, Now
  <1>6. ClosingState' /\ BoundOptions' /\ HooksKnown'
    BY <1>0, <1>1, <1>2, <1>3 DEF LayersInv, ClosingState, BoundOptions, HooksKnown, Now
  <1> QED
    BY <1>2, <1>4, <1>5, <1>6 DEF LayersInv, FlagsReleased

LEMMA ClearOptionsKeeps ==
    ASSUME LayersInv, ClearOptions PROVE LayersInv'
  <1>0. /\ TypeOK /\ AtStep("clear_options") /\ Continue(<<>>) /\ "clear_options" \in StepName
        /\ agenda # <<>> /\ agenda[1].do = "clear_options"
        /\ currentOptions' = "null"
        /\ UNCHANGED <<nativeVars, bypassed, registered, definedHooks, hubEnabled, handlers,
                       nativeSession, initializing, closing, stopped>>
    <2>1. /\ TypeOK /\ AtStep("clear_options") /\ Continue(<<>>) /\ "clear_options" \in StepName
          /\ agenda # <<>> /\ agenda[1].do = "clear_options"
      BY DEF LayersInv, TypeOK, ClearOptions, Do, AtStep, StepName
    <2> QED
      BY <2>1 DEF ClearOptions, bridgeVars, hubVars, flags
  <1>1. handlers = 0 /\ ~hubEnabled
    BY <1>0 DEF LayersInv, HeadReady, Now
  <1>2. /\ agenda' \in Seq(StepRecord) /\ Replaces(<<>>, 1)
        /\ StepsInOrder' /\ ClosesOnTop' /\ BoundSteps' /\ HooksAhead'
        /\ SetsOptionsSoon => SetsOptionsSoon'
        /\ HeldOnce("end_init", initializing)'
        /\ "clear_options" # "end_close" => HeldOnce("end_close", closing)'
    BY <1>0, PopKept
  <1>3. /\ ~Now({"init_hub", "install_handler"})'
        /\ Now({"close_hub"})' <=> "clear_options" = "dispose_handler"
        /\ Now({"clear_options"})' <=> "clear_options" = "close_hub"
        /\ ~Now({"clear_hooks"})' /\ ~Now({"remove_logger"})' /\ ~Now({"close_backend"})'
    BY <1>0, PopNext
  <1>4. TypeOK'
    BY <1>0, <1>1, <1>2 DEF TypeOK, nativeVars, Options
  <1>5. HeadReady' /\ HubState'
    BY <1>0, <1>1, <1>3 DEF LayersInv, HeadReady, HubState, Now
  <1>6. ClosingState' /\ BoundOptions' /\ HooksKnown'
    BY <1>0, <1>1, <1>2, <1>3 DEF LayersInv, ClosingState, BoundOptions, HooksKnown, Now
  <1> QED
    BY <1>2, <1>4, <1>5, <1>6 DEF LayersInv, FlagsReleased

LEMMA EndCloseKeeps ==
    ASSUME LayersInv, EndClose PROVE LayersInv'
  <1>0. /\ TypeOK /\ AtStep("end_close") /\ Continue(<<>>) /\ "end_close" \in StepName
        /\ agenda # <<>> /\ agenda[1].do = "end_close"
        /\ closing' = FALSE
        /\ UNCHANGED <<nativeVars, hubVars, bypassed, registered, definedHooks, hubEnabled,
                       currentOptions, handlers, initializing, stopped>>
    <2>1. /\ TypeOK /\ AtStep("end_close") /\ Continue(<<>>) /\ "end_close" \in StepName
          /\ agenda # <<>> /\ agenda[1].do = "end_close"
      BY DEF LayersInv, TypeOK, EndClose, Do, AtStep, StepName
    <2> QED
      BY <2>1 DEF EndClose, bridgeVars, hubVars, flags
  <1>1. currentOptions = "null"
    <2>1. closing
      <3>1. 1 \in Pending({"end_close"})
        BY <1>0 DEF Pending, TypeOK
      <3> QED
        BY <3>1 DEF LayersInv, FlagsReleased, HeldOnce
    <2> QED
      BY <1>0, <2>1 DEF LayersInv, ClosingState, Now
  <1>2. /\ agenda' \in Seq(StepRecord) /\ Replaces(<<>>, 1)
        /\ StepsInOrder' /\ ClosesOnTop' /\ BoundSteps' /\ HooksAhead'
        /\ SetsOptionsSoon => SetsOptionsSoon'
        /\ HeldOnce("end_init", initializing)'
        /\ "end_close" # "end_close" => HeldOnce("end_close", closing)'
    BY <1>0, PopKept
  <1>3. /\ ~Now({"init_hub", "install_handler"})'
        /\ Now({"close_hub"})' <=> "end_close" = "dispose_handler"
        /\ Now({"clear_options"})' <=> "end_close" = "close_hub"
        /\ ~Now({"remove_logger"})' /\ ~Now({"close_backend"})'
    BY <1>0, PopNext
  <1>4. TypeOK'
    BY <1>0, <1>1, <1>2 DEF TypeOK, nativeVars, hubVars
  <1>5. HeadReady' /\ HubState'
    BY <1>0, <1>1, <1>3 DEF LayersInv, HeadReady, HubState, Now
  <1>6. ClosingState' /\ BoundOptions' /\ HooksKnown'
    BY <1>0, <1>1, <1>2, <1>3 DEF LayersInv, ClosingState, BoundOptions, HooksKnown, Now
  <1>7. FlagsReleased'
    <2>1. \A i, j \in Pending({"end_close"}) : i = j
      BY DEF LayersInv, FlagsReleased, HeldOnce
    <2>2. Pending({"end_close"})' = {}
      BY <1>0, <1>2, <2>1, FlagDropped
    <2> QED
      BY <1>0, <1>2, <2>2 DEF FlagsReleased, HeldOnce
  <1> QED
    BY <1>2, <1>4, <1>5, <1>6, <1>7 DEF LayersInv

LEMMA NothingKeeps ==
    ASSUME LayersInv, TypeOK',
           UNCHANGED <<bridgeVars, hubEnabled, currentOptions, handlers, flags, agenda, stopped>>
    PROVE  LayersInv'
  <1>1. StepsInOrder' /\ HeadReady' /\ HubState'
    BY DEF LayersInv, StepsInOrder, HeadReady, HubState, Now, Positions
  <1>2. FlagsReleased'
    BY DEF LayersInv, FlagsReleased, HeldOnce, Pending, flags
  <1>3. ClosesOnTop' /\ ClosingState'
    BY DEF LayersInv, ClosesOnTop, ClosingState, Now, Positions, flags
  <1>4. BoundSteps' /\ BoundOptions'
    BY DEF LayersInv, BoundSteps, BoundOptions, Positions, bridgeVars
  <1>5. HooksAhead' /\ HooksKnown'
    BY DEF LayersInv, HooksAhead, HooksKnown, SetsOptionsSoon, SoonAt, Positions, bridgeVars
  <1> QED
    BY <1>1, <1>2, <1>3, <1>4, <1>5 DEF LayersInv

THEOREM LayersNext == LayersInv /\ [Next]_vars => LayersInv'
  <1> SUFFICES ASSUME LayersInv, [Next]_vars PROVE LayersInv'
    OBVIOUS
  <1>1. CASE NativeStep
    <2>1. ASSUME NEW withCallback \in BOOLEAN, InitNativeSdk(withCallback) PROVE LayersInv'
      BY <2>1, InitNativeSdkKeeps
    <2>2. ASSUME NEW ok \in BOOLEAN, InitBackend(ok) PROVE LayersInv'
      BY <2>2, InitBackendKeeps
    <2>3. ASSUME NEW loggerOption \in BOOLEAN, AddLogger(loggerOption) PROVE LayersInv'
      BY <2>3, AddLoggerKeeps
    <2> QED
      BY <1>1, <2>1, <2>2, <2>3, ReturnFromGdCallbackKeeps, NotifyInitKeeps, CloseNativeSdkKeeps,
         NotifyCloseKeeps, ClearHooksKeeps, RemoveLoggerKeeps, CloseBackendKeeps, ShutdownKeeps,
         ReleaseBindingsKeeps
         DEF NativeStep
  <1>2. CASE ManagedStep
    <2>1. ASSUME NEW o \in ManagedOptions, ReturnFromCsCallback(o) PROVE LayersInv'
      BY <2>1, ReturnFromCsCallbackKeeps
    <2>2. ASSUME NEW outcome \in {"enabled", "disabled", "throws"}, InitHub(outcome) PROVE LayersInv'
      BY <2>2, InitHubKeeps
    <2> QED
      BY <1>2, <2>1, <2>2, LoadAssemblyKeeps, InitManagedSdkKeeps, ThrowFromCsCallbackKeeps,
         InitNativeKeeps, SetOptionsKeeps, InstallHandlerKeeps, EndInitKeeps, CloseManagedSdkKeeps,
         CloseNativeKeeps, DisposeHandlerKeeps, CloseHubKeeps, ClearOptionsKeeps, EndCloseKeeps
         DEF ManagedStep
  <1>3. CASE ProcessNativeEvent
    <2>1. TypeOK'
      <3>1. TypeOK
        BY DEF LayersInv
      <3>2. bypassed' \in BOOLEAN
        BY <1>3, <3>1 DEF ProcessNativeEvent, TypeOK, CallbackRuns
      <3> QED
        BY <1>3, <3>1, <3>2 DEF ProcessNativeEvent, TypeOK, nativeVars, bridgeVars, hubVars, flags
    <2> QED
      BY <1>3, <2>1, NothingKeeps DEF ProcessNativeEvent, hubVars
  <1>4. CASE UNCHANGED vars
    <2>1. TypeOK'
      BY <1>4 DEF LayersInv, TypeOK, vars, nativeVars, bridgeVars, hubVars, flags
    <2> QED
      BY <1>4, <2>1, NothingKeeps DEF vars, hubVars
  <1> QED
    BY <1>1, <1>2, <1>3, <1>4 DEF Next

THEOREM LayersInvariant == Spec => []LayersInv
  BY LayersInit, LayersNext, PTL DEF Spec

(* Every state of the two layers is well typed: the agenda holds only      *)
(* steps the code has, and the handlers are counted from zero.             *)
THEOREM LifecycleTypes == Spec => []TypeOK
  <1>1. LayersInv => TypeOK
    BY DEF LayersInv
  <1> QED
    BY <1>1, LayersInvariant, PTL

(* Whatever the configuration callbacks initialize, close or throw, and    *)
(* however deep they nest: a hub that takes events has its options, the    *)
(* exception handler is subscribed exactly once with it, and the re-entry  *)
(* flags of SentrySdk.InitInternal() and SentrySdk.Close() are set exactly *)
(* while a call that set them is in progress.                              *)
THEOREM HubStaysConsistent == Spec => []HubConsistent
  <1>1. LayersInv => HubConsistent
    <2> SUFFICES ASSUME LayersInv PROVE HubConsistent
      OBVIOUS
    <2>1. HubHasOptions
      BY DEF LayersInv, HubState, HubHasOptions
    <2>2. HandlerFollowsHub
      BY DEF LayersInv, HubState, HandlerFollowsHub, Idle, Now
    <2>3. FlagsReleased
      BY DEF LayersInv
    <2> QED
      BY <2>1, <2>2, <2>3 DEF HubConsistent
  <1> QED
    BY <1>1, LayersInvariant, PTL

(* Between calls, a BeforeSend in CurrentOptions is known to the native    *)
(* layer (csharp_interop_sdk_init()), in whichever order the layers were   *)
(* initialized and whether or not the native layer took the init.          *)
THEOREM BeforeSendStaysConnected == Spec => []BeforeSendConnected
  <1>1. LayersInv => BeforeSendConnected
    <2> SUFFICES ASSUME LayersInv, Idle, currentOptions = "hooked" PROVE definedHooks
      BY DEF BeforeSendConnected
    <2>1. Positions = {}
      BY DEF Idle, Positions
    <2> QED
      BY <2>1 DEF LayersInv, HooksKnown, SetsOptionsSoon
  <1> QED
    BY <1>1, LayersInvariant, PTL

-----------------------------------------------------------------------------
(***************************************************************************)
(* The two layers follow each other up and down.  Beyond LayersInv this    *)
(* needs to know that a close or an initialization that has begun will be  *)
(* finished, with steps that are on the agenda already, so that between    *)
(* calls, when the agenda is empty, nothing can be left half done.         *)
(***************************************************************************)
(* After every step of the first name there is one of the other.           *)
Leads(first, later) ==
    \A p \in Positions : agenda[p].do = first =>
        \E q \in Positions : q > p /\ agenda[q].do = later

ClosesPaired ==
    /\ Leads("clear_options", "end_close")
    /\ Leads("close_native", "end_close")
    /\ Leads("notify_close", "close_backend")

Closers == {"close_native", "close_backend"}
ClosesFinish == closing /\ nativeEnabled => Pending(Closers) # {}

(* An initialization of the managed layer still has to set its options, or *)
(* has set them and does nothing but start the hub.                        *)
Setters == {"cs_callback", "set_options"}
Starters == {"init_hub", "install_handler"}
InitsPaired ==
    \A p \in Positions : agenda[p].do = "end_init" =>
        \/ \E q \in Positions : q < p /\ agenda[q].do \in Setters
        \/ /\ currentOptions # "null"
           /\ \A q \in Positions : q < p => agenda[q].do \in Starters

(* A native layer without the managed one will bring it up, or go down.    *)
Bringers == Setters \cup Closers \cup {"notify_init"}
InitsFinish ==
    nativeEnabled /\ registered /\ currentOptions = "null" => Pending(Bringers) # {}

(* Only a close comes between SentrySDK::init() and its backend.           *)
Harmless == ClosingSteps \cup {"gd_callback", "end_close"}
InitsAlone ==
    \A p \in Positions : agenda[p].do = "init_backend" =>
        /\ ~nativeEnabled
        /\ \A q \in Positions : q < p => agenda[q].do \in Harmless

BackendState ==
    /\ Now({"add_logger"}) => nativeEnabled
    /\ loggerAdded => nativeEnabled
    /\ Now({"close_backend"}) => ~loggerAdded
    /\ hubEnabled /\ nativeSession => nativeEnabled

SessionInv ==
    /\ ClosesPaired /\ ClosesFinish
    /\ ~MayThrow => InitsPaired /\ InitsFinish
    /\ ~Reentrant => InitsAlone /\ BackendState

(* What every step of the program has in common.                           *)
Shape(steps, k) ==
    /\ k <= Len(agenda)
    /\ k = 0 => agenda = <<>> \/ agenda[1].do \in Callbacks
    /\ \A p \in 1 .. Len(steps) :
           /\ steps[p].do \in {"clear_options", "close_native"} =>
                  \E q \in 1 .. Len(steps) : q > p /\ steps[q].do = "end_close"
           /\ steps[p].do = "notify_close" =>
                  \E q \in 1 .. Len(steps) : q > p /\ steps[q].do = "close_backend"
           /\ steps[p].do = "end_init" =>
                  \E q \in 1 .. Len(steps) : q < p /\ steps[q].do \in Setters
           /\ steps[p].do = "init_backend" =>
                  /\ ~nativeEnabled'
                  /\ \A q \in 1 .. Len(steps) : q < p => steps[q].do \in Harmless
    /\ k = 1 /\ agenda[1].do \in Starters => \A p \in 1 .. Len(steps) : steps[p].do \in Starters
    /\ k = 1 /\ agenda[1].do = "cs_callback" /\ ~MayThrow =>
           \E p \in 1 .. Len(steps) : steps[p].do = "set_options"
    /\ agenda # <<>> /\ agenda[1].do \in Harmless /\ ~Reentrant =>
           \A p \in 1 .. Len(steps) : steps[p].do \in Harmless

(* Steps of a name that is not the one just done are still there.          *)
LEMMA PendingKept ==
    ASSUME TypeOK, NEW steps \in Seq(StepRecord), NEW k \in {0, 1}, Replaces(steps, k),
           NEW names, Pending(names) # {}, k = 1 => agenda[1].do \notin names
    PROVE  Pending(names)' # {}
  <1>1. agenda \in Seq(StepRecord) /\ Len(agenda) \in Nat /\ Len(steps) \in Nat
    BY DEF TypeOK
  <1>2. PICK i \in Positions : agenda[i].do \in names
    BY <1>1 DEF Pending, Positions
  <1>3. i > k
    BY <1>1, <1>2 DEF Positions
  <1>4. /\ i - k + Len(steps) \in 1 .. Len(agenda')
        /\ agenda'[i - k + Len(steps)].do \in names
    BY <1>2, <1>3, OldSteps
  <1> QED
    BY <1>4 DEF Pending, Replaces

(* New steps are there.                                                    *)
LEMMA PendingAdded ==
    ASSUME TypeOK, NEW steps \in Seq(StepRecord), NEW k \in {0, 1}, Replaces(steps, k),
           NEW names, NEW p \in 1 .. Len(steps), steps[p].do \in names
    PROVE  Pending(names)' # {}
  <1>1. p \in 1 .. Len(agenda') /\ agenda'[p].do \in names
    BY DEF Replaces
  <1> QED
    BY <1>1 DEF Pending, Replaces

LEMMA LeadsKept ==
    ASSUME TypeOK, NEW steps \in Seq(StepRecord), NEW k \in {0, 1}, Replaces(steps, k),
           NEW first, NEW later, Leads(first, later),
           \A p \in 1 .. Len(steps) : steps[p].do = first =>
               \E q \in 1 .. Len(steps) : q > p /\ steps[q].do = later
    PROVE  Leads(first, later)'
  <1>1. agenda \in Seq(StepRecord) /\ Len(agenda) \in Nat /\ Len(steps) \in Nat
    BY DEF TypeOK
  <1> SUFFICES ASSUME NEW p \in 1 .. Len(agenda'), agenda'[p].do = first
               PROVE  \E q \in 1 .. Len(agenda') : q > p /\ agenda'[q].do = later
    BY DEF Leads, Positions
  <1>2. CASE p <= Len(steps)
    <2>1. p \in 1 .. Len(steps) /\ agenda'[p] = steps[p]
      BY <1>1, <1>2 DEF Replaces
    <2>2. PICK q \in 1 .. Len(steps) : q > p /\ steps[q].do = later
      BY <2>1
    <2>3. q \in 1 .. Len(agenda') /\ agenda'[q] = steps[q]
      BY DEF Replaces
    <2> QED
      BY <2>2, <2>3
  <1>3. CASE p > Len(steps)
    <2>1. p - Len(steps) + k \in Positions /\ agenda'[p] = agenda[p - Len(steps) + k]
      BY <1>3 DEF Replaces
    <2>2. PICK q \in Positions : q > p - Len(steps) + k /\ agenda[q].do = later
      BY <2>1 DEF Leads
    <2>3. q > k /\ q - k + Len(steps) > p
      BY <1>1, <1>3, <2>1, <2>2 DEF Positions
    <2>4. /\ q - k + Len(steps) \in 1 .. Len(agenda')
          /\ agenda'[q - k + Len(steps)].do = later
      BY <2>2, <2>3, OldSteps
    <2> QED
      BY <2>3, <2>4
  <1> QED
    BY <1>1, <1>2, <1>3

LEMMA ClosesPairedKept ==
    ASSUME TypeOK, ClosesPaired, NEW steps \in Seq(StepRecord), NEW k \in {0, 1},
           Replaces(steps, k), Shape(steps, k)
    PROVE  ClosesPaired'
  <1>1. Leads("clear_options", "end_close")'
    BY LeadsKept DEF ClosesPaired, Shape
  <1>2. Leads("close_native", "end_close")'
    BY LeadsKept DEF ClosesPaired, Shape
  <1>3. Leads("notify_close", "close_backend")'
    BY LeadsKept DEF ClosesPaired, Shape
  <1> QED
    BY <1>1, <1>2, <1>3 DEF ClosesPaired

LEMMA InitsPairedKept ==
    ASSUME TypeOK, InitsPaired, ~MayThrow, NEW steps \in Seq(StepRecord), NEW k \in {0, 1},
           Replaces(steps, k), Shape(steps, k),
           k = 1 => agenda[1].do # "set_options",
           k = 1 /\ agenda[1].do \in Starters => currentOptions' = currentOptions
    PROVE  InitsPaired'
  <1>1. agenda \in Seq(StepRecord) /\ Len(agenda) \in Nat /\ Len(steps) \in Nat
    BY DEF TypeOK
  <1> SUFFICES ASSUME NEW p \in 1 .. Len(agenda'), agenda'[p].do = "end_init"
               PROVE  \/ \E q \in 1 .. Len(agenda') : q < p /\ agenda'[q].do \in Setters
                      \/ /\ currentOptions' # "null"
                         /\ \A q \in 1 .. Len(agenda') : q < p => agenda'[q].do \in Starters
    BY DEF InitsPaired, Positions
  <1>2. CASE p <= Len(steps)
    <2>1. p \in 1 .. Len(steps) /\ agenda'[p] = steps[p]
      BY <1>1, <1>2 DEF Replaces
    <2>2. PICK q \in 1 .. Len(steps) : q < p /\ steps[q].do \in Setters
      BY <2>1 DEF Shape
    <2>3. q \in 1 .. Len(agenda') /\ agenda'[q] = steps[q]
      BY DEF Replaces
    <2> QED
      BY <2>2, <2>3
  <1>3. CASE p > Len(steps)
    <2> DEFINE o == p - Len(steps) + k
    <2>1. o \in Positions /\ agenda'[p] = agenda[o]
      BY <1>3 DEF Replaces
    <2>2. o > k /\ o - k + Len(steps) = p
      BY <1>1, <1>3, <2>1 DEF Positions
    <2> HIDE DEF o
    <2>3. ASSUME NEW q \in Positions, q < o, agenda[q].do \in Setters
          PROVE  \E r \in 1 .. Len(agenda') : r < p /\ agenda'[r].do \in Setters
      <3>1. CASE q > k
        <4>1. /\ q - k + Len(steps) \in 1 .. Len(agenda')
              /\ agenda'[q - k + Len(steps)] = agenda[q]
          BY <3>1, OldSteps
        <4>2. q - k + Len(steps) < p
          BY <1>1, <2>1, <2>2, <2>3 DEF Positions
        <4> QED
          BY <2>3, <4>1, <4>2
      <3>2. CASE q <= k
        <4>1. k = 1 /\ q = 1
          BY <1>1, <3>2 DEF Positions
        <4>2. agenda[1].do = "cs_callback"
          BY <2>3, <4>1 DEF Setters
        <4>3. PICK r \in 1 .. Len(steps) : steps[r].do = "set_options"
          BY <4>1, <4>2 DEF Shape
        <4>4. r \in 1 .. Len(agenda') /\ agenda'[r] = steps[r]
          BY DEF Replaces
        <4>5. r < p
          BY <1>1, <1>3
        <4> QED
          BY <4>3, <4>4, <4>5 DEF Setters
      <3> QED
        BY <1>1, <3>1, <3>2 DEF Positions
    <2>4. ASSUME currentOptions # "null", \A q \in Positions : q < o => agenda[q].do \in Starters
          PROVE  /\ currentOptions' # "null"
                 /\ \A q \in 1 .. Len(agenda') : q < p => agenda'[q].do \in Starters
      <3>0. 1 \in Positions /\ agenda # <<>>
        BY <1>1, <2>1 DEF Positions
      <3>1. k = 1
        <4>1. ASSUME k = 0 PROVE FALSE
          <5>1. agenda[1].do \in Callbacks
            BY <3>0, <4>1 DEF Shape
          <5>2. CASE o = 1
            BY <1>3, <2>1, <5>1, <5>2 DEF Callbacks
          <5>3. CASE o # 1
            <6>1. 1 < o
              BY <2>1, <5>3 DEF Positions
            <6> QED
              BY <2>4, <3>0, <5>1, <6>1 DEF Callbacks, Starters
          <5> QED
            BY <5>2, <5>3
        <4> QED
          BY <4>1
      <3>2. agenda[1].do \in Starters
        BY <2>2, <2>4, <3>0, <3>1
      <3>3. \A r \in 1 .. Len(steps) : steps[r].do \in Starters
        BY <3>1, <3>2 DEF Shape
      <3>4. ASSUME NEW q \in 1 .. Len(agenda'), q < p PROVE agenda'[q].do \in Starters
        <4>1. CASE q <= Len(steps)
          <5>1. q \in 1 .. Len(steps) /\ agenda'[q] = steps[q]
            BY <1>1, <4>1 DEF Replaces
          <5> QED
            BY <3>3, <5>1
        <4>2. CASE q > Len(steps)
          <5>1. q - Len(steps) + k \in Positions /\ agenda'[q] = agenda[q - Len(steps) + k]
            BY <4>2 DEF Replaces
          <5>2. q - Len(steps) + k < o
            BY <1>1, <2>1, <2>2, <3>4 DEF Positions
          <5> QED
            BY <2>4, <5>1, <5>2
        <4> QED
          BY <1>1, <4>1, <4>2
      <3> QED
        BY <2>4, <3>1, <3>2, <3>4
    <2>5. \/ \E q \in Positions : q < o /\ agenda[q].do \in Setters
          \/ /\ currentOptions # "null"
             /\ \A q \in Positions : q < o => agenda[q].do \in Starters
      BY <2>1 DEF InitsPaired
    <2> QED
      BY <2>3, <2>4, <2>5
  <1> QED
    BY <1>1, <1>2, <1>3

LEMMA InitsAloneKept ==
    ASSUME TypeOK, InitsAlone, ~Reentrant, NEW steps \in Seq(StepRecord), NEW k \in {0, 1},
           Replaces(steps, k), Shape(steps, k),
           (k = 1 /\ agenda[1].do = "init_backend") \/ (nativeEnabled' => nativeEnabled)
    PROVE  InitsAlone'
  <1>1. agenda \in Seq(StepRecord) /\ Len(agenda) \in Nat /\ Len(steps) \in Nat
    BY DEF TypeOK
  <1> SUFFICES ASSUME NEW p \in 1 .. Len(agenda'), agenda'[p].do = "init_backend"
               PROVE  /\ ~nativeEnabled'
                      /\ \A q \in 1 .. Len(agenda') : q < p => agenda'[q].do \in Harmless
    BY DEF InitsAlone, Positions
  <1>2. CASE p <= Len(steps)
    <2>1. p \in 1 .. Len(steps) /\ agenda'[p] = steps[p]
      BY <1>1, <1>2 DEF Replaces
    <2>2. ~nativeEnabled' /\ \A q \in 1 .. Len(steps) : q < p => steps[q].do \in Harmless
      BY <2>1 DEF Shape
    <2>3. ASSUME NEW q \in 1 .. Len(agenda'), q < p PROVE agenda'[q].do \in Harmless
      <3>1. q \in 1 .. Len(steps)
        BY <1>1, <1>2, <2>3
      <3>2. agenda'[q] = steps[q]
        BY <3>1 DEF Replaces
      <3> QED
        BY <2>2, <2>3, <3>1, <3>2
    <2> QED
      BY <2>2, <2>3
  <1>3. CASE p > Len(steps)
    <2> DEFINE o == p - Len(steps) + k
    <2>1. o \in Positions /\ agenda'[p] = agenda[o]
      BY <1>3 DEF Replaces
    <2>2. o > k /\ o - k + Len(steps) = p /\ o \in Nat
      BY <1>1, <1>3, <2>1 DEF Positions
    <2> HIDE DEF o
    <2>3. ~nativeEnabled /\ \A q \in Positions : q < o => agenda[q].do \in Harmless
      BY <2>1 DEF InitsAlone
    <2>4. 1 \in Positions /\ agenda # <<>>
      BY <1>1, <2>1 DEF Positions
    <2>5. agenda[1].do \in Harmless
      <3>1. CASE o = 1
        <4>1. k = 0 /\ agenda[1].do = "init_backend"
          BY <2>1, <2>2, <3>1
        <4> QED
          BY <2>4, <4>1 DEF Shape, Callbacks
      <3>2. CASE o # 1
        <4>1. 1 < o
          BY <2>1, <3>2 DEF Positions
        <4> QED
          BY <2>3, <2>4, <4>1
      <3> QED
        BY <3>1, <3>2
    <2>6. \A r \in 1 .. Len(steps) : steps[r].do \in Harmless
      BY <2>4, <2>5 DEF Shape
    <2>7. ASSUME NEW q \in 1 .. Len(agenda'), q < p PROVE agenda'[q].do \in Harmless
      <3>1. CASE q <= Len(steps)
        <4>1. q \in 1 .. Len(steps) /\ agenda'[q] = steps[q]
          BY <1>1, <3>1 DEF Replaces
        <4> QED
          BY <2>6, <4>1
      <3>2. CASE q > Len(steps)
        <4>1. q - Len(steps) + k \in Positions /\ agenda'[q] = agenda[q - Len(steps) + k]
          BY <3>2 DEF Replaces
        <4>2. q - Len(steps) + k < o
          BY <1>1, <2>1, <2>2, <2>7 DEF Positions
        <4> QED
          BY <2>3, <4>1, <4>2
      <3> QED
        BY <1>1, <3>1, <3>2
    <2>8. ~nativeEnabled'
      BY <2>3, <2>5 DEF Harmless, ClosingSteps
    <2> QED
      BY <2>7, <2>8
  <1> QED
    BY <1>1, <1>2, <1>3

-----------------------------------------------------------------------------
(* There are steps of these names afterwards: new ones, or old ones that   *)
(* are not the step just done.                                             *)
StillPending(names, steps, k) ==
    \/ \E p \in 1 .. Len(steps) : steps[p].do \in names
    \/ \E stage \in SUBSET names : Pending(stage) # {} /\ (k = 1 => agenda[1].do \notin stage)

LEMMA StillThere ==
    ASSUME TypeOK, NEW steps \in Seq(StepRecord), NEW k \in {0, 1}, Replaces(steps, k),
           NEW names, StillPending(names, steps, k)
    PROVE  Pending(names)' # {}
  <1>1. ASSUME NEW p \in 1 .. Len(steps), steps[p].do \in names PROVE Pending(names)' # {}
    BY <1>1, PendingAdded
  <1>2. ASSUME NEW stage \in SUBSET names, Pending(stage) # {}, k = 1 => agenda[1].do \notin stage
        PROVE  Pending(names)' # {}
    <2>1. Pending(stage)' # {}
      BY <1>2, PendingKept
    <2>2. Pending(stage)' \subseteq Pending(names)'
      BY <1>2 DEF Pending
    <2> QED
      BY <2>1, <2>2
  <1> QED
    BY <1>1, <1>2 DEF StillPending

(* What a step does to the state of the layers, beside the agenda.         *)
Advances(steps, k) ==
    /\ closing' /\ nativeEnabled' =>
           \/ closing /\ nativeEnabled /\ (k = 1 => agenda[1].do \notin Closers)
           \/ StillPending(Closers, steps, k)
    /\ k = 1 /\ agenda[1].do \in Starters => currentOptions' = currentOptions
    /\ k = 1 /\ agenda[1].do = "set_options" => steps = <<>> /\ currentOptions' # "null"
    /\ ~MayThrow /\ nativeEnabled' /\ registered' /\ currentOptions' = "null" =>
           \/ /\ nativeEnabled /\ registered /\ currentOptions = "null"
              /\ k = 1 => agenda[1].do \notin Bringers
           \/ StillPending(Bringers, steps, k)
    /\ ~Reentrant =>
           /\ nativeEnabled' => nativeEnabled \/ (k = 1 /\ agenda[1].do = "init_backend")
           /\ loggerAdded' => nativeEnabled'
           /\ hubEnabled' /\ nativeSession' => nativeEnabled'
           /\ steps # <<>> => /\ steps[1].do # "close_backend"
                              /\ steps[1].do = "add_logger" => nativeEnabled'
           /\ k = 1 /\ agenda[1].do = "remove_logger" => ~loggerAdded'
           /\ k = 0 => steps # <<>>

(* Setting the options leaves only the start of the hub to the Init() that *)
(* set them.                                                               *)
LEMMA OptionsSet ==
    ASSUME LayersInv, agenda # <<>>, agenda[1].do = "set_options", Replaces(<<>>, 1),
           currentOptions' # "null"
    PROVE  InitsPaired'
  <1>0. TypeOK /\ StepsInOrder /\ FlagsReleased /\ agenda \in Seq(StepRecord) /\ Len(agenda) \in Nat
    BY DEF LayersInv, TypeOK
  <1>1. 1 \in Positions /\ Len(agenda) # 1
    BY <1>0 DEF Positions, StepsInOrder, Continued
  <1>2. 2 \in Positions /\ 2 = 1 + 1
    <2>1. 1 <= Len(agenda)
      BY <1>1 DEF Positions
    <2>2. 2 <= Len(agenda)
      <3>1. PICK n : n = Len(agenda)
        OBVIOUS
      <3>2. n \in Nat /\ n # 1 /\ 1 <= n
        BY <1>0, <1>1, <2>1, <3>1
      <3>3. 2 <= n
        BY <3>2
      <3> QED
        BY <3>1, <3>3
    <2> QED
      BY <1>0, <2>2 DEF Positions
  <1>3. agenda[2].do = "init_hub"
    BY <1>0, <1>1, <1>2 DEF StepsInOrder, Before
  <1>4. 3 \in Positions /\ 3 = 2 + 1
    BY <1>0, <1>2, <1>3 DEF Positions, StepsInOrder, Continued
  <1>5. agenda[3].do = "end_init"
    BY <1>0, <1>2, <1>3, <1>4 DEF StepsInOrder, Before
  <1>6. Len(<<>>) = 0
    OBVIOUS
  <1> SUFFICES ASSUME NEW p \in 1 .. Len(agenda'), agenda'[p].do = "end_init"
               PROVE  \A q \in 1 .. Len(agenda') : q < p => agenda'[q].do \in Starters
    BY DEF InitsPaired, Positions
  <1>7. p + 1 \in Positions /\ agenda'[p] = agenda[p + 1]
    <2>1. p > Len(<<>>) /\ p - Len(<<>>) + 1 = p + 1
      BY <1>6
    <2> QED
      BY <2>1 DEF Replaces
  <1>8. p + 1 = 3
    <2>1. p + 1 \in Pending({"end_init"}) /\ 3 \in Pending({"end_init"})
      BY <1>0, <1>4, <1>5, <1>7 DEF Pending, Positions
    <2> QED
      BY <1>0, <2>1 DEF FlagsReleased, HeldOnce
  <1> TAKE q \in 1 .. Len(agenda')
  <1> HAVE q < p
  <1>9. q = 1
    BY <1>8
  <1>10. agenda'[1] = agenda[2]
    <2>1. 1 \in 1 .. Len(agenda') /\ 1 > Len(<<>>) /\ 1 - Len(<<>>) + 1 = 2
      BY <1>6, <1>9
    <2> QED
      BY <2>1 DEF Replaces
  <1> QED
    BY <1>3, <1>9, <1>10 DEF Starters

LEMMA SessionKept ==
    ASSUME LayersInv, SessionInv, NEW steps \in Seq(StepRecord), NEW k \in {0, 1},
           Replaces(steps, k), Shape(steps, k), Advances(steps, k)
    PROVE  SessionInv'
  <1>0. TypeOK /\ StepsInOrder /\ agenda \in Seq(StepRecord) /\ Len(agenda) \in Nat
    BY DEF LayersInv, TypeOK
  <1>1. ClosesPaired'
    BY <1>0, ClosesPairedKept DEF SessionInv
  <1>2. ClosesFinish'
    <2> SUFFICES ASSUME closing', nativeEnabled' PROVE Pending(Closers)' # {}
      BY DEF ClosesFinish
    <2>1. CASE closing /\ nativeEnabled /\ (k = 1 => agenda[1].do \notin Closers)
      <3>1. Pending(Closers) # {}
        BY <2>1 DEF SessionInv, ClosesFinish
      <3> QED
        BY <1>0, <2>1, <3>1, PendingKept
    <2>2. CASE StillPending(Closers, steps, k)
      BY <1>0, <2>2, StillThere
    <2> QED
      BY <2>1, <2>2 DEF Advances
  <1>3. ~MayThrow => InitsPaired'
    <2> SUFFICES ASSUME ~MayThrow PROVE InitsPaired'
      OBVIOUS
    <2>1. CASE k = 1 /\ agenda[1].do = "set_options"
      <3>1. steps = <<>> /\ currentOptions' # "null" /\ Replaces(<<>>, 1)
        BY <2>1 DEF Advances
      <3>2. agenda # <<>>
        BY <1>0, <2>1 DEF Shape
      <3> QED
        BY <2>1, <3>1, <3>2, OptionsSet
    <2>2. CASE ~(k = 1 /\ agenda[1].do = "set_options")
      <3>1. k = 1 /\ agenda[1].do \in Starters => currentOptions' = currentOptions
        BY DEF Advances
      <3> QED
        BY <1>0, <2>2, <3>1, InitsPairedKept DEF SessionInv
    <2> QED
      BY <2>1, <2>2
  <1>4. ~MayThrow => InitsFinish'
    <2> SUFFICES ASSUME ~MayThrow, nativeEnabled', registered', currentOptions' = "null"
                 PROVE  Pending(Bringers)' # {}
      BY DEF InitsFinish
    <2>1. CASE /\ nativeEnabled /\ registered /\ currentOptions = "null"
               /\ k = 1 => agenda[1].do \notin Bringers
      <3>1. Pending(Bringers) # {}
        BY <2>1 DEF SessionInv, InitsFinish
      <3> QED
        BY <1>0, <2>1, <3>1, PendingKept
    <2>2. CASE StillPending(Bringers, steps, k)
      BY <1>0, <2>2, StillThere
    <2> QED
      BY <2>1, <2>2 DEF Advances
  <1>5. ~Reentrant => InitsAlone'
    <2> SUFFICES ASSUME ~Reentrant PROVE InitsAlone'
      OBVIOUS
    <2>1. (k = 1 /\ agenda[1].do = "init_backend") \/ (nativeEnabled' => nativeEnabled)
      BY DEF Advances
    <2> QED
      BY <1>0, <2>1, InitsAloneKept DEF SessionInv
  <1>6. ~Reentrant => BackendState'
    <2> SUFFICES ASSUME ~Reentrant PROVE BackendState'
      OBVIOUS
    <2>1. CASE steps # <<>>
      <3>1. agenda' # <<>> /\ agenda'[1] = steps[1]
        BY <1>0, <2>1, NewHead
      <3> QED
        BY <2>1, <3>1 DEF Advances, BackendState, Now
    <2>2. CASE steps = <<>>
      <3>1. k = 1 /\ agenda # <<>>
        BY <1>0, <2>2 DEF Advances, Shape
      <3>2. IF Len(agenda) = 1
            THEN agenda' = <<>>
            ELSE /\ agenda' # <<>>
                 /\ agenda'[1] = agenda[2]
                 /\ Before(agenda[1], agenda[2])
        BY <1>0, <2>2, <3>1, NewHead
      <3>3. ~Now({"add_logger"})'
        BY <3>2 DEF Now, Before
      <3>4. Now({"close_backend"})' => agenda[1].do = "remove_logger"
        BY <3>2 DEF Now, Before
      <3> QED
        BY <3>1, <3>3, <3>4 DEF Advances, BackendState
    <2> QED
      BY <2>1, <2>2
  <1> QED
    BY <1>1, <1>2, <1>3, <1>4, <1>5, <1>6 DEF SessionInv

(* Nothing that the invariant depends on changes for the worse.            *)
LEMMA SessionStays ==
    ASSUME SessionInv, UNCHANGED <<nativeEnabled, loggerAdded, hubVars, closing, agenda>>,
           registered' => registered \/ ~nativeEnabled
    PROVE  SessionInv'
  <1>0. UNCHANGED <<nativeEnabled, loggerAdded, hubEnabled, currentOptions, nativeSession, closing, agenda>>
    BY DEF hubVars
  <1>1. ClosesPaired' /\ ClosesFinish'
    BY <1>0 DEF SessionInv, ClosesPaired, ClosesFinish, Leads, Pending, Positions
  <1>2. ~MayThrow => InitsPaired' /\ InitsFinish'
    BY <1>0 DEF SessionInv, InitsPaired, InitsFinish, Pending, Positions
  <1>3. ~Reentrant => InitsAlone' /\ BackendState'
    BY <1>0 DEF SessionInv, InitsAlone, BackendState, Now, Positions
  <1> QED
    BY <1>1, <1>2, <1>3 DEF SessionInv

(* A step that calls nothing.                                              *)
LEMMA PopSession ==
    ASSUME LayersInv, SessionInv, NEW name \in StepName, AtStep(name), Continue(<<>>),
           name = "cs_callback" => MayThrow, Advances(<<>>, 1)
    PROVE  SessionInv'
  <1>0. /\ TypeOK /\ <<>> \in Seq(StepRecord) /\ 1 \in {0, 1} /\ Len(<<>>) = 0
        /\ agenda \in Seq(StepRecord)
    BY DEF LayersInv, TypeOK
  <1>1. agenda # <<>> /\ agenda[1].do = name /\ Len(agenda) \in Nat \ {0}
    BY <1>0 DEF AtStep
  <1>2. Replaces(<<>>, 1)
    BY <1>0, <1>1, ContinueReplaces
  <1>3. Shape(<<>>, 1)
    <2>1. 1 <= Len(agenda) /\ ~(1 = 0) /\ 1 .. Len(<<>>) = {}
      BY <1>0, <1>1
    <2>2. ~(agenda[1].do = "cs_callback" /\ ~MayThrow)
      BY <1>1
    <2> QED
      BY <2>1, <2>2 DEF Shape
  <1> QED
    BY <1>0, <1>2, <1>3, SessionKept

(* A step that has others to do first.                                     *)
LEMMA PushSession ==
    ASSUME LayersInv, SessionInv, NEW steps \in Seq(StepRecord), NEW k \in {0, 1},
           \/ /\ k = 0 /\ agenda' = steps \o agenda
              /\ agenda # <<>> => agenda[1].do \in Callbacks
           \/ k = 1 /\ agenda # <<>> /\ Continue(steps),
           Shape(steps, k), Advances(steps, k)
    PROVE  SessionInv'
  <1>0. TypeOK
    BY DEF LayersInv
  <1>1. Replaces(steps, k)
    BY <1>0, ContinueReplaces, CallReplaces
  <1> QED
    BY <1>1, SessionKept

(* Neither layer comes up with this step.                                  *)
LEMMA Quiet ==
    ASSUME SessionInv, NEW steps \in Seq(StepRecord), NEW k \in {0, 1},
           UNCHANGED <<nativeEnabled, currentOptions, nativeSession>>,
           closing' => closing, registered' => registered,
           loggerAdded' => loggerAdded, hubEnabled' => hubEnabled,
           k = 1 => /\ agenda[1].do \notin Bringers \/ (agenda[1].do = "cs_callback" /\ MayThrow)
                    /\ agenda[1].do = "remove_logger" => ~loggerAdded',
           k = 0 => steps # <<>>,
           steps # <<>> => steps[1].do \notin {"close_backend", "add_logger"}
    PROVE  Advances(steps, k)
  <1>1. k = 1 => agenda[1].do \notin Closers /\ agenda[1].do # "set_options"
    BY DEF Bringers, Closers, Setters
  <1>2. closing' /\ nativeEnabled' => closing /\ nativeEnabled
    OBVIOUS
  <1>3. ~MayThrow /\ nativeEnabled' /\ registered' /\ currentOptions' = "null" =>
            /\ nativeEnabled /\ registered /\ currentOptions = "null"
            /\ k = 1 => agenda[1].do \notin Bringers
    OBVIOUS
  <1>4. ~Reentrant => BackendState
    BY DEF SessionInv
  <1>5. ~Reentrant => /\ loggerAdded' => nativeEnabled'
                      /\ hubEnabled' /\ nativeSession' => nativeEnabled'
    BY <1>4 DEF BackendState
  <1> QED
    BY <1>1, <1>2, <1>3, <1>5 DEF Advances

-----------------------------------------------------------------------------
(* The invariant, action by action.                                        *)

THEOREM SessionInvInit == Init => SessionInv
  <1> SUFFICES ASSUME Init PROVE SessionInv
    OBVIOUS
  <1>1. Positions = {}
    BY DEF Init, Positions
  <1>2. ClosesPaired /\ ClosesFinish
    BY <1>1 DEF Init, ClosesPaired, ClosesFinish, Leads
  <1>3. InitsPaired /\ InitsFinish
    BY <1>1 DEF Init, InitsPaired, InitsFinish
  <1>4. InitsAlone /\ BackendState
    BY <1>1 DEF Init, InitsAlone, BackendState, Now
  <1> QED
    BY <1>2, <1>3, <1>4 DEF SessionInv

(* The steps that only set, or clear, what they are named for.             *)
LEMMA QuietSession ==
    ASSUME LayersInv, SessionInv, NEW name \in StepName, AtStep(name), Continue(<<>>),
           name \notin Bringers \/ (name = "cs_callback" /\ MayThrow),
           UNCHANGED <<nativeEnabled, currentOptions, nativeSession>>,
           closing' => closing, registered' => registered,
           loggerAdded' => loggerAdded, hubEnabled' => hubEnabled,
           name = "remove_logger" => ~loggerAdded'
    PROVE  SessionInv'
  <1>0. /\ agenda # <<>> /\ agenda[1].do = name
        /\ <<>> \in Seq(StepRecord) /\ 1 \in {0, 1}
    BY DEF LayersInv, TypeOK, AtStep
  <1>1. name = "cs_callback" => MayThrow
    BY DEF Bringers, Setters
  <1>2. /\ agenda[1].do \notin Bringers \/ (agenda[1].do = "cs_callback" /\ MayThrow)
        /\ agenda[1].do = "remove_logger" => ~loggerAdded'
        /\ ~(1 = 0)
    BY <1>0
  <1>3. Advances(<<>>, 1)
    BY <1>0, <1>2, Quiet
  <1> QED
    BY <1>1, <1>3, PopSession

LEMMA QuietSteps ==
    ASSUME LayersInv, SessionInv,
           \/ ReturnFromGdCallback \/ ClearHooks \/ RemoveLogger \/ ReleaseBindings
           \/ ThrowFromCsCallback \/ InstallHandler \/ EndInit \/ DisposeHandler \/ CloseHub
           \/ EndClose
    PROVE  SessionInv'
  <1>0. "gd_callback" \in StepName /\ "cs_callback" \in StepName
    BY DEF StepName, Callbacks
  <1>1. CASE ReturnFromGdCallback
    <2>1. AtStep("gd_callback") /\ Continue(<<>>)
      BY <1>1 DEF ReturnFromGdCallback, Do
    <2> QED
      BY <1>0, <1>1, <2>1, QuietSession
         DEF ReturnFromGdCallback, nativeVars, bridgeVars, hubVars, flags, Bringers, Closers, Setters
  <1>2. CASE ClearHooks
    <2>1. AtStep("clear_hooks") /\ Continue(<<>>) /\ "clear_hooks" \in StepName
      BY <1>2 DEF ClearHooks, Do, StepName
    <2> QED
      BY <1>2, <2>1, QuietSession
         DEF ClearHooks, nativeVars, hubVars, flags, Bringers, Closers, Setters
  <1>3. CASE RemoveLogger
    <2>1. AtStep("remove_logger") /\ Continue(<<>>) /\ "remove_logger" \in StepName
      BY <1>3 DEF RemoveLogger, Do, StepName
    <2> QED
      BY <1>3, <2>1, QuietSession
         DEF RemoveLogger, bridgeVars, hubVars, flags, Bringers, Closers, Setters
  <1>4. CASE ReleaseBindings
    <2>1. AtStep("release_bindings") /\ Continue(<<>>) /\ "release_bindings" \in StepName
      BY <1>4 DEF ReleaseBindings, Do, StepName
    <2> QED
      BY <1>4, <2>1, QuietSession
         DEF ReleaseBindings, nativeVars, hubVars, flags, Bringers, Closers, Setters
  <1>5. CASE ThrowFromCsCallback
    <2>1. AtStep("cs_callback") /\ Continue(<<>>) /\ MayThrow
      BY <1>5 DEF ThrowFromCsCallback, Do
    <2> QED
      BY <1>0, <1>5, <2>1, QuietSession
         DEF ThrowFromCsCallback, nativeVars, bridgeVars, hubVars, flags
  <1>6. CASE InstallHandler
    <2>1. AtStep("install_handler") /\ Continue(<<>>) /\ "install_handler" \in StepName
      BY <1>6 DEF InstallHandler, Do, StepName
    <2> QED
      BY <1>6, <2>1, QuietSession
         DEF InstallHandler, nativeVars, bridgeVars, flags, Bringers, Closers, Setters
  <1>7. CASE EndInit
    <2>1. AtStep("end_init") /\ Continue(<<>>) /\ "end_init" \in StepName
      BY <1>7 DEF EndInit, Do, StepName
    <2> QED
      BY <1>7, <2>1, QuietSession
         DEF EndInit, nativeVars, bridgeVars, hubVars, Bringers, Closers, Setters
  <1>8. CASE DisposeHandler
    <2>1. AtStep("dispose_handler") /\ Continue(<<>>) /\ "dispose_handler" \in StepName
      BY <1>8 DEF DisposeHandler, Do, StepName
    <2> QED
      BY <1>8, <2>1, QuietSession
         DEF DisposeHandler, nativeVars, bridgeVars, flags, Bringers, Closers, Setters
  <1>9. CASE CloseHub
    <2>1. AtStep("close_hub") /\ Continue(<<>>) /\ "close_hub" \in StepName
      BY <1>9 DEF CloseHub, Do, StepName
    <2> QED
      BY <1>9, <2>1, QuietSession
         DEF CloseHub, nativeVars, bridgeVars, flags, Bringers, Closers, Setters
  <1>10. CASE EndClose
    <2>1. AtStep("end_close") /\ Continue(<<>>) /\ "end_close" \in StepName
      BY <1>10 DEF EndClose, Do, StepName
    <2> QED
      BY <1>10, <2>1, QuietSession
         DEF EndClose, nativeVars, bridgeVars, hubVars, Bringers, Closers, Setters
  <1> QED
    BY <1>1, <1>2, <1>3, <1>4, <1>5, <1>6, <1>7, <1>8, <1>9, <1>10

LEMMA InitNativeSdkSession ==
    ASSUME LayersInv, SessionInv, NEW withCallback \in BOOLEAN, InitNativeSdk(withCallback)
    PROVE  SessionInv'
  <1> DEFINE steps == IF withCallback THEN <<Step("gd_callback"), Step("init_backend")>>
                                      ELSE <<Step("init_backend")>>
  <1>0. /\ TypeOK /\ UserCode /\ agenda' = steps \o agenda /\ ~nativeEnabled
        /\ UNCHANGED <<nativeEnabled, loggerAdded, hubEnabled, currentOptions, nativeSession,
                       closing, registered>>
    BY DEF LayersInv, InitNativeSdk, Call, nativeVars, bridgeVars, hubVars, flags
  <1>1. /\ steps \in Seq(StepRecord) /\ steps # <<>>
        /\ \A i \in 1 .. Len(steps) :
               steps[i].do = "gd_callback" \/ (steps[i].do = "init_backend" /\ i = Len(steps))
        /\ \A i, j \in 1 .. Len(steps) : i < j => steps[i].do = "gd_callback"
        /\ 1 \in 1 .. Len(steps)
    <2>1. CASE withCallback
      <3>1. steps = <<Step("gd_callback"), Step("init_backend")>>
        BY <2>1
      <3> QED
        BY <3>1, StepTypes DEF StepName, Callbacks, Step
    <2>2. CASE ~withCallback
      <3>1. steps = <<Step("init_backend")>>
        BY <2>2
      <3> QED
        BY <3>1, StepTypes DEF StepName, Callbacks, Step
    <2> QED
      BY <2>1, <2>2
  <1> HIDE DEF steps
  <1>2. agenda # <<>> => agenda[1].do \in Callbacks
    BY <1>0 DEF UserCode, TypeOK
  <1>3. ~(agenda # <<>> /\ agenda[1].do \in Harmless /\ ~Reentrant)
    <2> SUFFICES ASSUME agenda # <<>>, agenda[1].do \in Harmless, ~Reentrant PROVE FALSE
      OBVIOUS
    <2>1. agenda[1].do = "gd_callback" /\ 1 \in Positions
      BY <1>0, <1>2 DEF Harmless, ClosingSteps, Callbacks, TypeOK, Positions
    <2>2. 1 \in Pending({"gd_callback"})
      BY <1>0, <2>1 DEF Pending, TypeOK, Positions
    <2> QED
      BY <2>2 DEF InitNativeSdk, MayInit
  <1>4. Shape(steps, 0)
    <2>1. 0 <= Len(agenda) /\ ~(0 = 1)
      BY <1>0 DEF TypeOK
    <2>2. \A p \in 1 .. Len(steps) :
              /\ steps[p].do \notin {"clear_options", "close_native", "notify_close", "end_init"}
              /\ \A q \in 1 .. Len(steps) : q < p => steps[q].do \in Harmless
      BY <1>1 DEF Harmless
    <2> QED
      BY <1>0, <1>2, <1>3, <2>1, <2>2 DEF Shape
  <1>5. Advances(steps, 0)
    <2>1. steps[1].do \notin {"close_backend", "add_logger"} /\ ~(0 = 1)
      BY <1>1
    <2> QED
      BY <1>0, <1>1, <2>1, Quiet
  <1> QED
    BY <1>0, <1>1, <1>2, <1>4, <1>5, PushSession

LEMMA InitBackendSession ==
    ASSUME LayersInv, SessionInv, NEW ok \in BOOLEAN, InitBackend(ok) PROVE SessionInv'
  <1>0. /\ TypeOK /\ AtStep("init_backend") /\ "init_backend" \in StepName /\ agenda # <<>>
        /\ agenda[1].do = "init_backend" /\ 1 \in Positions
        /\ nativeEnabled' = ok
        /\ UNCHANGED <<loggerAdded, hubEnabled, currentOptions, nativeSession, closing, registered>>
    BY DEF LayersInv, TypeOK, InitBackend, Do, StepName, AtStep, Positions, bridgeVars, hubVars, flags
  <1>1. ~Reentrant => ~nativeEnabled /\ ~loggerAdded /\ ~(hubEnabled /\ nativeSession)
    BY <1>0 DEF SessionInv, InitsAlone, BackendState
  <1>2. CASE ok
    <2> DEFINE steps == <<Step("add_logger"), Step("notify_init")>>
    <2>1. /\ steps \in Seq(StepRecord) /\ steps # <<>>
          /\ Len(steps) = 2 /\ 1 .. Len(steps) = {1, 2} /\ 2 \in 1 .. Len(steps)
          /\ steps[1].do = "add_logger" /\ steps[2].do = "notify_init"
      BY StepTypes DEF StepName, Step
    <2>2. Continue(steps)
      BY <1>2 DEF InitBackend, Do
    <2> HIDE DEF steps
    <2>3. ~closing
      <3> SUFFICES ASSUME closing PROVE FALSE
        OBVIOUS
      <3>1. PICK p \in Positions : agenda[p].do = "end_close"
        BY <1>0 DEF LayersInv, FlagsReleased, HeldOnce, Pending, Positions, TypeOK
      <3>2. 1 < p
        BY <1>0, <3>1 DEF Positions
      <3> QED
        BY <1>0, <3>1, <3>2 DEF LayersInv, ClosesOnTop, ClosingSteps
    <2>4. Shape(steps, 1)
      <3>1. 1 <= Len(agenda) /\ ~(1 = 0)
        BY <1>0 DEF Positions, TypeOK
      <3>2. agenda[1].do \notin Starters /\ agenda[1].do \notin Harmless /\ agenda[1].do # "cs_callback"
        BY <1>0 DEF Starters, Harmless, ClosingSteps
      <3>3. \A p \in 1 .. Len(steps) :
                steps[p].do \notin {"clear_options", "close_native", "notify_close", "end_init", "init_backend"}
        BY <2>1
      <3> QED
        BY <1>0, <3>1, <3>2, <3>3 DEF Shape
    <2>5. StillPending(Bringers, steps, 1)
      BY <2>1 DEF StillPending, Bringers
    <2>6. agenda[1].do \notin Starters
      BY <1>0 DEF Starters
    <2>7. Advances(steps, 1)
      BY <1>0, <1>1, <1>2, <2>1, <2>3, <2>5, <2>6 DEF Advances
    <2> QED
      BY <1>0, <2>1, <2>2, <2>4, <2>7, PushSession
  <1>3. CASE ~ok
    <2>1. Continue(<<>>)
      BY <1>3 DEF InitBackend, Do
    <2>2. agenda[1].do \notin Starters
      BY <1>0 DEF Starters
    <2>3. Advances(<<>>, 1)
      BY <1>0, <1>1, <1>3, <2>2 DEF Advances
    <2> QED
      BY <1>0, <2>1, <2>3, PopSession
  <1> QED
    BY <1>2, <1>3

LEMMA AddLoggerSession ==
    ASSUME LayersInv, SessionInv, NEW loggerOption \in BOOLEAN, AddLogger(loggerOption)
    PROVE  SessionInv'
  <1>0. /\ TypeOK /\ AtStep("add_logger") /\ "add_logger" \in StepName /\ Continue(<<>>)
        /\ agenda # <<>> /\ agenda[1].do = "add_logger"
        /\ UNCHANGED <<nativeEnabled, hubEnabled, currentOptions, nativeSession, closing, registered>>
    BY DEF LayersInv, TypeOK, AddLogger, Do, StepName, AtStep, bridgeVars, hubVars, flags
  <1>1. ~Reentrant => nativeEnabled /\ (hubEnabled /\ nativeSession => nativeEnabled)
    BY <1>0 DEF SessionInv, BackendState, Now
  <1>2. agenda[1].do \notin Starters \cup Closers \cup Bringers
    BY <1>0 DEF Starters, Closers, Bringers, Setters
  <1>3. Advances(<<>>, 1)
    BY <1>0, <1>1, <1>2 DEF Advances
  <1> QED
    BY <1>0, <1>3, PopSession

LEMMA NotifyInitSession ==
    ASSUME LayersInv, SessionInv, NotifyInit PROVE SessionInv'
  <1>0. /\ TypeOK /\ AtStep("notify_init") /\ "notify_init" \in StepName
        /\ agenda # <<>> /\ agenda[1].do = "notify_init" /\ 1 \in Positions
        /\ UNCHANGED <<nativeEnabled, loggerAdded, hubEnabled, currentOptions, nativeSession,
                       closing, registered>>
    BY DEF LayersInv, TypeOK, NotifyInit, StepName, AtStep, Positions, nativeVars, bridgeVars, hubVars
  <1>1. /\ agenda[1].do \notin Starters \cup Closers \cup Setters
        /\ ~Reentrant => /\ loggerAdded => nativeEnabled
                         /\ hubEnabled /\ nativeSession => nativeEnabled
    BY <1>0 DEF SessionInv, BackendState, Starters, Closers, Setters
  <1>2. CASE registered /\ ~initializing
    <2> DEFINE steps == Append(InitDotnet("native"), Step("end_init"))
    <2>1. /\ steps \in Seq(StepRecord) /\ steps # <<>>
          /\ Len(steps) = 3 /\ 1 .. Len(steps) = {1, 2, 3} /\ 1 \in 1 .. Len(steps)
          /\ steps[1].do = "set_options" /\ steps[1].with = "native"
          /\ steps[2].do = "init_hub" /\ steps[3].do = "end_init"
      BY InitFromNativeSteps
    <2>2. Continue(steps)
      BY <1>2 DEF NotifyInit, InitFromNative
    <2> HIDE DEF steps
    <2>3. Shape(steps, 1)
      <3>1. 1 <= Len(agenda) /\ ~(1 = 0)
        BY <1>0 DEF Positions, TypeOK
      <3>2. agenda[1].do \notin Starters /\ agenda[1].do # "cs_callback"
        BY <1>0 DEF Starters
      <3>3. agenda[1].do \in Harmless => FALSE
        BY <1>0 DEF Harmless, ClosingSteps
      <3>4. \A p \in 1 .. Len(steps) :
                /\ steps[p].do \notin {"clear_options", "close_native", "notify_close", "init_backend"}
                /\ steps[p].do = "end_init" => p = 3
        BY <2>1
      <3>5. 1 \in 1 .. Len(steps) /\ 1 < 3 /\ steps[1].do \in Setters
        BY <2>1 DEF Setters
      <3> QED
        BY <1>0, <3>1, <3>2, <3>3, <3>4, <3>5 DEF Shape
    <2>4. StillPending(Bringers, steps, 1)
      BY <2>1 DEF StillPending, Bringers, Setters
    <2>5. Advances(steps, 1)
      BY <1>0, <1>1, <2>1, <2>4 DEF Advances
    <2> QED
      BY <1>0, <2>1, <2>2, <2>3, <2>5, PushSession
  <1>3. CASE ~(registered /\ ~initializing)
    <2>1. Continue(<<>>)
      BY <1>3 DEF NotifyInit, InitFromNative
    <2>2. ~MayThrow /\ registered /\ currentOptions = "null" => StillPending(Bringers, <<>>, 1)
      <3> SUFFICES ASSUME ~MayThrow, registered, currentOptions = "null"
                   PROVE  Pending(Setters) # {} /\ Setters \in SUBSET Bringers
        BY <1>1 DEF StillPending
      <3>1. PICK p \in Positions : agenda[p].do = "end_init"
        BY <1>0, <1>3 DEF LayersInv, FlagsReleased, HeldOnce, Pending, Positions, TypeOK
      <3>2. PICK q \in Positions : q < p /\ agenda[q].do \in Setters
        <4>1. p # 1 /\ 1 < p
          BY <1>0, <3>1 DEF Positions
        <4> QED
          BY <3>1 DEF SessionInv, InitsPaired
      <3> QED
        BY <1>0, <3>2 DEF Pending, Positions, TypeOK, Bringers
    <2>3. Advances(<<>>, 1)
      BY <1>0, <1>1, <2>2 DEF Advances
    <2> QED
      BY <1>0, <2>1, <2>3, PopSession
  <1> QED
    BY <1>2, <1>3

(* The steps of SentrySDK::close(), wherever it was called from.           *)
LEMMA CloseStepsShape ==
    ASSUME LayersInv, NEW k \in {0, 1}, k <= Len(agenda),
           k = 0 => agenda = <<>> \/ agenda[1].do \in Callbacks,
           k = 1 => agenda[1].do = "close_native"
    PROVE  Shape(CloseSteps, k)
  <1>1. \A p \in 1 .. Len(CloseSteps) :
            /\ CloseSteps[p].do \notin {"clear_options", "close_native", "end_init", "init_backend"}
            /\ CloseSteps[p].do \in Harmless
            /\ CloseSteps[p].do = "notify_close" => p = 1
    BY CloseStepsProper DEF Harmless, ClosingSteps
  <1>2. 4 \in 1 .. Len(CloseSteps) /\ 4 > 1 /\ CloseSteps[4].do = "close_backend"
    BY CloseStepsProper
  <1>3. k = 1 => agenda[1].do \notin Starters /\ agenda[1].do # "cs_callback"
    BY DEF Starters
  <1> QED
    BY <1>1, <1>2, <1>3 DEF Shape

LEMMA CloseNativeSdkSession ==
    ASSUME LayersInv, SessionInv, CloseNativeSdk PROVE SessionInv'
  <1>0. /\ TypeOK /\ UserCode /\ agenda' = CloseSteps \o agenda
        /\ UNCHANGED <<nativeEnabled, loggerAdded, hubEnabled, currentOptions, nativeSession,
                       closing, registered>>
    BY DEF LayersInv, CloseNativeSdk, Call, nativeVars, bridgeVars, hubVars, flags
  <1>1. agenda # <<>> => agenda[1].do \in Callbacks
    BY <1>0 DEF UserCode, TypeOK
  <1>2. 0 <= Len(agenda) /\ ~(0 = 1)
    BY <1>0 DEF TypeOK
  <1>3. Shape(CloseSteps, 0)
    BY <1>1, <1>2, CloseStepsShape
  <1>4. CloseSteps[1].do \notin {"close_backend", "add_logger"}
    BY CloseStepsProper
  <1>5. Advances(CloseSteps, 0)
    BY <1>0, <1>2, <1>4, CloseStepsProper, Quiet
  <1> QED
    BY <1>0, <1>1, <1>3, <1>5, CloseStepsProper, PushSession

LEMMA CloseNativeSession ==
    ASSUME LayersInv, SessionInv, CloseNative PROVE SessionInv'
  <1>0. /\ TypeOK /\ AtStep("close_native") /\ "close_native" \in StepName
        /\ agenda # <<>> /\ agenda[1].do = "close_native" /\ 1 <= Len(agenda) /\ ~(1 = 0)
        /\ UNCHANGED <<nativeEnabled, loggerAdded, hubEnabled, currentOptions, nativeSession,
                       closing, registered>>
    BY DEF LayersInv, TypeOK, CloseNative, Do, StepName, AtStep, nativeVars, bridgeVars, hubVars, flags
  <1>1. /\ agenda[1].do \notin Starters
        /\ ~Reentrant => /\ loggerAdded => nativeEnabled
                         /\ hubEnabled /\ nativeSession => nativeEnabled
    BY <1>0 DEF SessionInv, BackendState, Starters
  <1>2. CASE nativeEnabled
    <2>1. Continue(CloseSteps)
      BY <1>2 DEF CloseNative, Do
    <2>2. Shape(CloseSteps, 1)
      BY <1>0, CloseStepsShape
    <2>3. CloseSteps[1].do \notin {"close_backend", "add_logger"}
      BY CloseStepsProper
    <2>4. StillPending(Closers, CloseSteps, 1) /\ StillPending(Bringers, CloseSteps, 1)
      <3>1. 4 \in 1 .. Len(CloseSteps) /\ CloseSteps[4].do \in Closers
        BY CloseStepsProper DEF Closers
      <3> QED
        BY <3>1 DEF StillPending, Bringers
    <2>5. Advances(CloseSteps, 1)
      BY <1>0, <1>1, <2>3, <2>4 DEF Advances
    <2> QED
      BY <1>0, <2>1, <2>2, <2>5, CloseStepsProper, PushSession
  <1>3. CASE ~nativeEnabled
    <2>1. Continue(<<>>)
      BY <1>3 DEF CloseNative, Do
    <2>2. Advances(<<>>, 1)
      BY <1>0, <1>1, <1>3 DEF Advances
    <2> QED
      BY <1>0, <2>1, <2>2, PopSession
  <1> QED
    BY <1>2, <1>3

LEMMA NotifyCloseSession ==
    ASSUME LayersInv, SessionInv, NotifyClose PROVE SessionInv'
  <1>0. /\ TypeOK /\ AtStep("notify_close") /\ "notify_close" \in StepName
        /\ agenda # <<>> /\ agenda[1].do = "notify_close" /\ 1 \in Positions
        /\ 1 <= Len(agenda) /\ ~(1 = 0)
        /\ UNCHANGED <<nativeEnabled, loggerAdded, hubEnabled, currentOptions, nativeSession, registered>>
    BY DEF LayersInv, TypeOK, NotifyClose, StepName, AtStep, Positions, nativeVars, bridgeVars, hubVars
  <1>1. /\ agenda[1].do \notin Starters \cup Closers \cup Bringers
        /\ ~Reentrant => /\ loggerAdded => nativeEnabled
                         /\ hubEnabled /\ nativeSession => nativeEnabled
    BY <1>0 DEF SessionInv, BackendState, Starters, Closers, Setters, Bringers
  <1>2. CASE registered /\ ~closing
    <2> DEFINE steps == Append(CloseDotnetSdk, Step("end_close"))
    <2>1. /\ steps \in Seq(StepRecord) /\ steps # <<>>
          /\ Len(steps) = 4 /\ 1 .. Len(steps) = {1, 2, 3, 4}
          /\ steps[1].do = "dispose_handler" /\ steps[2].do = "close_hub"
          /\ steps[3].do = "clear_options" /\ steps[4].do = "end_close"
      BY CloseFromNativeSteps
    <2>2. Continue(steps)
      BY <1>2 DEF NotifyClose
    <2> HIDE DEF steps
    <2>3. Shape(steps, 1)
      <3>1. \A p \in 1 .. Len(steps) :
                /\ steps[p].do \notin {"close_native", "notify_close", "end_init", "init_backend"}
                /\ steps[p].do \in Harmless
                /\ steps[p].do = "clear_options" => p = 3
        BY <2>1 DEF Harmless, ClosingSteps
      <3>2. 4 \in 1 .. Len(steps) /\ 4 > 3
        BY <2>1
      <3>3. agenda[1].do \notin Starters /\ agenda[1].do # "cs_callback"
        BY <1>0, <1>1
      <3> QED
        BY <1>0, <2>1, <3>1, <3>2, <3>3 DEF Shape
    <2>4. StillPending(Closers, steps, 1)
      <3>1. PICK q \in Positions : agenda[q].do = "close_backend"
        BY <1>0 DEF SessionInv, ClosesPaired, Leads
      <3>2. q \in Pending({"close_backend"})
        BY <1>0, <3>1 DEF Pending, Positions, TypeOK
      <3>3. {"close_backend"} \in SUBSET Closers /\ agenda[1].do \notin {"close_backend"}
        BY <1>0 DEF Closers
      <3> QED
        BY <3>2, <3>3 DEF StillPending
    <2>5. Advances(steps, 1)
      BY <1>0, <1>1, <2>1, <2>4 DEF Advances
    <2> QED
      BY <1>0, <2>1, <2>2, <2>3, <2>5, PushSession
  <1>3. CASE ~(registered /\ ~closing)
    <2>1. Continue(<<>>) /\ closing' = closing
      BY <1>3 DEF NotifyClose
    <2>2. Advances(<<>>, 1)
      BY <1>0, <1>1, <2>1 DEF Advances
    <2> QED
      BY <1>0, <2>1, <2>2, PopSession
  <1> QED
    BY <1>2, <1>3

LEMMA CloseBackendSession ==
    ASSUME LayersInv, SessionInv, CloseBackend PROVE SessionInv'
  <1>0. /\ TypeOK /\ AtStep("close_backend") /\ "close_backend" \in StepName /\ Continue(<<>>)
        /\ agenda # <<>> /\ agenda[1].do = "close_backend" /\ nativeEnabled' = FALSE
        /\ UNCHANGED <<loggerAdded, hubEnabled, currentOptions, nativeSession, closing, registered>>
    BY DEF LayersInv, TypeOK, CloseBackend, Do, StepName, AtStep, bridgeVars, hubVars, flags
  <1>1. ~hubEnabled /\ agenda[1].do \notin Starters
    BY <1>0 DEF LayersInv, HeadReady, HubState, Now, Starters
  <1>2. ~Reentrant => ~loggerAdded
    BY <1>0 DEF SessionInv, BackendState, Now
  <1>3. Advances(<<>>, 1)
    BY <1>0, <1>1, <1>2 DEF Advances
  <1> QED
    BY <1>0, <1>3, PopSession

LEMMA ShutdownSession ==
    ASSUME LayersInv, SessionInv, Shutdown PROVE SessionInv'
  <1> DEFINE steps == (IF nativeEnabled THEN CloseSteps ELSE <<>>) \o <<Step("release_bindings")>>
  <1>0. /\ TypeOK /\ agenda = <<>> /\ agenda' = steps /\ nativeEnabled \in BOOLEAN
        /\ UNCHANGED <<nativeEnabled, loggerAdded, hubEnabled, currentOptions, nativeSession,
                       closing, registered>>
    BY DEF LayersInv, TypeOK, Shutdown, Idle, nativeVars, bridgeVars, hubVars, flags
  <1>1. /\ steps \in Seq(StepRecord) /\ steps # <<>>
        /\ steps[1].do \in {"notify_close", "release_bindings"}
        /\ \A i \in 1 .. Len(steps) :
               IF i = Len(steps) THEN steps[i].do = "release_bindings"
                                 ELSE steps[i].do \in {"notify_close", "clear_hooks", "remove_logger", "close_backend"}
        /\ \A p \in 1 .. Len(steps) : steps[p].do = "notify_close" =>
               \E q \in 1 .. Len(steps) : q > p /\ steps[q].do = "close_backend"
    BY <1>0, ShutdownSteps
  <1> HIDE DEF steps
  <1>2. agenda' = steps \o agenda
    BY <1>0, <1>1
  <1>3. Shape(steps, 0)
    <2>1. 0 <= Len(agenda) /\ ~(0 = 1)
      BY <1>0
    <2>2. \A p \in 1 .. Len(steps) :
              steps[p].do \notin {"clear_options", "close_native", "end_init", "init_backend"}
      BY <1>1
    <2> QED
      BY <1>0, <1>1, <2>1, <2>2 DEF Shape
  <1>4. Advances(steps, 0)
    <2>1. steps[1].do \notin {"close_backend", "add_logger"} /\ ~(0 = 1)
      BY <1>1
    <2> QED
      BY <1>0, <1>1, <2>1, Quiet
  <1> QED
    BY <1>0, <1>1, <1>2, <1>3, <1>4, PushSession

LEMMA LoadAssemblySession ==
    ASSUME LayersInv, SessionInv, LoadAssembly PROVE SessionInv'
  <1>0. /\ TypeOK /\ agenda = <<>> /\ registered' = TRUE
        /\ UNCHANGED <<nativeEnabled, loggerAdded, hubVars, hubEnabled, currentOptions,
                       nativeSession, closing>>
    BY DEF LayersInv, LoadAssembly, Idle, nativeVars, hubVars
  <1>1. CASE nativeEnabled
    <2> DEFINE steps == Append(InitDotnet("native"), Step("end_init"))
    <2>1. /\ steps \in Seq(StepRecord) /\ steps # <<>>
          /\ Len(steps) = 3 /\ 1 .. Len(steps) = {1, 2, 3}
          /\ steps[1].do = "set_options" /\ steps[1].with = "native"
          /\ steps[2].do = "init_hub" /\ steps[3].do = "end_init"
      BY InitFromNativeSteps
    <2>2. agenda' = steps
      BY <1>1 DEF LoadAssembly
    <2> HIDE DEF steps
    <2>3. agenda' = steps \o agenda
      BY <1>0, <2>1, <2>2
    <2>4. Shape(steps, 0)
      <3>1. 0 <= Len(agenda) /\ ~(0 = 1)
        BY <1>0
      <3>2. \A p \in 1 .. Len(steps) :
                /\ steps[p].do \notin {"clear_options", "close_native", "notify_close", "init_backend"}
                /\ steps[p].do = "end_init" => p = 3
        BY <2>1
      <3>3. 1 \in 1 .. Len(steps) /\ 1 < 3 /\ steps[1].do \in Setters
        BY <2>1 DEF Setters
      <3> QED
        BY <1>0, <3>1, <3>2, <3>3 DEF Shape
    <2>5. ClosesFinish /\ (~Reentrant => BackendState)
      BY DEF SessionInv
    <2>6. Advances(steps, 0)
      <3>1. 1 \in 1 .. Len(steps) /\ steps[1].do \in Bringers /\ ~(0 = 1)
        BY <2>1 DEF Bringers, Setters
      <3>2. StillPending(Bringers, steps, 0)
        BY <3>1 DEF StillPending
      <3> QED
        BY <1>0, <2>1, <2>5, <3>1, <3>2 DEF Advances, BackendState
    <2> QED
      BY <1>0, <2>1, <2>3, <2>4, <2>6, PushSession
  <1>2. CASE ~nativeEnabled
    <2>1. agenda' = agenda
      BY <1>2 DEF LoadAssembly
    <2> QED
      BY <1>0, <1>2, <2>1, SessionStays
  <1> QED
    BY <1>1, <1>2

LEMMA InitManagedSdkSession ==
    ASSUME LayersInv, SessionInv, InitManagedSdk PROVE SessionInv'
  <1> DEFINE steps == <<Step("cs_callback"), Step("end_init")>>
  <1>0. /\ TypeOK /\ UserCode /\ agenda' = steps \o agenda
        /\ UNCHANGED <<nativeEnabled, loggerAdded, hubEnabled, currentOptions, nativeSession,
                       closing, registered>>
    BY DEF LayersInv, InitManagedSdk, Call, nativeVars, bridgeVars, hubVars
  <1>1. /\ steps \in Seq(StepRecord) /\ steps # <<>>
        /\ Len(steps) = 2 /\ 1 .. Len(steps) = {1, 2}
        /\ steps[1].do = "cs_callback" /\ steps[2].do = "end_init"
    BY StepTypes DEF StepName, Callbacks, Step
  <1> HIDE DEF steps
  <1>2. agenda # <<>> => agenda[1].do \in Callbacks
    BY <1>0 DEF UserCode, TypeOK
  <1>3. ~(agenda # <<>> /\ agenda[1].do \in Harmless /\ ~Reentrant)
    <2> SUFFICES ASSUME agenda # <<>>, agenda[1].do \in Harmless, ~Reentrant PROVE FALSE
      OBVIOUS
    <2>1. agenda[1].do = "gd_callback" /\ 1 \in Positions
      BY <1>0, <1>2 DEF Harmless, ClosingSteps, Callbacks, TypeOK, Positions
    <2>2. 1 \in Pending({"gd_callback"})
      BY <1>0, <2>1 DEF Pending, TypeOK, Positions
    <2> QED
      BY <2>2 DEF InitManagedSdk, MayInit
  <1>4. Shape(steps, 0)
    <2>1. 0 <= Len(agenda) /\ ~(0 = 1)
      BY <1>0 DEF TypeOK
    <2>2. \A p \in 1 .. Len(steps) :
              /\ steps[p].do \notin {"clear_options", "close_native", "notify_close", "init_backend"}
              /\ steps[p].do = "end_init" => p = 2
      BY <1>1
    <2>3. 1 \in 1 .. Len(steps) /\ 1 < 2 /\ steps[1].do \in Setters
      BY <1>1 DEF Setters
    <2> QED
      BY <1>0, <1>2, <1>3, <2>1, <2>2, <2>3 DEF Shape
  <1>5. Advances(steps, 0)
    <2>1. steps[1].do \notin {"close_backend", "add_logger"} /\ ~(0 = 1)
      BY <1>1
    <2> QED
      BY <1>0, <1>1, <2>1, Quiet
  <1> QED
    BY <1>0, <1>1, <1>2, <1>4, <1>5, PushSession

LEMMA ReturnFromCsCallbackSession ==
    ASSUME LayersInv, SessionInv, NEW o \in ManagedOptions, ReturnFromCsCallback(o)
    PROVE  SessionInv'
  <1> DEFINE steps == <<StepWith("init_native", o)>> \o InitDotnet(o)
  <1>0. /\ TypeOK /\ AtStep("cs_callback") /\ agenda # <<>> /\ agenda[1].do = "cs_callback"
        /\ 1 <= Len(agenda) /\ ~(1 = 0) /\ Continue(steps)
        /\ UNCHANGED <<nativeEnabled, loggerAdded, hubEnabled, currentOptions, nativeSession,
                       closing, registered>>
    BY DEF LayersInv, TypeOK, ReturnFromCsCallback, Do, AtStep, nativeVars, bridgeVars, hubVars, flags
  <1>1. /\ steps \in Seq(StepRecord) /\ steps # <<>>
        /\ Len(steps) = 3 /\ 1 .. Len(steps) = {1, 2, 3}
        /\ steps[1].do = "init_native" /\ steps[2].do = "set_options" /\ steps[3].do = "init_hub"
    BY CallbackSteps DEF Options
  <1> HIDE DEF steps
  <1>2. /\ agenda[1].do \notin Starters \cup Closers \cup Harmless
        /\ ~Reentrant => /\ loggerAdded => nativeEnabled
                         /\ hubEnabled /\ nativeSession => nativeEnabled
    BY <1>0 DEF SessionInv, BackendState, Starters, Closers, Harmless, ClosingSteps
  <1>3. 2 \in 1 .. Len(steps) /\ steps[2].do \in Bringers
    BY <1>1 DEF Bringers, Setters
  <1>4. Shape(steps, 1)
    <2>1. \A p \in 1 .. Len(steps) :
              steps[p].do \notin {"clear_options", "close_native", "notify_close", "end_init", "init_backend"}
      BY <1>1
    <2> QED
      BY <1>0, <1>1, <1>2, <1>3, <2>1 DEF Shape
  <1>5. Advances(steps, 1)
    <2>1. StillPending(Bringers, steps, 1)
      BY <1>3 DEF StillPending
    <2> QED
      BY <1>0, <1>1, <1>2, <2>1 DEF Advances
  <1> QED
    BY <1>0, <1>1, <1>4, <1>5, PushSession

LEMMA InitNativeSession ==
    ASSUME LayersInv, SessionInv, InitNative PROVE SessionInv'
  <1>0. /\ TypeOK /\ AtStep("init_native") /\ "init_native" \in StepName
        /\ agenda # <<>> /\ agenda[1].do = "init_native" /\ 1 <= Len(agenda) /\ ~(1 = 0)
        /\ agenda[1] \in StepRecord /\ Argument = agenda[1].with
        /\ UNCHANGED <<nativeEnabled, loggerAdded, hubEnabled, currentOptions, nativeSession,
                       closing, registered>>
    <2>1. /\ TypeOK /\ AtStep("init_native") /\ "init_native" \in StepName
          /\ agenda # <<>> /\ agenda[1].do = "init_native" /\ 1 <= Len(agenda)
          /\ agenda[1] \in StepRecord /\ Argument = agenda[1].with
      BY DEF LayersInv, TypeOK, InitNative, Do, AtStep, StepName, Argument
    <2> QED
      BY <2>1 DEF InitNative, nativeVars, hubVars, flags
  <1>1. agenda[1].do \notin Starters \cup Closers \cup Harmless \cup Bringers
    BY <1>0 DEF Starters, Closers, Harmless, ClosingSteps, Bringers, Setters
  <1>2. CASE nativeEnabled
    <2>1. Continue(<<>>)
      BY <1>2 DEF InitNative, Do
    <2> QED
      BY <1>0, <1>1, <2>1, QuietSession
  <1>3. CASE ~nativeEnabled
    <2> DEFINE steps == <<StepWith("init_backend", Argument)>>
    <2>1. Argument \in Options
      BY <1>0 DEF StepRecord
    <2>2. /\ steps \in Seq(StepRecord) /\ steps # <<>> /\ Len(steps) = 1
          /\ 1 .. Len(steps) = {1} /\ steps[1].do = "init_backend"
      BY <2>1, StepTypes DEF StepName, StepWith
    <2>3. Continue(steps)
      BY <1>3 DEF InitNative, Do
    <2> HIDE DEF steps
    <2>4. Shape(steps, 1)
      <3>1. \A p \in 1 .. Len(steps) : p = 1 /\ ~(p < 1)
        BY <2>2
      <3>2. ~nativeEnabled' /\ agenda[1].do # "cs_callback"
        BY <1>0, <1>3
      <3> QED
        BY <1>0, <1>1, <2>2, <3>1, <3>2 DEF Shape
    <2>5. Advances(steps, 1)
      <3>1. steps[1].do \notin {"close_backend", "add_logger"}
        BY <2>2
      <3>2. agenda[1].do # "remove_logger"
        BY <1>0
      <3> QED
        BY <1>0, <1>1, <2>2, <3>1, <3>2, Quiet
    <2> QED
      BY <1>0, <2>2, <2>3, <2>4, <2>5, PushSession
  <1> QED
    BY <1>2, <1>3

LEMMA SetOptionsSession ==
    ASSUME LayersInv, SessionInv, SetOptions PROVE SessionInv'
  <1>0. /\ TypeOK /\ AtStep("set_options") /\ "set_options" \in StepName /\ Continue(<<>>)
        /\ agenda # <<>> /\ agenda[1].do = "set_options" /\ 1 \in Positions
        /\ currentOptions' = agenda[1].with
        /\ UNCHANGED <<nativeEnabled, loggerAdded, hubEnabled, nativeSession, closing, registered>>
    <2>1. /\ TypeOK /\ AtStep("set_options") /\ "set_options" \in StepName /\ Continue(<<>>)
          /\ agenda # <<>> /\ agenda[1].do = "set_options" /\ 1 \in Positions
          /\ Argument = agenda[1].with
      BY DEF LayersInv, TypeOK, SetOptions, Do, AtStep, StepName, Argument, Positions
    <2> QED
      BY <2>1 DEF SetOptions, nativeVars, bridgeVars, flags
  <1>1. currentOptions' # "null"
    BY <1>0 DEF LayersInv, StepsInOrder
  <1>2. /\ agenda[1].do \notin Starters \cup Closers
        /\ ~Reentrant => /\ loggerAdded => nativeEnabled
                         /\ hubEnabled /\ nativeSession => nativeEnabled
    BY <1>0 DEF SessionInv, BackendState, Starters, Closers
  <1>3. Advances(<<>>, 1)
    BY <1>0, <1>1, <1>2 DEF Advances
  <1> QED
    BY <1>0, <1>3, PopSession

LEMMA InitHubSession ==
    ASSUME LayersInv, SessionInv, NEW outcome \in {"enabled", "disabled", "throws"}, InitHub(outcome)
    PROVE  SessionInv'
  <1>0. /\ TypeOK /\ AtStep("init_hub") /\ "init_hub" \in StepName
        /\ agenda # <<>> /\ agenda[1].do = "init_hub" /\ 1 <= Len(agenda) /\ ~(1 = 0)
        /\ UNCHANGED <<nativeEnabled, loggerAdded, currentOptions, closing, registered>>
    BY DEF LayersInv, TypeOK, InitHub, Do, AtStep, StepName, nativeVars, bridgeVars, flags
  <1>1. /\ agenda[1].do \notin Closers \cup Bringers \cup Harmless
        /\ agenda[1].do \notin {"remove_logger", "set_options", "cs_callback"}
        /\ ~Reentrant => /\ loggerAdded => nativeEnabled
                         /\ hubEnabled /\ nativeSession => nativeEnabled
    BY <1>0 DEF SessionInv, BackendState, Closers, Bringers, Setters, Harmless, ClosingSteps
  <1>2. CASE outcome = "throws"
    <2>1. Continue(<<>>) /\ UNCHANGED <<hubEnabled, nativeSession>>
      BY <1>2 DEF InitHub, Do
    <2> QED
      BY <1>0, <1>1, <2>1, QuietSession
  <1>3. CASE outcome # "throws"
    <2> DEFINE steps == <<Step("install_handler")>>
    <2>1. /\ steps \in Seq(StepRecord) /\ steps # <<>> /\ Len(steps) = 1
          /\ 1 .. Len(steps) = {1} /\ steps[1].do = "install_handler"
      BY StepTypes DEF StepName, Step
    <2>2. Continue(steps) /\ nativeSession' = nativeEnabled
      BY <1>3 DEF InitHub, Do
    <2> HIDE DEF steps
    <2>3. Shape(steps, 1)
      <3>1. \A p \in 1 .. Len(steps) :
                /\ steps[p].do \notin {"clear_options", "close_native", "notify_close", "end_init", "init_backend"}
                /\ steps[p].do \in Starters
        BY <2>1 DEF Starters
      <3> QED
        BY <1>0, <1>1, <3>1 DEF Shape
    <2>4. Advances(steps, 1)
      BY <1>0, <1>1, <2>1, <2>2 DEF Advances
    <2> QED
      BY <1>0, <2>1, <2>2, <2>3, <2>4, PushSession
  <1> QED
    BY <1>2, <1>3

LEMMA CloseManagedSdkSession ==
    ASSUME LayersInv, SessionInv, CloseManagedSdk PROVE SessionInv'
  <1> DEFINE steps == CloseDotnetSdk \o <<Step("close_native"), Step("end_close")>>
  <1>0. /\ TypeOK /\ UserCode /\ agenda' = steps \o agenda
        /\ UNCHANGED <<nativeEnabled, loggerAdded, hubEnabled, currentOptions, nativeSession, registered>>
    BY DEF LayersInv, CloseManagedSdk, Call, nativeVars, bridgeVars, hubVars
  <1>1. /\ steps \in Seq(StepRecord) /\ steps # <<>>
        /\ Len(steps) = 5 /\ 1 .. Len(steps) = {1, 2, 3, 4, 5}
        /\ steps[1].do = "dispose_handler" /\ steps[2].do = "close_hub"
        /\ steps[3].do = "clear_options" /\ steps[4].do = "close_native"
        /\ steps[5].do = "end_close"
    BY CloseManagedSteps
  <1> HIDE DEF steps
  <1>2. /\ agenda # <<>> => agenda[1].do \in Callbacks
        /\ 0 <= Len(agenda) /\ ~(0 = 1)
    BY <1>0 DEF UserCode, TypeOK
  <1>3. Shape(steps, 0)
    <2>1. \A p \in 1 .. Len(steps) :
              /\ steps[p].do \notin {"notify_close", "end_init", "init_backend"}
              /\ steps[p].do \in {"clear_options", "close_native"} => p < 5
              /\ steps[p].do \in Harmless
      BY <1>1 DEF Harmless, ClosingSteps
    <2>2. 5 \in 1 .. Len(steps) /\ steps[5].do = "end_close"
      BY <1>1
    <2> QED
      BY <1>2, <2>1, <2>2 DEF Shape
  <1>4. ~Reentrant => /\ loggerAdded => nativeEnabled
                      /\ hubEnabled /\ nativeSession => nativeEnabled
    BY DEF SessionInv, BackendState
  <1>5. StillPending(Closers, steps, 0)
    <2>1. 4 \in 1 .. Len(steps) /\ steps[4].do \in Closers
      BY <1>1 DEF Closers
    <2> QED
      BY <2>1 DEF StillPending
  <1>6. steps[1].do \notin {"close_backend", "add_logger"}
    BY <1>1
  <1>7. Advances(steps, 0)
    BY <1>0, <1>1, <1>2, <1>4, <1>5, <1>6 DEF Advances
  <1> QED
    BY <1>0, <1>1, <1>2, <1>3, <1>7, PushSession

LEMMA ClearOptionsSession ==
    ASSUME LayersInv, SessionInv, ClearOptions PROVE SessionInv'
  <1>0. /\ TypeOK /\ AtStep("clear_options") /\ "clear_options" \in StepName /\ Continue(<<>>)
        /\ agenda # <<>> /\ agenda[1].do = "clear_options" /\ 1 \in Positions /\ ~(1 = 0)
        /\ UNCHANGED <<nativeEnabled, loggerAdded, hubEnabled, nativeSession, closing, registered>>
    BY DEF LayersInv, TypeOK, ClearOptions, Do, AtStep, StepName, Positions, nativeVars, bridgeVars, flags
  <1>1. /\ agenda[1].do \notin Starters \cup Closers
        /\ ~Reentrant => /\ loggerAdded => nativeEnabled
                         /\ hubEnabled /\ nativeSession => nativeEnabled
    BY <1>0 DEF SessionInv, BackendState, Starters, Closers
  <1>2. closing
    <2>1. PICK q \in Positions : agenda[q].do = "end_close"
      BY <1>0 DEF SessionInv, ClosesPaired, Leads
    <2>2. q \in Pending({"end_close"})
      BY <1>0, <2>1 DEF Pending, Positions, TypeOK
    <2> QED
      BY <2>2 DEF LayersInv, FlagsReleased, HeldOnce
  <1>3. nativeEnabled => StillPending(Bringers, <<>>, 1)
    <2> SUFFICES ASSUME nativeEnabled PROVE Pending(Closers) # {} /\ Closers \in SUBSET Bringers
      BY <1>1 DEF StillPending
    <2> QED
      BY <1>2 DEF SessionInv, ClosesFinish, Bringers
  <1>4. Advances(<<>>, 1)
    BY <1>0, <1>1, <1>3 DEF Advances
  <1> QED
    BY <1>0, <1>4, PopSession

THEOREM SessionInvNext == LayersInv /\ SessionInv /\ [Next]_vars => SessionInv'
  <1> SUFFICES ASSUME LayersInv, SessionInv, [Next]_vars PROVE SessionInv'
    OBVIOUS
  <1>1. CASE NativeStep
    <2>1. ASSUME NEW withCallback \in BOOLEAN, InitNativeSdk(withCallback) PROVE SessionInv'
      BY <2>1, InitNativeSdkSession
    <2>2. ASSUME NEW ok \in BOOLEAN, InitBackend(ok) PROVE SessionInv'
      BY <2>2, InitBackendSession
    <2>3. ASSUME NEW loggerOption \in BOOLEAN, AddLogger(loggerOption) PROVE SessionInv'
      BY <2>3, AddLoggerSession
    <2> QED
      BY <1>1, <2>1, <2>2, <2>3, QuietSteps, NotifyInitSession, CloseNativeSdkSession,
         NotifyCloseSession, CloseBackendSession, ShutdownSession
         DEF NativeStep
  <1>2. CASE ManagedStep
    <2>1. ASSUME NEW o \in ManagedOptions, ReturnFromCsCallback(o) PROVE SessionInv'
      BY <2>1, ReturnFromCsCallbackSession
    <2>2. ASSUME NEW outcome \in {"enabled", "disabled", "throws"}, InitHub(outcome) PROVE SessionInv'
      BY <2>2, InitHubSession
    <2> QED
      BY <1>2, <2>1, <2>2, QuietSteps, LoadAssemblySession, InitManagedSdkSession,
         InitNativeSession, SetOptionsSession, CloseManagedSdkSession, CloseNativeSession,
         ClearOptionsSession
         DEF ManagedStep
  <1>3. CASE ProcessNativeEvent
    BY <1>3, SessionStays DEF ProcessNativeEvent, nativeVars, bridgeVars, flags
  <1>4. CASE UNCHANGED vars
    BY <1>4, SessionStays DEF vars, nativeVars, bridgeVars, flags
  <1> QED
    BY <1>1, <1>2, <1>3, <1>4 DEF Next

THEOREM SessionInvariant == Spec => [](LayersInv /\ SessionInv)
  <1>1. Init => LayersInv /\ SessionInv
    BY LayersInit, SessionInvInit
  <1>2. (LayersInv /\ SessionInv) /\ [Next]_vars => (LayersInv /\ SessionInv)'
    BY LayersNext, SessionInvNext
  <1> QED
    BY <1>1, <1>2, PTL DEF Spec

-----------------------------------------------------------------------------
(* Only the end of SentrySdk.Close() releases its flag.                    *)
LEMMA CloseEnds ==
    ASSUME TypeOK, [Next]_vars, closing, ~closing'
    PROVE  agenda # <<>> /\ agenda[1].do = "end_close" /\
           UNCHANGED <<nativeEnabled, hubEnabled, currentOptions>>
  <1>1. CASE NativeStep
    BY <1>1 DEF NativeStep, InitNativeSdk, ReturnFromGdCallback, InitBackend, AddLogger, NotifyInit,
       CloseNativeSdk, NotifyClose, ClearHooks, RemoveLogger, CloseBackend, Shutdown, ReleaseBindings,
       flags
  <1>2. CASE ManagedStep
    <2>1. EndClose
      BY <1>2 DEF ManagedStep, LoadAssembly, InitManagedSdk, ReturnFromCsCallback, ThrowFromCsCallback,
         InitNative, SetOptions, InitHub, InstallHandler, EndInit, CloseManagedSdk, CloseNative,
         DisposeHandler, CloseHub, ClearOptions, flags
    <2> QED
      BY <2>1 DEF EndClose, Do, AtStep, TypeOK, nativeVars, hubVars
  <1>3. CASE ProcessNativeEvent \/ UNCHANGED vars
    BY <1>3 DEF ProcessNativeEvent, vars, flags
  <1> QED
    BY <1>1, <1>2, <1>3 DEF Next

(* When SentrySdk.Close() ends, both layers are down: for every value of   *)
(* the constants, so whatever callbacks called or threw meanwhile, none of *)
(* its steps has been lost to a re-entry flag.  The only exception is a    *)
(* Close() that the native close asked for, which has that close still to  *)
(* finish.                                                                 *)
THEOREM ClosesCloseBoth == Spec => CloseClosesBoth
  <1>1. LayersInv /\ SessionInv /\ [Next]_vars =>
            ((closing /\ ~closing' /\ Pending({"close_backend"}) = {})
              => ~nativeEnabled /\ ~hubEnabled /\ currentOptions = "null")
    <2> SUFFICES ASSUME LayersInv, SessionInv, [Next]_vars, closing, ~closing',
                        Pending({"close_backend"}) = {}
                 PROVE  ~nativeEnabled /\ ~hubEnabled /\ currentOptions = "null"
      OBVIOUS
    <2>0. TypeOK /\ agenda \in Seq(StepRecord)
      BY DEF LayersInv, TypeOK
    <2>1. agenda # <<>> /\ agenda[1].do = "end_close" /\ 1 \in Positions
      BY <2>0, CloseEnds DEF Positions
    <2>2. currentOptions = "null" /\ ~hubEnabled
      BY <2>1 DEF LayersInv, ClosingState, HubState, Now
    <2>3. ASSUME nativeEnabled PROVE FALSE
      <3>1. PICK p \in Positions : agenda[p].do \in Closers
        BY <2>0, <2>3 DEF SessionInv, ClosesFinish, Pending, Positions
      <3>2. agenda[p].do = "close_native"
        BY <2>0, <3>1 DEF Closers, Pending, Positions
      <3>3. PICK q \in Positions : q > p /\ agenda[q].do = "end_close"
        BY <3>2 DEF SessionInv, ClosesPaired, Leads
      <3>4. q # 1
        BY <3>3 DEF Positions
      <3>5. q \in Pending({"end_close"}) /\ 1 \in Pending({"end_close"})
        BY <2>0, <2>1, <3>3 DEF Pending, Positions
      <3> QED
        BY <3>4, <3>5 DEF LayersInv, FlagsReleased, HeldOnce
    <2> QED
      BY <2>2, <2>3
  <1> QED
    BY <1>1, SessionInvariant, PTL DEF Spec, CloseClosesBoth

(* The layers follow each other up and down: unless an Init() throws, an   *)
(* enabled native layer has brought the managed one up, whichever of the   *)
(* two was asked first; and unless a GDScript callback calls init(), a     *)
(* managed session does not outlive the native one it began next to, and   *)
(* the logger is registered only while the backend can take its events.    *)
THEOREM LayersFollowEachOther == Spec => []LayersFollow
  <1>1. LayersInv /\ SessionInv => LayersFollow
    <2> SUFFICES ASSUME LayersInv, SessionInv PROVE LayersFollow
      OBVIOUS
    <2>1. ~MayThrow => ManagedFollowsNative
      <3>1. Idle => Pending(Bringers) = {}
        BY DEF Idle, Pending
      <3> QED
        BY <3>1 DEF SessionInv, InitsFinish, ManagedFollowsNative
    <2>2. ~Reentrant => HubClosesWithBackend /\ LoggerFollowsBackend
      BY DEF SessionInv, BackendState, HubClosesWithBackend, LoggerFollowsBackend
    <2> QED
      BY <2>1, <2>2 DEF LayersFollow
  <1> QED
    BY <1>1, SessionInvariant, PTL

-----------------------------------------------------------------------------
(***************************************************************************)
(* The settings.                                                           *)
(***************************************************************************)
(* The settings that a file of a version may have. *)
Present(version) ==
    {S!KeyAt(k, version) : k \in S!NewKeys} \cup (IF version < 1 THEN {"messages_as_breadcrumbs"} ELSE {})

(* A file of this version, whatever it has as its schema_version. *)
ShapedAt(f, version) ==
    /\ f = [k \in S!Keys |-> f[k]]
    /\ \A k \in S!NewKeys \cup S!OldKeys : f[k] = absent \/ (k \in Present(version) /\ f[k] \in S!Values(k))

(* What a setting of such a file means. *)
ValueAt(f, version, k) ==
    IF k = "breadcrumbs" /\ version < 1
    THEN {m \in S!MASK_ALL : IF m = "message"
                           THEN S!Get(f, "messages_as_breadcrumbs", TRUE)
                           ELSE m \in S!Get(f, S!KeyAt(k, version), S!MASK_ALL)}
    ELSE IF f[S!KeyAt(k, version)] = absent THEN S!Defaults[k]
    ELSE IF k = "timeout_ms" /\ version < 2 THEN S!Nearest(f[S!KeyAt(k, version)])
    ELSE f[S!KeyAt(k, version)]

LEMMA NewKeysAre == S!NewKeys = {"logs", "metrics", "timeout_ms", "enabled", "breadcrumbs", "dsn"}
  BY DEF S!NewKeys, S!Defaults

LEMMA OldKeysAre ==
    S!OldKeys = {"experimental_logs", "timeout_sec", "logger_enabled", "logger_breadcrumbs",
               "experimental_metrics", "messages_as_breadcrumbs"}
  BY DEF S!OldKeys, S!Renames

LEMMA OldKeyOf ==
    /\ S!OldKey("logs") = "experimental_logs" /\ S!OldKey("timeout_ms") = "timeout_sec"
    /\ S!OldKey("enabled") = "logger_enabled" /\ S!OldKey("breadcrumbs") = "logger_breadcrumbs"
    /\ S!OldKey("metrics") = "experimental_metrics"
  BY DEF S!OldKey, S!Renames

LEMMA KeysAt ==
    ASSUME NEW version \in Nat
    PROVE  /\ S!KeyAt("logs", version) = IF version < 1 THEN "experimental_logs" ELSE "logs"
           /\ S!KeyAt("timeout_ms", version) = IF version < 2 THEN "timeout_sec" ELSE "timeout_ms"
           /\ S!KeyAt("enabled", version) = IF version < 3 THEN "logger_enabled" ELSE "enabled"
           /\ S!KeyAt("breadcrumbs", version) = IF version < 3 THEN "logger_breadcrumbs" ELSE "breadcrumbs"
           /\ S!KeyAt("metrics", version) = IF version < 4 THEN "experimental_metrics" ELSE "metrics"
           /\ S!KeyAt("dsn", version) = "dsn"
  BY OldKeyOf DEF S!KeyAt, S!Renames

LEMMA DefaultMask == S!Defaults["breadcrumbs"] = S!MASK_ALL
  BY DEF S!Defaults

LEMMA DefaultTimeout == S!Defaults["timeout_ms"] = 5000
  BY DEF S!Defaults

LEMMA DefaultDsn == S!Defaults["dsn"] = ""
  BY DEF S!Defaults

LEMMA DefaultSwitches == \A k \in {"logs", "metrics", "enabled"} : S!Defaults[k] = TRUE
  <1>1. S!Defaults["logs"] = TRUE /\ S!Defaults["metrics"] = TRUE /\ S!Defaults["enabled"] = TRUE
    BY DEF S!Defaults
  <1> QED
    BY <1>1

LEMMA NearestIsRounded == ASSUME NEW us \in Nat PROVE S!Nearest(us) = S!Rounded(us) /\ S!Rounded(us) \in Nat
  <1>1. PICK q \in Nat, r \in 0 .. 999 : us = 1000 * q + r /\ us \div 1000 = q
    OBVIOUS
  <1>2. S!Rounded(us) = IF r < 500 THEN q ELSE q + 1
    BY <1>1 DEF S!Rounded
  <1>3. q \in Int /\ r \in Int /\ us = 1000 * q + r /\ 0 <= r /\ r <= 999
    BY <1>1
  <1>4. (q * 1000 - us \in -499 .. 500) <=> r < 500
    BY <1>3
  <1>5. ((q + 1) * 1000 - us \in -499 .. 500) <=> ~ (r < 500)
    BY <1>3
  <1>6. \A ms \in {q, q + 1} : ms * 1000 - us \in -499 .. 500 <=> ms = S!Rounded(us)
    BY <1>2, <1>3, <1>4, <1>5
  <1>7. S!Rounded(us) \in {q, q + 1} /\ S!Rounded(us) \in Nat
    BY <1>1, <1>2
  <1> DEFINE Near(ms) == ms * 1000 - us \in -499 .. 500
             quotient == us \div 1000
  <1>8. S!Nearest(us) = CHOOSE ms \in {quotient, quotient + 1} : Near(ms)
    BY DEF S!Nearest
  <1>9. \A ms \in {q, q + 1} : Near(ms) <=> ms = S!Rounded(us)
    BY <1>6
  <1>10. quotient = q
    BY <1>1
  <1> HIDE DEF Near, quotient
  <1>11. S!Nearest(us) = CHOOSE ms \in {q, q + 1} : Near(ms)
    BY <1>8, <1>10
  <1>12. Near(S!Nearest(us)) /\ S!Nearest(us) \in {q, q + 1}
    BY <1>7, <1>9, <1>11
  <1> QED
    BY <1>7, <1>9, <1>12

LEMMA FilesAreShaped ==
    ASSUME NEW version \in Nat, NEW f \in S!FilesOf(version)
    PROVE  ShapedAt(f, version) /\ f["schema_version"] = IF version = 0 THEN absent ELSE version
  BY NewKeysAre, OldKeysAre DEF S!FilesOf, ShapedAt, Present, S!Keys


(* What the shape of a file says of each key. *)
LEMMA PresentAt ==
    ASSUME NEW version \in Nat
    PROVE  /\ "logs" \in Present(version) <=> version >= 1
           /\ "experimental_logs" \in Present(version) <=> version < 1
           /\ "timeout_ms" \in Present(version) <=> version >= 2
           /\ "timeout_sec" \in Present(version) <=> version < 2
           /\ "enabled" \in Present(version) <=> version >= 3
           /\ "logger_enabled" \in Present(version) <=> version < 3
           /\ "breadcrumbs" \in Present(version) <=> version >= 3
           /\ "logger_breadcrumbs" \in Present(version) <=> version < 3
           /\ "metrics" \in Present(version) <=> version >= 4
           /\ "experimental_metrics" \in Present(version) <=> version < 4
           /\ "messages_as_breadcrumbs" \in Present(version) <=> version < 1
           /\ "dsn" \in Present(version)
  BY KeysAt, NewKeysAre DEF Present

(* A migration takes a file of a version to one of the next that means the *)
(* same.                                                                   *)
Migrates(f, g, version) ==
    /\ ShapedAt(g, version + 1)
    /\ \A k \in S!NewKeys : ValueAt(g, version + 1, k) = ValueAt(f, version, k)
    /\ g["schema_version"] = f["schema_version"]

LEMMA ToV4Migrates ==
    ASSUME S!SettingsAssumption, NEW f, ShapedAt(f, 3)
    PROVE  Migrates(f, S!To_v4(f), 3)
  <1> DEFINE g == S!To_v4(f)
  <1>1. /\ g = [k \in S!Keys |-> g[k]]
        /\ g["metrics"] = IF f["experimental_metrics"] = absent THEN f["metrics"] ELSE f["experimental_metrics"]
        /\ g["experimental_metrics"] = absent
        /\ \A k \in S!Keys \ {"metrics", "experimental_metrics"} : g[k] = f[k]
    BY NewKeysAre, OldKeysAre DEF ShapedAt, S!To_v4, S!Rename_setting, S!Keys
  <1> HIDE DEF g
  <1>2. ShapedAt(g, 4)
    BY <1>1, PresentAt, NewKeysAre, OldKeysAre DEF ShapedAt, S!Values, S!Keys
  <1>3. ASSUME NEW k \in S!NewKeys PROVE ValueAt(g, 4, k) = ValueAt(f, 3, k)
    BY <1>1, KeysAt, NewKeysAre, OldKeysAre, PresentAt DEF ValueAt, S!Keys, ShapedAt
  <1> QED
    BY <1>1, <1>2, <1>3, NewKeysAre DEF Migrates, g, S!Keys


LEMMA ToV3Migrates ==
    ASSUME S!SettingsAssumption, NEW f, ShapedAt(f, 2)
    PROVE  Migrates(f, S!To_v3(f), 2)
  <1> DEFINE g == S!To_v3(f)
             old(k) == IF k = "enabled" THEN "logger_enabled" ELSE "logger_breadcrumbs"
  <1>1. /\ g = [k \in S!Keys |-> g[k]]
        /\ \A k \in {"enabled", "breadcrumbs"} :
             g[k] = (IF f[old(k)] = absent THEN f[k] ELSE f[old(k)]) /\ g[old(k)] = absent
        /\ \A k \in S!Keys \ {"enabled", "breadcrumbs", "logger_enabled", "logger_breadcrumbs"} :
             g[k] = f[k]
    <2> DEFINE h == S!Rename_setting(f, "logger_enabled", "enabled")
    <2>1. /\ h = [k \in S!Keys |-> h[k]]
          /\ h["enabled"] = (IF f["logger_enabled"] = absent THEN f["enabled"] ELSE f["logger_enabled"])
          /\ h["logger_enabled"] = absent
          /\ \A k \in S!Keys \ {"enabled", "logger_enabled"} : h[k] = f[k]
      BY NewKeysAre, OldKeysAre DEF ShapedAt, S!Rename_setting, S!Keys
    <2> HIDE DEF h
    <2>2. g = S!Rename_setting(h, "logger_breadcrumbs", "breadcrumbs")
      BY DEF S!To_v3, h
    <2> QED
      BY <2>1, <2>2, NewKeysAre, OldKeysAre DEF S!Rename_setting, S!Keys
  <1> HIDE DEF g
  <1>2. ShapedAt(g, 3)
    BY <1>1, PresentAt, NewKeysAre, OldKeysAre DEF ShapedAt, S!Values, S!Keys
  <1>3. ASSUME NEW k \in S!NewKeys PROVE ValueAt(g, 3, k) = ValueAt(f, 2, k)
    BY <1>1, KeysAt, NewKeysAre, OldKeysAre, PresentAt DEF ValueAt, S!Keys, ShapedAt
  <1> QED
    BY <1>1, <1>2, <1>3, NewKeysAre DEF Migrates, g, S!Keys

LEMMA ToV2Migrates ==
    ASSUME S!SettingsAssumption, NEW f, ShapedAt(f, 1)
    PROVE  Migrates(f, S!To_v2(f), 1)
  <1> DEFINE g == S!To_v2(f)
  <1>1. /\ g = [k \in S!Keys |-> g[k]]
        /\ g["timeout_ms"] = IF f["timeout_sec"] = absent THEN f["timeout_ms"]
                             ELSE S!Rounded(f["timeout_sec"])
        /\ g["timeout_sec"] = absent
        /\ \A k \in S!Keys \ {"timeout_ms", "timeout_sec"} : g[k] = f[k]
    BY NewKeysAre, OldKeysAre DEF ShapedAt, S!To_v2, S!App_hang_timeout_to_ms, S!Keys
  <1> HIDE DEF g
  <1>2. f["timeout_sec"] = absent \/ f["timeout_sec"] \in OldTimeouts
    BY OldKeysAre DEF ShapedAt, S!Values
  <1>3. f["timeout_ms"] = absent
    BY PresentAt, NewKeysAre DEF ShapedAt
  <1>4. \A us \in OldTimeouts : S!Nearest(us) = S!Rounded(us) /\ S!Rounded(us) \in Nat
    BY NearestIsRounded DEF S!SettingsAssumption
  <1>5. ShapedAt(g, 2)
    BY <1>1, <1>2, <1>3, PresentAt, NewKeysAre, OldKeysAre DEF ShapedAt, S!Values, S!Keys
  <1>6. ASSUME NEW k \in S!NewKeys PROVE ValueAt(g, 2, k) = ValueAt(f, 1, k)
    <2>1. CASE k = "timeout_ms"
      <3>1. S!KeyAt(k, 1) = "timeout_sec" /\ S!KeyAt(k, 2) = "timeout_ms"
        BY <2>1, KeysAt
      <3>2. g["timeout_ms"] = absent <=> f["timeout_sec"] = absent
        BY <1>1, <1>2, <1>3, <1>4 DEF S!SettingsAssumption
      <3>3. ValueAt(g, 2, k) = IF g["timeout_ms"] = absent THEN S!Defaults[k] ELSE g["timeout_ms"]
        BY <2>1, <3>1 DEF ValueAt
      <3>4. ValueAt(f, 1, k) = IF f["timeout_sec"] = absent THEN S!Defaults[k]
                               ELSE S!Nearest(f["timeout_sec"])
        BY <2>1, <3>1 DEF ValueAt
      <3> QED
        BY <1>1, <1>2, <1>4, <3>2, <3>3, <3>4
    <2>2. CASE k # "timeout_ms"
      BY <1>1, <2>2, KeysAt, NewKeysAre, OldKeysAre DEF ValueAt, S!Keys
    <2> QED
      BY <2>1, <2>2
  <1> QED
    BY <1>1, <1>5, <1>6, NewKeysAre DEF Migrates, g, S!Keys

LEMMA ToV1Migrates ==
    ASSUME S!SettingsAssumption, NEW f, ShapedAt(f, 0)
    PROVE  Migrates(f, S!To_v1(f), 0)
  <1> DEFINE g == S!To_v1(f)
             mask == S!Get(f, "logger_breadcrumbs", S!MASK_ALL)
             newMask == IF S!Get(f, "messages_as_breadcrumbs", TRUE) THEN mask \cup {"message"}
                        ELSE mask \ {"message"}
  <1>1. /\ g = [k \in S!Keys |-> g[k]]
        /\ g["logs"] = IF f["experimental_logs"] = absent THEN f["logs"] ELSE f["experimental_logs"]
        /\ g["experimental_logs"] = absent
        /\ g["logger_breadcrumbs"] = newMask
        /\ g["messages_as_breadcrumbs"] = absent
        /\ \A k \in S!Keys \ {"logs", "experimental_logs", "logger_breadcrumbs",
                            "messages_as_breadcrumbs"} : g[k] = f[k]
    <2> DEFINE h == S!Rename_setting(f, "experimental_logs", "logs")
    <2>1. /\ h = [k \in S!Keys |-> h[k]]
          /\ h["logs"] = (IF f["experimental_logs"] = absent THEN f["logs"] ELSE f["experimental_logs"])
          /\ h["experimental_logs"] = absent
          /\ \A k \in S!Keys \ {"logs", "experimental_logs"} : h[k] = f[k]
      BY NewKeysAre, OldKeysAre DEF ShapedAt, S!Rename_setting, S!Keys
    <2> HIDE DEF h
    <2>2. g = S!Messages_as_breadcrumbs(h)
      BY DEF S!To_v1, h
    <2>3. /\ S!Get(h, "logger_breadcrumbs", S!MASK_ALL) = mask
          /\ S!Get(h, "messages_as_breadcrumbs", TRUE) = S!Get(f, "messages_as_breadcrumbs", TRUE)
      BY <2>1, OldKeysAre DEF S!Get, S!Keys
    <2> HIDE DEF mask, g
    <2> QED
      BY <2>1, <2>2, <2>3, NewKeysAre, OldKeysAre DEF S!Messages_as_breadcrumbs, S!Keys
  <1>2. mask \in SUBSET S!MASK_ALL
    BY OldKeysAre DEF ShapedAt, S!Values, S!Get, S!MASK_ALL
  <1>3. newMask \in SUBSET S!MASK_ALL
    BY <1>2 DEF S!MASK_ALL
  <1>4. newMask = {m \in S!MASK_ALL : IF m = "message" THEN S!Get(f, "messages_as_breadcrumbs", TRUE)
                                    ELSE m \in mask}
    BY <1>2 DEF S!MASK_ALL
  <1>5. newMask # absent
    BY <1>3 DEF S!SettingsAssumption, S!MASK_ALL
  <1> HIDE DEF g, newMask
  <1>6. ShapedAt(g, 1)
    BY <1>1, <1>3, PresentAt, NewKeysAre, OldKeysAre DEF ShapedAt, S!Values, S!Keys
  <1>7. ASSUME NEW k \in S!NewKeys PROVE ValueAt(g, 1, k) = ValueAt(f, 0, k)
    <2>1. CASE k = "breadcrumbs"
      <3>1. S!KeyAt(k, 0) = "logger_breadcrumbs" /\ S!KeyAt(k, 1) = "logger_breadcrumbs"
        BY <2>1, KeysAt
      <3>2. ValueAt(g, 1, k) = newMask
        BY <1>1, <1>5, <2>1, <3>1 DEF ValueAt
      <3>3. ValueAt(f, 0, k) = newMask
        <4>1. ValueAt(f, 0, k) = {m \in S!MASK_ALL : IF m = "message"
                                                  THEN S!Get(f, "messages_as_breadcrumbs", TRUE)
                                                  ELSE m \in S!Get(f, S!KeyAt(k, 0), S!MASK_ALL)}
          BY <2>1 DEF ValueAt
        <4>2. S!Get(f, S!KeyAt(k, 0), S!MASK_ALL) = mask
          BY <3>1
        <4> HIDE DEF mask
        <4> QED
          BY <1>4, <4>1, <4>2
      <3> QED
        BY <3>2, <3>3
    <2>2. CASE k # "breadcrumbs"
      BY <1>1, <2>2, KeysAt, NewKeysAre, OldKeysAre, PresentAt DEF ValueAt, S!Keys, ShapedAt
    <2> QED
      BY <2>1, <2>2
  <1> QED
    BY <1>1, <1>6, <1>7, NewKeysAre DEF Migrates, g, S!Keys


-----------------------------------------------------------------------------
(* A file that version v of the SDK has saved.                             *)
SavedBy(f, version) ==
    /\ ShapedAt(f, version)
    /\ f["schema_version"] = IF version = 0 THEN absent ELSE version

LEMMA FromVersion ==
    ASSUME S!SettingsAssumption, NEW version \in Nat, NEW f, SavedBy(f, version)
    PROVE  S!From_version(f) = version
  BY DEF SavedBy, S!From_version, S!Get, S!SettingsAssumption

LEMMA MeaningIs ==
    ASSUME S!SettingsAssumption, NEW version \in Nat, NEW f, SavedBy(f, version)
    PROVE  S!Meaning(f) = [k \in S!NewKeys |-> ValueAt(f, version, k)]
  <1>1. S!From_version(f) = version
    BY FromVersion
  <1>2. \A k : S!Get(f, S!KeyAt(k, version), absent) = f[S!KeyAt(k, version)]
    BY DEF S!Get
  <1> QED
    BY <1>1, <1>2 DEF S!Meaning, ValueAt

\* From the present schema on, a setting means itself, or its default.
LEMMA ValueNow ==
    ASSUME NEW version \in Nat, version >= 4, NEW f, NEW k \in S!NewKeys
    PROVE  ValueAt(f, version, k) = S!Get(f, k, S!Defaults[k])
  <1>1. S!KeyAt(k, version) = k
    BY KeysAt, NewKeysAre
  <1> QED
    BY <1>1 DEF ValueAt, S!Get

\* A file that means the same under the present schema.
Current(g, f, version) ==
    /\ g = [k \in S!Keys |-> g[k]]
    /\ \A k \in S!NewKeys : g[k] = absent \/ g[k] \in S!Values(k)
    /\ \A k \in S!OldKeys : g[k] = absent
    /\ g["schema_version"] \in Nat /\ g["schema_version"] >= 4 /\ g["schema_version"] >= version
    /\ \A k \in S!NewKeys : S!Get(g, k, S!Defaults[k]) = ValueAt(f, version, k)

LEMMA ShapedNow ==
    ASSUME NEW version \in Nat, version >= 4, NEW f, ShapedAt(f, version)
    PROVE  /\ f = [k \in S!Keys |-> f[k]]
           /\ \A k \in S!NewKeys : f[k] = absent \/ f[k] \in S!Values(k)
           /\ \A k \in S!OldKeys : f[k] = absent
  BY PresentAt, NewKeysAre, OldKeysAre DEF ShapedAt

LEMMA MigratedIsCurrent ==
    ASSUME S!SettingsAssumption, NEW version \in Nat, NEW f, SavedBy(f, version)
    PROVE  Current(S!Migrated(f), f, version)
  <1> DEFINE g == S!Migrated(f)
             v1 == IF version < 1 THEN S!To_v1(f) ELSE f
             v2 == IF version < 2 THEN S!To_v2(v1) ELSE v1
             v3 == IF version < 3 THEN S!To_v3(v2) ELSE v2
             v4 == IF version < 4 THEN S!To_v4(v3) ELSE v3
  <1>1. S!From_version(f) = version
    BY FromVersion
  <1>2. "schema_version" \in S!Keys /\ "schema_version" \notin S!NewKeys \cup S!OldKeys
    BY NewKeysAre, OldKeysAre DEF S!Keys
  <1>3. CASE S!Is_fresh_install(f)
    <2>2. \A k \in S!Keys : f[k] = absent
      BY <1>3 DEF S!Is_fresh_install
    <2>3. version = 0
      BY <1>2, <2>2 DEF SavedBy, S!SettingsAssumption
    <2>1. g = [f EXCEPT !["schema_version"] = 4]
      <3>1. ~ (S!From_version(f) > S!SCHEMA_VERSION)
        BY <1>1, <2>3 DEF S!SCHEMA_VERSION
      <3> QED
        BY <1>3, <3>1 DEF S!Migrated, S!SCHEMA_VERSION
    <2>4. /\ g = [k \in S!Keys |-> g[k]] /\ g["schema_version"] = 4
          /\ \A k \in S!Keys \ {"schema_version"} : g[k] = absent
      BY <1>2, <2>1, <2>2 DEF SavedBy, ShapedAt
    <2> HIDE DEF g
    <2>5. ASSUME NEW k \in S!NewKeys PROVE S!Get(g, k, S!Defaults[k]) = ValueAt(f, version, k)
      <3>1. S!Get(g, k, S!Defaults[k]) = S!Defaults[k]
        BY <1>2, <2>4 DEF S!Get, S!Keys
      <3>2. S!KeyAt(k, 0) \in S!Keys /\ f[S!KeyAt(k, 0)] = absent /\ f["messages_as_breadcrumbs"] = absent
        BY <2>2, KeysAt, NewKeysAre, OldKeysAre DEF S!Keys
      <3>3. CASE k = "breadcrumbs"
        <4>1. ValueAt(f, 0, k) = {m \in S!MASK_ALL : IF m = "message" THEN TRUE ELSE m \in S!MASK_ALL}
          BY <3>2, <3>3 DEF ValueAt, S!Get
        <4>2. ValueAt(f, 0, k) = S!MASK_ALL
          BY <4>1 DEF S!MASK_ALL
        <4>3. S!Defaults["breadcrumbs"] = S!MASK_ALL
          BY DefaultMask, Zenon
        <4>4. S!Defaults[k] = S!MASK_ALL
          BY <3>3, <4>3, Zenon
        <4> QED
          BY <2>3, <3>1, <4>2, <4>4, Zenon
      <3>4. CASE k # "breadcrumbs"
        BY <2>3, <3>1, <3>2, <3>4 DEF ValueAt
      <3> QED
        BY <3>3, <3>4
    <2> QED
      BY <1>2, <2>3, <2>4, <2>5 DEF Current, S!Keys, g
  <1>4. CASE ~ S!Is_fresh_install(f) /\ version > 4
    <2>1. g = f
      BY <1>1, <1>4 DEF S!Migrated, S!SCHEMA_VERSION
    <2>2. f["schema_version"] = version
      BY <1>4 DEF SavedBy
    <2> HIDE DEF g
    <2> QED
      BY <1>4, <2>1, <2>2, ShapedNow, ValueNow DEF Current, SavedBy, g
  <1>5. CASE ~ S!Is_fresh_install(f) /\ version <= 4
    <2>1. g = [v4 EXCEPT !["schema_version"] = IF version < 4 THEN 4 ELSE @]
      BY <1>1, <1>5 DEF S!Migrated, S!SCHEMA_VERSION
    <2> DEFINE Stands(h, n) == /\ ShapedAt(h, n)
                               /\ \A k \in S!NewKeys : ValueAt(h, n, k) = ValueAt(f, version, k)
                               /\ h["schema_version"] = f["schema_version"]
    <2>2. ASSUME NEW h, NEW n \in Nat, NEW m, Stands(h, n), Migrates(h, m, n)
          PROVE  Stands(m, n + 1)
      BY <2>2 DEF Migrates
    <2>3. ShapedAt(f, version)
      BY DEF SavedBy
    <2>4. version \in 0 .. 4 /\ Stands(f, version)
      BY <1>5, <2>3
    <2>5. version < 1 => Stands(v1, 1)
      BY <2>2, <2>4, ToV1Migrates
    <2>6. version < 2 => Stands(v2, 2)
      <3>1. version < 2 => Stands(v1, 1)
        BY <2>4, <2>5
      <3> HIDE DEF v1
      <3> QED
        BY <2>2, <3>1, ToV2Migrates
    <2>7. version < 3 => Stands(v3, 3)
      <3>1. version < 3 => Stands(v2, 2)
        BY <2>4, <2>6
      <3> HIDE DEF v2
      <3> QED
        BY <2>2, <3>1, ToV3Migrates
    <2>8. Stands(v4, 4)
      <3>1. version < 4 => Stands(v3, 3)
        BY <2>4, <2>7
      <3>2. CASE version < 4
        <4> HIDE DEF v3
        <4> QED
          BY <2>2, <3>1, <3>2, ToV4Migrates
      <3>3. CASE version = 4
        BY <2>4, <3>3
      <3> QED
        BY <2>4, <3>2, <3>3
    <2> HIDE DEF v4, g
    <2>9. /\ v4 = [k \in S!Keys |-> v4[k]]
          /\ \A k \in S!NewKeys : v4[k] = absent \/ v4[k] \in S!Values(k)
          /\ \A k \in S!OldKeys : v4[k] = absent
      BY <2>8, ShapedNow
    <2>10. \A k \in S!NewKeys : S!Get(v4, k, S!Defaults[k]) = ValueAt(f, version, k)
      BY <2>8, ValueNow
    <2>11. g = [k \in S!Keys |-> g[k]] /\ \A k \in S!NewKeys \cup S!OldKeys : g[k] = v4[k]
      BY <1>2, <2>1, <2>9 DEF S!Keys
    <2>12. g["schema_version"] = 4
      <3>1. g["schema_version"] = IF version < 4 THEN 4 ELSE f["schema_version"]
        BY <1>2, <2>1, <2>8, <2>9
      <3>2. version = 4 => f["schema_version"] = 4
        BY DEF SavedBy
      <3> QED
        BY <1>5, <3>1, <3>2
    <2> QED
      BY <1>5, <2>9, <2>10, <2>11, <2>12 DEF Current, S!Get, g
  <1> QED
    BY <1>3, <1>4, <1>5

-----------------------------------------------------------------------------
(***************************************************************************)
(* The settings in memory, and their file.                                 *)
(***************************************************************************)
\* The settings of a process, from a file of this version or saved to it
InMemory(settings) ==
    /\ settings = [k \in S!Keys |-> settings[k]]
    /\ \A k \in S!NewKeys : settings[k] \in S!Values(k) \cup {S!Defaults[k]}
    /\ \A k \in S!OldKeys : settings[k] = absent
    /\ settings["schema_version"] \in Nat /\ settings["schema_version"] >= 4

LEMMA ValuesAre ==
    /\ S!Values("timeout_ms") = Timeouts \cup {S!Rounded(us) : us \in OldTimeouts}
    /\ S!Values("breadcrumbs") = SUBSET S!MASK_ALL
    /\ S!Values("dsn") = Dsns
    /\ \A k \in {"logs", "metrics", "enabled"} : S!Values(k) = BOOLEAN
  BY DEF S!Values

LEMMA TimeoutsAre == ASSUME S!SettingsAssumption PROVE S!Values("timeout_ms") \subseteq Nat
  <1>1. S!Values("timeout_ms") = Timeouts \cup {S!Rounded(us) : us \in OldTimeouts}
    BY DEF S!Values
  <1>2. Timeouts \subseteq Nat /\ OldTimeouts \subseteq Nat
    BY DEF S!SettingsAssumption
  <1> QED
    BY <1>1, <1>2, NearestIsRounded

LEMMA ValuesPresent ==
    ASSUME S!SettingsAssumption
    PROVE  \A k \in S!NewKeys : S!Defaults[k] # absent /\ absent \notin S!Values(k)
  <1>1. S!Defaults["timeout_ms"] # absent /\ absent \notin S!Values("timeout_ms")
    <2>1. absent \notin Nat
      BY Zenon DEF S!SettingsAssumption
    <2>2. S!Defaults["timeout_ms"] \in Nat
      BY DefaultTimeout
    <2> QED
      BY <2>1, <2>2, TimeoutsAre, Zenon
  <1>2. S!Defaults["breadcrumbs"] # absent /\ absent \notin S!Values("breadcrumbs")
    <2>1. S!Values("breadcrumbs") = SUBSET S!MASK_ALL /\ S!Defaults["breadcrumbs"] \in SUBSET S!MASK_ALL
      BY ValuesAre, DefaultMask, Zenon
    <2>2. \A mask \in SUBSET S!MASK_ALL : absent # mask
      BY Zenon DEF S!SettingsAssumption, S!MASK_ALL
    <2> QED
      BY <2>1, <2>2, Zenon
  <1>3. S!Defaults["dsn"] # absent /\ absent \notin S!Values("dsn")
    BY ValuesAre, DefaultDsn DEF S!SettingsAssumption
  <1>4. \A k \in {"logs", "metrics", "enabled"} : S!Defaults[k] # absent /\ absent \notin S!Values(k)
    <2>1. \A k \in {"logs", "metrics", "enabled"} : S!Values(k) = BOOLEAN
      BY ValuesAre, Zenon
    <2>2. absent \notin BOOLEAN /\ TRUE \in BOOLEAN
      BY Zenon DEF S!SettingsAssumption
    <2> QED
      BY <2>1, <2>2, DefaultSwitches, Zenon
  <1> QED
    BY <1>1, <1>2, <1>3, <1>4, NewKeysAre, Zenon

LEMMA ProcessHasIts ==
    ASSUME S!SettingsAssumption, NEW version \in Nat, NEW f, SavedBy(f, version)
    PROVE  LET settings == S!Define_project_settings(S!Migrated(f)) IN
           /\ InMemory(settings)
           /\ settings["schema_version"] >= version
           /\ \A k \in S!NewKeys : settings[k] = S!Meaning(f)[k]
  <1> DEFINE g == S!Migrated(f)
             settings == S!Define_project_settings(g)
  <1>1. Current(g, f, version)
    BY MigratedIsCurrent
  <1>2. S!Meaning(f) = [k \in S!NewKeys |-> ValueAt(f, version, k)]
    BY MeaningIs
  <1> HIDE DEF g
  <1>3. /\ settings = [k \in S!Keys |-> settings[k]]
        /\ \A k \in S!NewKeys : settings[k] = S!Get(g, k, S!Defaults[k])
        /\ \A k \in S!Keys \ S!NewKeys : settings[k] = g[k]
    BY DEF S!Define_project_settings, S!Keys
  <1> HIDE DEF settings
  <1>4. S!OldKeys \cup {"schema_version"} \subseteq S!Keys \ S!NewKeys
    BY NewKeysAre, OldKeysAre DEF S!Keys
  <1>5. \A k \in S!NewKeys : settings[k] \in S!Values(k) \cup {S!Defaults[k]}
    BY <1>1, <1>3 DEF Current, S!Get
  <1>6. \A k \in S!NewKeys : settings[k] = S!Meaning(f)[k]
    BY <1>1, <1>2, <1>3 DEF Current
  <1>7. InMemory(settings) /\ settings["schema_version"] >= version
    BY <1>1, <1>3, <1>4, <1>5 DEF Current, InMemory
  <1> QED
    BY <1>6, <1>7 DEF settings, g

LEMMA SavedMeansTheSame ==
    ASSUME S!SettingsAssumption, NEW settings, InMemory(settings)
    PROVE  /\ SavedBy(S!Saved(settings), settings["schema_version"])
           /\ S!Meaning(S!Saved(settings)) = [k \in S!NewKeys |-> settings[k]]
  <1> DEFINE f == S!Saved(settings)
             version == settings["schema_version"]
  <1>1. version \in Nat /\ version >= 4
    BY DEF InMemory
  <1>2. /\ f = [k \in S!Keys |-> f[k]]
        /\ \A k \in S!NewKeys : f[k] = IF settings[k] = S!Defaults[k] THEN absent ELSE settings[k]
        /\ \A k \in S!Keys \ S!NewKeys : f[k] = settings[k]
    BY DEF S!Saved, S!Keys
  <1>3. S!OldKeys \cup {"schema_version"} \subseteq S!Keys \ S!NewKeys
    BY NewKeysAre, OldKeysAre DEF S!Keys
  <1> HIDE DEF f, version
  <1>4. S!NewKeys \subseteq Present(version)
    BY <1>1, PresentAt, NewKeysAre
  <1>5. ShapedAt(f, version)
    BY <1>2, <1>3, <1>4 DEF ShapedAt, InMemory
  <1>6. f["schema_version"] = version
    BY <1>2, <1>3 DEF version
  <1>7. SavedBy(f, version)
    BY <1>1, <1>5, <1>6 DEF SavedBy
  <1>8. \A k \in S!NewKeys : ValueAt(f, version, k) = settings[k]
    BY <1>1, <1>2, ValueNow, ValuesPresent DEF S!Get, InMemory
  <1>9. S!Meaning(f) = [k \in S!NewKeys |-> settings[k]]
    BY <1>1, <1>7, <1>8, MeaningIs
  <1> QED
    BY <1>7, <1>9 DEF f, version

-----------------------------------------------------------------------------
(***************************************************************************)
(* The inductive invariant: some version has saved the file, which means   *)
(* what was chosen; a process has its meaning in memory, under a schema    *)
(* that is no earlier, and has loaded its options from there.              *)
(***************************************************************************)
FileInv == (\E version \in Nat : SavedBy(file, version)) /\ chosen = S!Meaning(file)

ProcessInv ==
    /\ process = [mode |-> process.mode, settings |-> process.settings, env |-> process.env,
                  to_save |-> process.to_save]
    /\ InMemory(process.settings)
    /\ process.settings["schema_version"] >= S!From_version(file)
    /\ chosen = [k \in S!NewKeys |-> process.settings[k]]
    /\ ~ altered => options = S!Load_project_settings(process.settings, process.env)

SettingsInv ==
    /\ FileInv
    /\ IF process.mode = "none" THEN options = absent ELSE ProcessInv

LEMMA SavedAgain ==
    ASSUME S!SettingsAssumption, NEW settings, InMemory(settings)
    PROVE  /\ \E version \in Nat : SavedBy(S!Saved(settings), version)
           /\ S!From_version(S!Saved(settings)) = settings["schema_version"]
           /\ S!Meaning(S!Saved(settings)) = [k \in S!NewKeys |-> settings[k]]
  <1>1. settings["schema_version"] \in Nat
    BY DEF InMemory
  <1> QED
    BY <1>1, SavedMeansTheSame, FromVersion

LEMMA SettingsInitInv == ASSUME S!SettingsAssumption, S!Init PROVE SettingsInv
  <1>1. PICK version \in 0 .. S!SCHEMA_VERSION + 1 : file \in S!FilesOf(version)
    BY DEF S!Init
  <1>2. version \in Nat
    BY DEF S!SCHEMA_VERSION
  <1>3. SavedBy(file, version)
    BY <1>1, <1>2, FilesAreShaped DEF SavedBy
  <1> QED
    BY <1>2, <1>3 DEF S!Init, SettingsInv, FileInv, S!NoProcess

LEMMA StartStep == ASSUME S!SettingsAssumption, SettingsInv, S!Start PROVE SettingsInv'
  <1> DEFINE settings == S!Define_project_settings(S!Migrated(file))
  <1>1. PICK mode \in {"editor", "game"}, env \in {"", EnvDsn} :
          /\ process' = [mode |-> mode, settings |-> settings, env |-> env,
                         to_save |-> mode = "editor" /\ S!From_version(file) < S!SCHEMA_VERSION]
          /\ options' = S!Load_project_settings(settings, env)
          /\ altered' = FALSE
          /\ UNCHANGED <<file, chosen>>
    BY DEF S!Start
  <1>2. PICK version \in Nat : SavedBy(file, version)
    BY DEF SettingsInv, FileInv
  <1>3. S!From_version(file) = version
    BY <1>2, FromVersion
  <1>4. /\ InMemory(settings) /\ settings["schema_version"] >= version
        /\ \A k \in S!NewKeys : settings[k] = S!Meaning(file)[k]
    BY <1>2, ProcessHasIts
  <1>5. S!Meaning(file) = [k \in S!NewKeys |-> settings[k]]
    BY <1>2, <1>4, MeaningIs
  <1>6. S!From_version(file)' = version
    BY <1>1, <1>3 DEF S!From_version, S!Get
  <1>7. FileInv'
    BY <1>1 DEF SettingsInv, FileInv
  <1> HIDE DEF settings
  <1>8. /\ process'.mode = mode /\ process'.settings = settings /\ process'.env = env
        /\ process' = [mode |-> process'.mode, settings |-> process'.settings, env |-> process'.env,
                       to_save |-> process'.to_save]
    BY <1>1
  <1>9. chosen' = [k \in S!NewKeys |-> settings[k]]
    BY <1>1, <1>5 DEF SettingsInv, FileInv
  <1>10. ProcessInv'
    BY <1>1, <1>4, <1>6, <1>8, <1>9 DEF ProcessInv
  <1> QED
    BY <1>1, <1>7, <1>8, <1>10 DEF SettingsInv

LEMMA FileSaved ==
    ASSUME S!SettingsAssumption, ProcessInv, file' = S!Saved(process.settings),
           UNCHANGED <<options, altered, chosen>>,
           process'.mode = process.mode, process'.settings = process.settings, process'.env = process.env,
           process' = [mode |-> process'.mode, settings |-> process'.settings, env |-> process'.env,
                       to_save |-> process'.to_save]
    PROVE  FileInv' /\ ProcessInv'
  <1> DEFINE settings == process.settings
             f == S!Saved(settings)
  <1>1. InMemory(settings)
    BY DEF ProcessInv
  <1>2. /\ \E version \in Nat : SavedBy(f, version)
        /\ S!From_version(f) = settings["schema_version"]
        /\ S!Meaning(f) = [k \in S!NewKeys |-> settings[k]]
    BY <1>1, SavedAgain
  <1>3. S!From_version(file)' = S!From_version(f) /\ S!Meaning(file)' = S!Meaning(f)
    BY DEF S!From_version, S!Get, S!Meaning
  <1>4. FileInv'
    BY <1>2, <1>3 DEF FileInv, ProcessInv
  <1>5. settings["schema_version"] \in Nat
    BY <1>1 DEF InMemory
  <1>6. ProcessInv'
    BY <1>1, <1>2, <1>3, <1>5 DEF ProcessInv
  <1> QED
    BY <1>4, <1>6

LEMMA SaveStep == ASSUME S!SettingsAssumption, SettingsInv, S!Save PROVE SettingsInv'
  <1>1. ProcessInv /\ process.mode # "none"
    BY DEF S!Save, SettingsInv
  <1>2. /\ process'.mode = process.mode /\ process'.settings = process.settings /\ process'.env = process.env
        /\ process' = [mode |-> process'.mode, settings |-> process'.settings, env |-> process'.env,
                       to_save |-> process'.to_save]
    BY <1>1 DEF S!Save, ProcessInv
  <1>3. FileInv' /\ ProcessInv'
    BY <1>1, <1>2, FileSaved DEF S!Save
  <1> QED
    BY <1>1, <1>2, <1>3 DEF SettingsInv

LEMMA VerifyStep == ASSUME S!SettingsAssumption, SettingsInv, S!Verify_project_settings PROVE SettingsInv'
  <1>1. ProcessInv /\ process.mode # "none"
    BY DEF S!Verify_project_settings, SettingsInv
  <1>2. /\ process'.mode = process.mode /\ process'.settings = process.settings /\ process'.env = process.env
        /\ process' = [mode |-> process'.mode, settings |-> process'.settings, env |-> process'.env,
                       to_save |-> process'.to_save]
    BY <1>1 DEF S!Verify_project_settings, ProcessInv
  <1>3. FileInv' /\ ProcessInv'
    BY <1>1, <1>2, FileSaved DEF S!Verify_project_settings
  <1> QED
    BY <1>1, <1>2, <1>3 DEF SettingsInv

LEMMA EditStep == ASSUME S!SettingsAssumption, SettingsInv, S!Edit PROVE SettingsInv'
  <1>0. PICK k \in S!NewKeys : \E v \in S!Values(k) :
          /\ process.mode = "editor"
          /\ process' = [process EXCEPT !.settings[k] = v]
          /\ file' = S!Saved(process'.settings)
          /\ chosen' = [chosen EXCEPT ![k] = v] /\ altered' = TRUE
          /\ UNCHANGED options
    BY DEF S!Edit
  <1>1. PICK v \in S!Values(k) :
          /\ process.mode = "editor"
          /\ process' = [process EXCEPT !.settings[k] = v]
          /\ file' = S!Saved(process'.settings)
          /\ chosen' = [chosen EXCEPT ![k] = v] /\ altered' = TRUE
          /\ UNCHANGED options
    BY <1>0
  <1> DEFINE settings == [process.settings EXCEPT ![k] = v]
             f == S!Saved(settings)
  <1>2. ProcessInv
    BY <1>1 DEF SettingsInv
  <1>3. /\ process' = [mode |-> process'.mode, settings |-> process'.settings, env |-> process'.env,
                       to_save |-> process'.to_save]
        /\ process'.mode = "editor" /\ process'.settings = settings
    BY <1>1, <1>2 DEF ProcessInv
  <1>4. k # "schema_version" /\ k \notin S!OldKeys /\ k \in S!Keys
    BY NewKeysAre, OldKeysAre DEF S!Keys
  <1>5. /\ settings = [n \in S!Keys |-> settings[n]]
        /\ \A n \in S!Keys : settings[n] = IF n = k THEN v ELSE process.settings[n]
    BY <1>2 DEF ProcessInv, InMemory
  <1> HIDE DEF settings
  <1>6. InMemory(settings) /\ settings["schema_version"] = process.settings["schema_version"]
    BY <1>2, <1>4, <1>5 DEF ProcessInv, InMemory, S!Keys
  <1>7. /\ \E version \in Nat : SavedBy(f, version)
        /\ S!From_version(f) = settings["schema_version"]
        /\ S!Meaning(f) = [n \in S!NewKeys |-> settings[n]]
    BY <1>6, SavedAgain
  <1>8. chosen' = [n \in S!NewKeys |-> settings[n]]
    BY <1>1, <1>2, <1>5 DEF ProcessInv, S!Keys
  <1>9. file' = f
    BY <1>1, <1>3
  <1> HIDE DEF f
  <1>10. S!From_version(file)' = S!From_version(f) /\ S!Meaning(file)' = S!Meaning(f)
    BY <1>9 DEF S!From_version, S!Get, S!Meaning
  <1>11. FileInv'
    BY <1>7, <1>8, <1>9, <1>10 DEF FileInv
  <1>12. settings["schema_version"] \in Nat
    BY <1>6 DEF InMemory
  <1>13. process'.settings["schema_version"] >= S!From_version(file)'
    BY <1>3, <1>7, <1>10, <1>12
  <1>14. InMemory(process'.settings) /\ chosen' = [n \in S!NewKeys |-> process'.settings[n]]
    BY <1>3, <1>6, <1>8
  <1>15. altered' = TRUE
    BY <1>1
  <1>16. ProcessInv'
    BY <1>3, <1>13, <1>14, <1>15 DEF ProcessInv
  <1> QED
    BY <1>3, <1>11, <1>16 DEF SettingsInv

LEMMA InitSDKStep == ASSUME SettingsInv, S!InitSDK PROVE SettingsInv'
  <1>1. ProcessInv /\ process.mode # "none" /\ UNCHANGED <<file, process, chosen>>
    BY DEF S!InitSDK, SettingsInv
  <1>2. FileInv'
    BY <1>1 DEF SettingsInv, FileInv, S!Meaning, S!From_version, S!Get
  <1>3. ~ altered' => options' = S!Load_project_settings(process.settings, process.env)
    BY DEF S!InitSDK
  <1>4. ProcessInv'
    BY <1>1, <1>3 DEF ProcessInv, S!From_version, S!Get
  <1> QED
    BY <1>1, <1>2, <1>4 DEF SettingsInv

LEMMA StopStep == ASSUME SettingsInv, S!Stop PROVE SettingsInv'
  BY DEF SettingsInv, S!Stop, FileInv, S!Meaning, S!From_version, S!Get, S!NoProcess

LEMMA SettingsStays == ASSUME S!SettingsAssumption, SettingsInv, [S!Next]_settingsVars PROVE SettingsInv'
  <1>1. CASE UNCHANGED settingsVars
    BY <1>1 DEF settingsVars, SettingsInv, FileInv, ProcessInv, S!Meaning, S!From_version, S!Get
  <1> QED
    BY <1>1, StartStep, SaveStep, VerifyStep, EditStep, InitSDKStep, StopStep DEF S!Next

LEMMA SettingsInvSuffices ==
    ASSUME SettingsInv PROVE S!TypeOK /\ S!FileKeepsMeaning /\ S!OptionsAsChosen
  <1>1. S!TypeOK
    BY DEF SettingsInv, FileInv, ProcessInv, SavedBy, ShapedAt, InMemory, S!TypeOK
  <1>2. S!OptionsAsChosen
    <2>1. SUFFICES ASSUME options # absent, ~ altered
                   PROVE  options = [chosen EXCEPT !.dsn = IF @ = "" THEN process.env ELSE @]
      BY DEF S!OptionsAsChosen
    <2>2. ProcessInv
      BY <2>1 DEF SettingsInv
    <2>3. "dsn" \in S!NewKeys
      BY NewKeysAre
    <2>4. options = [k \in S!NewKeys |-> IF k = "dsn" /\ process.settings[k] = "" /\ process.env # ""
                                       THEN process.env ELSE process.settings[k]]
      BY <2>1, <2>2, DefaultDsn DEF ProcessInv, S!Load_project_settings
    <2> QED
      BY <2>2, <2>3, <2>4 DEF ProcessInv
  <1> QED
    BY <1>1, <1>2 DEF SettingsInv, FileInv, S!FileKeepsMeaning

LEMMA SchemaStep ==
    ASSUME S!SettingsAssumption, SettingsInv, [S!Next]_settingsVars
    PROVE  S!From_version(file') >= S!From_version(file)
  <1>1. PICK version \in Nat : SavedBy(file, version)
    BY DEF SettingsInv, FileInv
  <1>2. S!From_version(file) \in Nat
    BY <1>1, FromVersion
  <1>3. CASE file' = file
    BY <1>2, <1>3
  <1>4. CASE S!Save \/ S!Verify_project_settings
    <2>1. ProcessInv /\ file' = S!Saved(process.settings)
      BY <1>4 DEF S!Save, S!Verify_project_settings, SettingsInv
    <2>2. S!From_version(file') = process.settings["schema_version"]
      BY <2>1, SavedAgain DEF ProcessInv
    <2> QED
      BY <2>1, <2>2 DEF ProcessInv
  <1>5. CASE S!Edit
    <2>0. PICK k \in S!NewKeys : \E v \in S!Values(k) :
            /\ process' = [process EXCEPT !.settings[k] = v]
            /\ file' = S!Saved(process'.settings) /\ process.mode = "editor"
      BY <1>5 DEF S!Edit
    <2>1. PICK v \in S!Values(k) :
            /\ process' = [process EXCEPT !.settings[k] = v]
            /\ file' = S!Saved(process'.settings) /\ process.mode = "editor"
      BY <2>0
    <2>2. ProcessInv
      BY <2>1 DEF SettingsInv
    <2>3. SettingsInv' /\ process'.mode # "none"
      BY <1>5, <2>1, <2>2, EditStep DEF ProcessInv
    <2>4. ProcessInv'
      BY <2>3 DEF SettingsInv
    <2>5. k # "schema_version" /\ process'.settings = [process.settings EXCEPT ![k] = v]
      BY <2>1, <2>2, NewKeysAre DEF ProcessInv
    <2>6. process'.settings["schema_version"] = process.settings["schema_version"]
      BY <2>2, <2>5 DEF ProcessInv, InMemory, S!Keys
    <2>7. S!From_version(file') = process'.settings["schema_version"]
      BY <2>1, <2>4, SavedAgain DEF ProcessInv
    <2> QED
      BY <2>2, <2>6, <2>7 DEF ProcessInv
  <1> QED
    BY <1>3, <1>4, <1>5 DEF S!Next, S!Start, S!InitSDK, S!Stop, settingsVars

-----------------------------------------------------------------------------
(***************************************************************************)
(* Behaviours of a session.                                                *)
(***************************************************************************)
LEMMA PartStays == [SessionNext]_sessionVars => part' = part
  BY DEF SessionNext, SettingsStep, LayersStep, AttachmentsStep, FilesStep, sessionVars

(* Beside its settings, its attachments and its files, a session's two     *)
(* layers behave as those of Lifecycle.                                    *)
THEOREM SessionsAreLifecycles == SessionSpec => Spec
  <1>1. SessionInit => Init
    BY DEF SessionInit
  <1>2. [SessionNext]_sessionVars => [Next]_vars
    BY DEF SessionNext, SettingsStep, LayersStep, AttachmentsStep, FilesStep, sessionVars
  <1> QED
    BY <1>1, <1>2, PTL DEF SessionSpec, Spec

LEMMA SettingsStand == SessionSpec => [](part = "settings" => SettingsInv)
  <1> DEFINE here == part = "settings"
  <1>1. SessionInit => (here => SettingsInv)
    BY SessionAssumption, SettingsInitInv DEF SessionInit
  <1>2. (here => SettingsInv) /\ [SessionNext]_sessionVars => (here => SettingsInv)'
    <2>1. here /\ [SessionNext]_sessionVars => [S!Next]_settingsVars
      BY DEF SessionNext, SettingsStep, LayersStep, AttachmentsStep, FilesStep, sessionVars
    <2> QED
      BY <2>1, SessionAssumption, PartStays, SettingsStays
  <1> QED
    BY <1>1, <1>2, PTL DEF SessionSpec

(* For every value of the constants, so for whatever values the settings   *)
(* have, and whichever version of the SDK saved the project's file: it     *)
(* always means what the user chose, through migrations, saves, edits and  *)
(* crashes (run_project_settings_migrations()), and an init() loads these  *)
(* choices, of the environment only the DSN, and nothing that the callback *)
(* of an earlier init() changed (_load_project_settings()).                *)
THEOREM SettingsAreKept == SessionSpec => []SettingsKept
  <1>1. (part = "settings" => SettingsInv) => SettingsKept
    BY SettingsInvSuffices DEF SettingsKept
  <1> QED
    BY <1>1, SettingsStand, PTL

(* No process takes a file back to an earlier schema: a project that a     *)
(* later version of the SDK has saved stays as it is, and a file is saved  *)
(* only with what a migration left in memory.                              *)
THEOREM SchemasGrow == SessionSpec => S!SchemaGrows
  <1> DEFINE here == part = "settings"
             Grows == S!From_version(file') >= S!From_version(file)
  <1>1. here /\ (here => SettingsInv) /\ [SessionNext]_sessionVars => [Grows]_settingsVars
    <2>1. here /\ [SessionNext]_sessionVars => [S!Next]_settingsVars
      BY DEF SessionNext, SettingsStep, LayersStep, AttachmentsStep, FilesStep, sessionVars
    <2> QED
      BY <2>1, SessionAssumption, SchemaStep
  <1>2. ~ here /\ [SessionNext]_sessionVars => [Grows]_settingsVars
    BY DEF SessionNext, SettingsStep, LayersStep, AttachmentsStep, FilesStep, sessionVars
  <1>3. [Grows]_settingsVars => [Grows]_(S!vars)
    BY DEF settingsVars, S!vars
  <1> HIDE DEF here, Grows
  <1>4. SessionSpec => [][Grows]_(S!vars)
    BY <1>1, <1>2, <1>3, SettingsStand, PTL DEF SessionSpec, here
  <1> QED
    BY <1>4 DEF S!SchemaGrows, Grows

-----------------------------------------------------------------------------
(***************************************************************************)
(* The files of the events, by the proofs about EventProcessing.           *)
(***************************************************************************)
PProof == INSTANCE EventProcessingProofs WITH Main <- main, Worker <- {}, MayFail <- FALSE

(* The instances' definitions agree.                                       *)
LEMMA EventCalls ==
    ASSUME NEW t
    PROVE  /\ PProof!Top(t) = P!Top(t)
           /\ \A stage : PProof!At(t, stage) <=> P!At(t, stage)
           /\ \A call : PProof!Become(t, call) <=> P!Become(t, call)
           /\ \A stage : PProof!Goto(t, stage) <=> P!Goto(t, stage)
           /\ PProof!Return(t) <=> P!Return(t)
  <1>1. \A s : PProof!Last(s) = P!Last(s) /\ PProof!Front(s) = P!Front(s)
    BY DEF PProof!Last, P!Last, PProof!Front, P!Front
  <1>2. PProof!Top(t) = P!Top(t)
    BY <1>1 DEF PProof!Top, P!Top
  <1>3. \A call : PProof!Become(t, call) <=> P!Become(t, call)
    BY <1>1 DEF PProof!Become, P!Become
  <1> QED
    BY <1>1, <1>2, <1>3 DEF PProof!At, P!At, PProof!Goto, P!Goto, PProof!Return, P!Return

LEMMA EventStages ==
    ASSUME NEW t
    PROVE  PProof!Process(t) <=> P!Process(t)
  <1>1. PProof!Enrich(t) <=> P!Enrich(t)
    BY EventCalls DEF PProof!Enrich, P!Enrich, PProof!engine, P!engine, PProof!files, P!files
  <1>2. PProof!CheckFrame(t) <=> P!CheckFrame(t)
    BY EventCalls DEF
        PProof!CheckFrame, P!CheckFrame, PProof!NoFile, P!NoFile, PProof!None, P!None,
        PProof!WantsScreenshot, P!WantsScreenshot, PProof!engine, P!engine
  <1>3. \A b : PProof!AskScreenshot(t, b) <=> P!AskScreenshot(t, b)
    BY EventCalls DEF
        PProof!AskScreenshot, P!AskScreenshot, PProof!engine, P!engine, PProof!files, P!files
  <1>4. PProof!MarkFrame(t) <=> P!MarkFrame(t)
    BY EventCalls DEF PProof!MarkFrame, P!MarkFrame, PProof!engine, P!engine, PProof!files, P!files
  <1>5. \A b : PProof!TakeScreenshot(t, b) <=> P!TakeScreenshot(t, b)
    BY EventCalls DEF PProof!TakeScreenshot, P!TakeScreenshot, PProof!engine, P!engine
  <1>6. PProof!RemoveTree(t) <=> P!RemoveTree(t)
    BY EventCalls DEF
        PProof!RemoveTree, P!RemoveTree, PProof!NoFile, P!NoFile, PProof!None, P!None,
        PProof!AfterTree, P!AfterTree, PProof!engine, P!engine
  <1>7. \A b : PProof!BuildTree(t, b) <=> P!BuildTree(t, b)
    BY EventCalls DEF
        PProof!BuildTree, P!BuildTree, PProof!AfterTree, P!AfterTree, PProof!engine, P!engine
  <1>8. \A b : PProof!ManagedHook(t, b) <=> P!ManagedHook(t, b)
    BY EventCalls DEF
        PProof!ManagedHook, P!ManagedHook, PProof!engine, P!engine, PProof!files, P!files
  <1>9. \A b : PProof!BeforeSend(t, b) <=> P!BeforeSend(t, b)
    BY EventCalls DEF
        PProof!BeforeSend, P!BeforeSend, PProof!engine, P!engine, PProof!files, P!files
  <1>10. PProof!Attach(t) <=> P!Attach(t)
    BY EventCalls DEF PProof!Attach, P!Attach, PProof!engine, P!engine, PProof!files, P!files
  <1> QED
    BY <1>1, <1>2, <1>3, <1>4, <1>5, <1>6, <1>7, <1>8, <1>9, <1>10 DEF PProof!Process, P!Process

LEMMA EventSteps == PProof!Next <=> P!Next
  <1>1. \A t, kind : PProof!ShouldProceed(t, kind) <=> P!ShouldProceed(t, kind)
    BY DEF PProof!ShouldProceed, P!ShouldProceed, PProof!Counter, P!Counter
  <1>2. \A t, kind : PProof!FirstStage(t, kind) = P!FirstStage(t, kind)
    BY <1>1 DEF PProof!FirstStage, P!FirstStage
  <1>3. \A t, kind, fatal : PProof!Begin(t, kind, fatal) <=> P!Begin(t, kind, fatal)
    BY <1>1, <1>2 DEF
        PProof!Begin, P!Begin, PProof!engine, P!engine, PProof!files, P!files, PProof!None,
        P!None
  <1>4. \A t : PProof!RunsOtherCode(t) <=> P!RunsOtherCode(t)
    BY EventCalls DEF PProof!RunsOtherCode, P!RunsOtherCode
  <1>5. \A t, kind, fatal : PProof!Capture(t, kind, fatal) <=> P!Capture(t, kind, fatal)
    BY <1>3, <1>4 DEF PProof!Capture, P!Capture
  <1>6. \A t : PProof!Crash(t) <=> P!Crash(t)
    BY <1>3 DEF PProof!Crash, P!Crash
  <1>7. PProof!Running <=> P!Running
    BY EventCalls DEF PProof!Running, P!Running, PProof!Thread, P!Thread
  <1>8. /\ PProof!InitSdk <=> P!InitSdk
        /\ PProof!CloseSdk <=> P!CloseSdk
        /\ PProof!DrawFrame <=> P!DrawFrame
    BY DEF
        PProof!InitSdk, P!InitSdk, PProof!NoFile, P!NoFile, PProof!None, P!None, PProof!CloseSdk,
        P!CloseSdk, PProof!files, P!files, PProof!DrawFrame, P!DrawFrame
  <1> QED
    BY <1>5, <1>6, <1>7, <1>8, EventStages
       DEF PProof!Next, P!Next, PProof!Thread, P!Thread, PProof!Kind, P!Kind

LEMMA EventsBegin == P!Init => PProof!Init
  BY DEF
      PProof!Init, P!Init, PProof!Session, P!Session, PProof!None, P!None, PProof!NoFile,
      P!NoFile, PProof!PreviousRun, P!PreviousRun, PProof!Thread, P!Thread

LEMMA EventsKeepFiles == PProof!FilesKept => P!FilesKept
  BY EventCalls DEF
      PProof!FilesKept, P!FilesKept, PProof!ScreenshotKept, P!ScreenshotKept, PProof!Sent,
      P!Sent, PProof!None, P!None, PProof!TreeKept, P!TreeKept

LEMMA FilesStand == SessionSpec => [](part = "files" => P!FilesKept)
  <1> DEFINE here == part = "files"
  <1>1. here /\ SessionInit => PProof!Init
    BY EventsBegin DEF SessionInit
  <1>2. here /\ [SessionNext]_sessionVars => [PProof!Next]_(PProof!vars)
    <2>1. here /\ [SessionNext]_sessionVars => P!Next \/ UNCHANGED processingVars
      BY DEF SessionNext, SettingsStep, LayersStep, AttachmentsStep, FilesStep, sessionVars
    <2>2. UNCHANGED processingVars => UNCHANGED PProof!vars
      BY DEF processingVars, PProof!vars, PProof!engine, PProof!files
    <2> QED
      BY <2>1, <2>2, EventSteps
  <1>3. [SessionNext]_sessionVars => (here => here') /\ (~ here => ~ here')
    BY PartStays
  <1>4. PProof!Spec => []PProof!FilesKept
    <2>1. PProof!ProcessingAssumption
      BY SessionAssumption DEF P!ProcessingAssumption, PProof!ProcessingAssumption
    <2> QED
      BY <2>1, PProof!Files_Kept
  <1>5. PProof!FilesKept => P!FilesKept
    BY EventsKeepFiles
  <1> HIDE DEF here
  <1>6. SessionSpec => [](here => P!FilesKept)
    BY <1>1, <1>2, <1>3, <1>4, <1>5, PTL DEF SessionSpec, PProof!Spec
  <1> QED
    BY <1>6 DEF here

(* The screenshot and the scene tree that the main thread wrote for an     *)
(* event are there when it is sent, for every depth of nested captures and *)
(* any number of events, frames and sessions.                              *)
THEOREM SessionKeepsFiles == SessionSpec => []FilesKept
  <1>1. (part = "files" => P!FilesKept) => FilesKept
    BY DEF FilesKept
  <1> QED
    BY <1>1, FilesStand, PTL

-----------------------------------------------------------------------------
(***************************************************************************)
(* The attachments.  At most one init() runs, on the only thread.          *)
(***************************************************************************)
(* The steps of an init()                                                  *)
Stages == {"callback", "start", "drain"}
Initializing(stage) == inits # <<>> /\ inits[1] = stage
(* A scope with each of these once                                         *)
UsersOf(atts) == [a \in Atts |-> IF a \in atts THEN 1 ELSE 0]
SessionOpen == enabled /\ inits = <<>>

OneInit == inits \in Seq(Stages) /\ Len(inits) <= 1

AttachmentTypes ==
    /\ OneInit
    /\ listed = [custom |-> listed.custom, defaults |-> listed.defaults]
    /\ listed.custom \subseteq Atts /\ listed.defaults \in 0 .. 1
    /\ scope = [defaults |-> scope.defaults, users |-> scope.users]
    /\ scope.defaults \in Nat /\ scope.users \in [Atts -> Nat]
    /\ user_attachments \subseteq Atts /\ (backend # "native" => user_attachments = {})
    /\ wanted \subseteq Atts
    /\ pending = [t \in {main} |-> pending[main]]
    /\ enabled \in BOOLEAN

(* Between init()'s steps, what was wanted waits in the options, and the   *)
(* backend is clean.                                                       *)
Initialized ==
    /\ is_configuring => Initializing("callback")
    /\ Initializing("callback") \/ Initializing("start") => ~ enabled /\ listed.defaults = 0
    /\ inits # <<>> => wanted = listed.custom
    /\ Initializing("drain") =>
         enabled /\ listed.defaults = 1 /\ scope.users = UsersOf({}) /\ user_attachments = {}
    /\ ~ enabled => user_attachments = {} /\ (backend = "android" => scope.users = UsersOf({}))

(* Then the scope has what was wanted, and the native backend knows it, or *)
(* is about to; the other backends may still have to add their defaults.   *)
Attaching ==
    /\ pending[main] # A!Idle => SessionOpen
    /\ SessionOpen =>
         /\ listed.defaults = 1 /\ scope.users = UsersOf(wanted)
         /\ \/ pending[main] = A!Idle /\ (backend = "native" => user_attachments = wanted)
            \/ pending[main] = [kind |-> "push", next |-> wanted] /\ backend = "native"
            \/ pending[main] = [kind |-> "defaults"] /\ backend # "native"

AttachmentsInv == AttachmentTypes /\ Initialized /\ Attaching

(* The default attachments: Android alone adds them to what is there.      *)
DefaultsInv ==
    /\ backend = "android" /\ ~ enabled => scope.defaults = 0
    /\ Initializing("drain") => scope.defaults = 1
    /\ SessionOpen => scope.defaults = IF pending[main] = [kind |-> "defaults"] THEN 0 ELSE 1

LEMMA Kinds ==
    /\ A!Idle # [kind |-> "defaults"] /\ A!Idle.kind = "idle" /\ [kind |-> "defaults"].kind = "defaults"
    /\ \A n : [kind |-> "push", next |-> n] # A!Idle /\ [kind |-> "push", next |-> n].kind = "push"
              /\ [kind |-> "push", next |-> n] # [kind |-> "defaults"] /\ [kind |-> "push", next |-> n].next = n
  BY DEF A!Idle

LEMMA StageOf ==
    ASSUME OneInit, NEW stage PROVE A!InitIs(stage) <=> Initializing(stage)
  BY DEF OneInit, A!InitIs, Initializing

LEMMA InitEntered ==
    ASSUME NEW stage \in Stages
    PROVE  /\ Append(<<>>, stage) \in Seq(Stages) /\ Len(Append(<<>>, stage)) = 1
           /\ Append(<<>>, stage) # <<>> /\ Append(<<>>, stage)[1] = stage
  BY DEF Stages

LEMMA InitGoesOn ==
    ASSUME OneInit, inits # <<>>, NEW stage \in Stages
    PROVE  LET goes == [inits EXCEPT ![Len(inits)] = stage] IN
           /\ goes \in Seq(Stages) /\ Len(goes) = 1 /\ goes # <<>> /\ goes[1] = stage
  <1>1. inits \in Seq(Stages) /\ Len(inits) <= 1
    BY DEF OneInit
  <1>2. Len(inits) \in Nat /\ Len(inits) # 0
    BY <1>1
  <1>3. \A n \in Nat : n <= 1 /\ n # 0 => n = 1
    OBVIOUS
  <1>4. Len(inits) = 1
    BY <1>1, <1>2, <1>3, Zenon
  <1> QED
    BY <1>1, <1>4

LEMMA InitLeft ==
    ASSUME OneInit, inits # <<>>
    PROVE  SubSeq(inits, 1, Len(inits) - 1) = <<>>
  BY DEF OneInit

LEMMA NoneAttached == A!NoUsers = UsersOf({}) /\ UsersOf({}) \in [Atts -> Nat]
  BY DEF A!NoUsers, UsersOf

LEMMA AllAttached ==
    ASSUME NEW atts, scope.users = UsersOf(atts), atts \subseteq Atts
    PROVE  A!Attached = atts
  BY DEF UsersOf, A!Attached

LEMMA AddedAre ==
    ASSUME NEW atts, NEW more, scope.users = UsersOf(atts), atts \cap more = {},
           atts \subseteq Atts, more \subseteq Atts
    PROVE  A!AddedUsers(more) = UsersOf(atts \cup more) /\ A!AddedUsers(more) \in [Atts -> Nat]
  BY DEF UsersOf, A!AddedUsers

LEMMA AttachmentsBegin == A!Init => AttachmentsInv /\ DefaultsInv
  <1> SUFFICES ASSUME A!Init PROVE AttachmentsInv /\ DefaultsInv
    OBVIOUS
  <1>1. AttachmentTypes
    <2>1. /\ listed = [custom |-> {}, defaults |-> 0] /\ scope = [defaults |-> 0, users |-> UsersOf({})]
          /\ user_attachments = {} /\ wanted = {} /\ enabled = FALSE /\ inits = <<>>
      BY NoneAttached DEF A!Init, A!Fresh
    <2>2. pending = [t \in {main} |-> A!Idle]
      BY DEF A!Init
    <2>3. OneInit
      BY <2>1 DEF OneInit
    <2>4. scope.users \in [Atts -> Nat] /\ scope.defaults = 0 /\ listed.custom = {} /\ listed.defaults = 0
      BY <2>1, NoneAttached
    <2>5. pending = [t \in {main} |-> pending[main]]
      BY <2>2
    <2>6. listed = [custom |-> listed.custom, defaults |-> listed.defaults]
      BY <2>1
    <2>7. scope = [defaults |-> scope.defaults, users |-> scope.users]
      BY <2>1
    <2>8. listed.custom \subseteq Atts /\ listed.defaults \in 0 .. 1 /\ scope.defaults \in Nat
      BY <2>4
    <2>9. user_attachments \subseteq Atts /\ wanted \subseteq Atts /\ user_attachments = {} /\ enabled \in BOOLEAN
      BY <2>1
    <2> QED
      BY <2>3, <2>4, <2>5, <2>6, <2>7, <2>8, <2>9, Zenon DEF AttachmentTypes
  <1>2. Initialized /\ Attaching /\ DefaultsInv
    BY NoneAttached DEF A!Init, A!Fresh, Initialized, Attaching, DefaultsInv, Initializing, SessionOpen
  <1> QED
    BY <1>1, <1>2 DEF AttachmentsInv

-----------------------------------------------------------------------------
(* The parts of the invariant that a step leaves alone.                    *)
LEMMA TypesKept ==
    ASSUME AttachmentTypes, UNCHANGED backend,
           OneInit', enabled' \in BOOLEAN, wanted' \subseteq Atts,
           listed' = [custom |-> listed'.custom, defaults |-> listed'.defaults],
           listed'.custom \subseteq Atts, listed'.defaults \in 0 .. 1,
           scope' = [defaults |-> scope'.defaults, users |-> scope'.users],
           scope'.defaults \in Nat, scope'.users \in [Atts -> Nat],
           user_attachments' \subseteq Atts, backend # "native" => user_attachments' = {},
           pending' = [t \in {main} |-> pending'[main]]
    PROVE  AttachmentTypes'
  BY DEF AttachmentTypes

LEMMA InitSDKAttaches ==
    ASSUME AttachmentsInv, A!InitSDK
    PROVE  AttachmentsInv' /\ (DefaultsInv => DefaultsInv')
  <1>1. PICK callback \in BOOLEAN :
          /\ A!Free(main) /\ ~enabled /\ inits = <<>>
          /\ listed' = [custom |-> {}, defaults |-> 0]
          /\ is_configuring' = (is_configuring \/ callback)
          /\ inits' = Append(<<>>, IF callback THEN "callback" ELSE "start")
          /\ wanted' = {}
          /\ UNCHANGED <<backend, enabled, scope, user_attachments, pending>>
    BY DEF A!InitSDK, A!Fresh
  <1> DEFINE stage == IF callback THEN "callback" ELSE "start"
  <1>2. stage \in Stages
    BY DEF Stages
  <1>3. /\ inits' = Append(<<>>, stage) /\ stage \in {"callback", "start"}
        /\ callback => stage = "callback"
    BY <1>1
  <1> HIDE DEF stage
  <1>4. inits' \in Seq(Stages) /\ Len(inits') = 1 /\ inits' # <<>> /\ inits'[1] = stage
    BY <1>2, <1>3, InitEntered
  <1>5. OneInit'
    BY <1>4 DEF OneInit
  <1>6. AttachmentTypes'
    BY <1>1, <1>5, TypesKept DEF AttachmentsInv, AttachmentTypes
  <1>7. ~ is_configuring
    BY <1>1 DEF AttachmentsInv, Initialized, Initializing
  <1>8. Initialized'
    BY <1>1, <1>3, <1>4, <1>7 DEF AttachmentsInv, Initialized, Initializing
  <1>9. Attaching'
    BY <1>1, <1>4 DEF AttachmentsInv, Attaching, SessionOpen
  <1>10. DefaultsInv => DefaultsInv'
    BY <1>1, <1>3, <1>4 DEF DefaultsInv, Initializing, SessionOpen
  <1> QED
    BY <1>6, <1>8, <1>9, <1>10 DEF AttachmentsInv

LEMMA CallbackReturnsAttaches ==
    ASSUME AttachmentsInv, A!CallbackReturns
    PROVE  AttachmentsInv' /\ (DefaultsInv => DefaultsInv')
  <1>1. /\ Initializing("callback") /\ is_configuring' = FALSE
        /\ inits' = [inits EXCEPT ![Len(inits)] = "start"]
        /\ UNCHANGED <<backend, enabled, listed, scope, user_attachments, pending, wanted>>
    BY StageOf DEF A!CallbackReturns, A!Configuring, AttachmentsInv, AttachmentTypes
  <1>2. inits # <<>> /\ "start" \in Stages /\ OneInit
    BY <1>1 DEF Initializing, Stages, AttachmentsInv, AttachmentTypes
  <1>3. inits' \in Seq(Stages) /\ Len(inits') = 1 /\ inits' # <<>> /\ inits'[1] = "start"
    BY <1>1, <1>2, InitGoesOn
  <1>4. OneInit'
    BY <1>3 DEF OneInit
  <1>5. AttachmentTypes'
    BY <1>1, <1>4, TypesKept DEF AttachmentsInv, AttachmentTypes
  <1>6. Initialized'
    BY <1>1, <1>2, <1>3 DEF AttachmentsInv, Initialized, Initializing
  <1>7. Attaching'
    BY <1>1, <1>2, <1>3 DEF AttachmentsInv, Attaching, SessionOpen
  <1>8. DefaultsInv => DefaultsInv'
    BY <1>1, <1>2, <1>3 DEF DefaultsInv, Initializing, SessionOpen
  <1> QED
    BY <1>5, <1>6, <1>7, <1>8 DEF AttachmentsInv

LEMMA StartAttaches ==
    ASSUME AttachmentsInv, A!StartBackend
    PROVE  AttachmentsInv' /\ (DefaultsInv /\ "android" \notin MayFailToStart => DefaultsInv')
  <1>1. PICK started \in {TRUE} \cup (IF backend \in MayFailToStart THEN {FALSE} ELSE {}) :
          /\ A!InitIs("start")
          /\ listed' = [listed EXCEPT !.defaults = @ + 1]
          /\ scope' = A!Started(started, listed.defaults + 1)
          /\ enabled' = started
          /\ inits' = IF started THEN [inits EXCEPT ![Len(inits)] = "drain"]
                      ELSE SubSeq(inits, 1, Len(inits) - 1)
          /\ UNCHANGED <<backend, is_configuring, user_attachments, pending, wanted>>
    BY DEF A!StartBackend
  <1>2. OneInit /\ AttachmentTypes
    BY DEF AttachmentsInv, AttachmentTypes
  <1>3. Initializing("start") /\ inits # <<>> /\ "drain" \in Stages
    BY <1>1, <1>2, StageOf DEF Initializing, Stages
  <1>4. ~ enabled /\ listed.defaults = 0 /\ wanted = listed.custom /\ user_attachments = {}
    BY <1>3 DEF AttachmentsInv, Initialized
  <1>5. listed' = [custom |-> listed.custom, defaults |-> 1]
    BY <1>1, <1>2, <1>4 DEF AttachmentTypes
  <1>6. scope' = IF backend = "android" THEN [defaults |-> scope.defaults + 1, users |-> scope.users]
                 ELSE [defaults |-> IF started THEN 1 ELSE 0, users |-> UsersOf({})]
    BY <1>1, <1>2, <1>4, NoneAttached DEF A!Started, AttachmentTypes
  <1>7. started \in BOOLEAN
    BY <1>1
  <1>8. OneInit'
    BY <1>1, <1>2, <1>3, InitGoesOn, InitLeft DEF OneInit
  <1>9. /\ started => inits' # <<>> /\ inits'[1] = "drain"
        /\ ~ started => inits' = <<>>
    BY <1>1, <1>2, <1>3, InitGoesOn, InitLeft
  <1>10. ~ is_configuring
    BY <1>3 DEF AttachmentsInv, Initialized, Initializing
  <1>11. scope' = [defaults |-> scope'.defaults, users |-> scope'.users]
         /\ scope'.defaults \in Nat /\ scope'.users \in [Atts -> Nat]
    BY <1>2, <1>6, <1>7, NoneAttached DEF AttachmentTypes
  <1>12. AttachmentTypes'
    <2>1. UNCHANGED <<backend, wanted, user_attachments, pending>> /\ enabled' \in BOOLEAN
      BY <1>1, <1>7
    <2>2. /\ listed' = [custom |-> listed'.custom, defaults |-> listed'.defaults]
          /\ listed'.custom = listed.custom /\ listed'.defaults \in 0 .. 1
      BY <1>5
    <2> QED
      BY <1>2, <1>8, <1>11, <2>1, <2>2, TypesKept DEF AttachmentTypes
  <1>13. pending[main] = A!Idle
    BY <1>4 DEF AttachmentsInv, Attaching, SessionOpen
  <1>14. Attaching'
    BY <1>1, <1>9, <1>13 DEF Attaching, SessionOpen
  <1>15. Initialized'
    <2>1. CASE started
      <3>1. enabled' /\ listed'.defaults = 1 /\ listed'.custom = listed.custom /\ inits' # <<>> /\ inits'[1] = "drain"
        BY <1>1, <1>5, <1>9, <2>1
      <3>2. scope'.users = UsersOf({})
        BY <1>3, <1>4, <1>6 DEF AttachmentsInv, Initialized
      <3> QED
        BY <1>1, <1>4, <1>10, <3>1, <3>2 DEF Initialized, Initializing
    <2>2. CASE ~ started
      <3>1. inits' = <<>> /\ ~ enabled'
        BY <1>1, <1>9, <2>2
      <3>2. backend = "android" => scope'.users = UsersOf({})
        BY <1>4, <1>6 DEF AttachmentsInv, Initialized
      <3> QED
        BY <1>1, <1>4, <1>10, <3>1, <3>2 DEF Initialized, Initializing
    <2> QED
      BY <2>1, <2>2
  <1>16. ASSUME DefaultsInv, "android" \notin MayFailToStart PROVE DefaultsInv'
    <2>1. ASSUME backend = "android" PROVE started /\ scope'.defaults = 1
      <3>1. started = TRUE
        BY <1>1, <1>16, <2>1
      <3>2. scope.defaults = 0
        BY <1>4, <1>16, <2>1 DEF DefaultsInv
      <3> QED
        BY <1>6, <2>1, <3>1, <3>2
    <2>2. started => scope'.defaults = 1
      BY <1>6, <2>1
    <2> QED
      BY <1>1, <1>9, <2>1, <2>2 DEF DefaultsInv, Initializing, SessionOpen
  <1> QED
    BY <1>12, <1>14, <1>15, <1>16 DEF AttachmentsInv

LEMMA DrainAttaches ==
    ASSUME AttachmentsInv, A!Drain
    PROVE  AttachmentsInv' /\ (DefaultsInv => DefaultsInv')
  <1>1. /\ A!InitIs("drain")
        /\ scope' = [scope EXCEPT !.users = A!AddedUsers(listed.custom)]
        /\ user_attachments' = IF backend = "native" THEN user_attachments \cup listed.custom ELSE {}
        /\ listed' = [listed EXCEPT !.custom = {}]
        /\ inits' = SubSeq(inits, 1, Len(inits) - 1)
        /\ UNCHANGED <<backend, enabled, is_configuring, pending, wanted>>
    BY DEF A!Drain, A!Drained
  <1>2. OneInit /\ AttachmentTypes
    BY DEF AttachmentsInv, AttachmentTypes
  <1>3. Initializing("drain") /\ inits # <<>>
    BY <1>1, <1>2, StageOf DEF Initializing
  <1>4. /\ enabled /\ listed.defaults = 1 /\ wanted = listed.custom /\ user_attachments = {}
        /\ scope.users = UsersOf({})
    BY <1>3 DEF AttachmentsInv, Initialized
  <1>5. inits' = <<>>
    BY <1>1, <1>2, <1>3, InitLeft
  <1>6. wanted \subseteq Atts
    BY <1>2 DEF AttachmentTypes
  <1>7. A!AddedUsers(wanted) = UsersOf(wanted) /\ UsersOf(wanted) \in [Atts -> Nat]
    BY <1>4, <1>6, AddedAre
  <1>8. scope' = [defaults |-> scope.defaults, users |-> UsersOf(wanted)]
    BY <1>1, <1>2, <1>4, <1>7 DEF AttachmentTypes
  <1>9. listed' = [custom |-> {}, defaults |-> 1]
    BY <1>1, <1>2, <1>4 DEF AttachmentTypes
  <1>10. user_attachments' = IF backend = "native" THEN wanted ELSE {}
    BY <1>1, <1>4
  <1>11. OneInit'
    BY <1>5 DEF OneInit
  <1>12. AttachmentTypes'
    <2>1. UNCHANGED <<backend, wanted, pending>> /\ enabled' \in BOOLEAN
      BY <1>1, <1>2 DEF AttachmentTypes
    <2>2. /\ listed' = [custom |-> listed'.custom, defaults |-> listed'.defaults]
          /\ listed'.custom = {} /\ listed'.defaults \in 0 .. 1
      BY <1>9
    <2>3. /\ scope' = [defaults |-> scope'.defaults, users |-> scope'.users]
          /\ scope'.defaults = scope.defaults /\ scope'.users \in [Atts -> Nat]
      BY <1>7, <1>8
    <2> QED
      BY <1>2, <1>6, <1>10, <1>11, <2>1, <2>2, <2>3, TypesKept DEF AttachmentTypes
  <1>13. ~ is_configuring /\ pending[main] = A!Idle
    BY <1>3 DEF AttachmentsInv, Initialized, Attaching, Initializing, SessionOpen
  <1>14. Initialized'
    BY <1>1, <1>4, <1>5, <1>13 DEF Initialized, Initializing
  <1>15. Attaching'
    BY <1>1, <1>4, <1>5, <1>8, <1>9, <1>10, <1>13 DEF Attaching, SessionOpen
  <1>16. ASSUME DefaultsInv PROVE DefaultsInv'
    BY <1>1, <1>3, <1>4, <1>5, <1>8, <1>13, <1>16, Kinds DEF DefaultsInv, Initializing, SessionOpen
  <1> QED
    BY <1>12, <1>14, <1>15, <1>16 DEF AttachmentsInv


LEMMA CloseAttaches ==
    ASSUME AttachmentsInv, A!Close
    PROVE  AttachmentsInv' /\ (DefaultsInv => DefaultsInv')
  <1>1. /\ pending[main] = A!Idle /\ inits = <<>> /\ enabled
        /\ enabled' = FALSE /\ wanted' = {} /\ user_attachments' = {}
        /\ scope' = IF backend = "web" THEN scope ELSE [defaults |-> 0, users |-> UsersOf({})]
        /\ UNCHANGED <<backend, listed, is_configuring, inits, pending>>
    BY NoneAttached DEF A!Close, A!Free
  <1>2. OneInit /\ AttachmentTypes
    BY DEF AttachmentsInv, AttachmentTypes
  <1>3. OneInit'
    BY <1>1, <1>2 DEF OneInit
  <1>4. /\ scope' = [defaults |-> scope'.defaults, users |-> scope'.users]
        /\ scope'.defaults \in Nat /\ scope'.users \in [Atts -> Nat]
        /\ backend = "android" => scope'.defaults = 0 /\ scope'.users = UsersOf({})
    BY <1>1, <1>2, NoneAttached DEF AttachmentTypes
  <1>5. AttachmentTypes'
    BY <1>1, <1>2, <1>3, <1>4, TypesKept DEF AttachmentTypes
  <1>6. Initialized'
    BY <1>1, <1>4 DEF AttachmentsInv, Initialized, Initializing
  <1>7. Attaching'
    BY <1>1 DEF Attaching, SessionOpen
  <1>8. DefaultsInv => DefaultsInv'
    BY <1>1, <1>4 DEF DefaultsInv, Initializing, SessionOpen
  <1> QED
    BY <1>5, <1>6, <1>7, <1>8 DEF AttachmentsInv


LEMMA CustomAttaches ==
    ASSUME AttachmentsInv, A!Custom_add(main) \/ A!Custom_clear(main)
    PROVE  AttachmentsInv' /\ (DefaultsInv => DefaultsInv')
  <1>1. PICK atts \in SUBSET Atts :
          /\ pending[main] = A!Idle /\ is_configuring
          /\ listed' = [listed EXCEPT !.custom = atts]
          /\ wanted = listed.custom => wanted' = atts
          /\ wanted' \subseteq Atts
          /\ UNCHANGED <<backend, enabled, is_configuring, inits, scope, user_attachments, pending>>
    <2>1. CASE A!Custom_clear(main)
      <3>1. {} \in SUBSET Atts /\ wanted' = {}
        BY <2>1 DEF A!Custom_clear
      <3> QED
        BY <2>1, <3>1 DEF A!Custom_clear, A!Free
    <2>2. CASE A!Custom_add(main)
      <3>1. PICK a \in Atts :
              /\ pending[main] = A!Idle /\ is_configuring
              /\ listed' = [listed EXCEPT !.custom = @ \cup {a}]
              /\ wanted' = wanted \cup {a}
              /\ UNCHANGED <<backend, enabled, is_configuring, inits, scope, user_attachments, pending>>
        BY <2>2 DEF A!Custom_add, A!Free
      <3>2. listed.custom \subseteq Atts /\ wanted \subseteq Atts
        BY DEF AttachmentsInv, AttachmentTypes
      <3>3. listed' = [listed EXCEPT !.custom = listed.custom \cup {a}]
        BY <3>1
      <3>4. listed.custom \cup {a} \in SUBSET Atts /\ wanted' \subseteq Atts
        BY <3>1, <3>2
      <3> QED
        BY <3>1, <3>3, <3>4
    <2> QED
      BY <2>1, <2>2
  <1>2. OneInit /\ AttachmentTypes
    BY DEF AttachmentsInv, AttachmentTypes
  <1>3. Initializing("callback") /\ inits # <<>>
    BY <1>1 DEF AttachmentsInv, Initialized, Initializing
  <1>4. listed' = [custom |-> atts, defaults |-> listed.defaults]
    BY <1>1, <1>2 DEF AttachmentTypes
  <1>5. wanted = listed.custom
    BY <1>3 DEF AttachmentsInv, Initialized
  <1>6. wanted' = atts
    BY <1>1, <1>5
  <1>7. OneInit'
    BY <1>1, <1>2 DEF OneInit
  <1>8. AttachmentTypes'
    BY <1>1, <1>2, <1>4, <1>7, TypesKept DEF AttachmentTypes
  <1>9. Initialized'
    BY <1>1, <1>3, <1>4, <1>6 DEF AttachmentsInv, Initialized, Initializing
  <1>10. Attaching'
    BY <1>1, <1>3 DEF Attaching, SessionOpen
  <1>11. DefaultsInv => DefaultsInv'
    BY <1>1 DEF DefaultsInv, Initializing, SessionOpen
  <1> QED
    BY <1>8, <1>9, <1>10, <1>11 DEF AttachmentsInv

LEMMA AddAttaches ==
    ASSUME AttachmentsInv, A!Add(main)
    PROVE  AttachmentsInv' /\ (DefaultsInv => DefaultsInv')
  <1>1. PICK a \in Atts :
          /\ A!Free(main) /\ enabled /\ a \notin wanted
          /\ scope' = [scope EXCEPT !.users = A!AddedUsers({a})]
          /\ wanted' = wanted \cup {a}
          /\ pending' = IF backend = "native"
                        THEN [pending EXCEPT ![main] = [kind |-> "push", next |-> user_attachments \cup {a}]]
                        ELSE pending
          /\ UNCHANGED <<backend, enabled, listed, is_configuring, inits, user_attachments>>
    BY DEF A!Add
  <1>2. OneInit /\ AttachmentTypes
    BY DEF AttachmentsInv, AttachmentTypes
  <1>3. SessionOpen /\ pending[main] = A!Idle
    BY <1>1, <1>2, StageOf DEF A!Free, AttachmentsInv, Initialized, SessionOpen
  <1>4. /\ listed.defaults = 1 /\ scope.users = UsersOf(wanted)
        /\ backend = "native" => user_attachments = wanted
    BY <1>3, Kinds DEF AttachmentsInv, Attaching
  <1>5. wanted \subseteq Atts /\ {a} \subseteq Atts /\ wanted \cap {a} = {}
    BY <1>1, <1>2 DEF AttachmentTypes
  <1>6. A!AddedUsers({a}) = UsersOf(wanted \cup {a}) /\ UsersOf(wanted \cup {a}) \in [Atts -> Nat]
    <2> DEFINE more == {a}
    <2>1. wanted \subseteq Atts /\ more \subseteq Atts /\ wanted \cap more = {} /\ scope.users = UsersOf(wanted)
      BY <1>4, <1>5
    <2> HIDE DEF more
    <2>2. A!AddedUsers(more) = UsersOf(wanted \cup more) /\ UsersOf(wanted \cup more) \in [Atts -> Nat]
      BY <2>1, AddedAre
    <2> QED
      BY <2>2 DEF more
  <1>7. scope' = [defaults |-> scope.defaults, users |-> UsersOf(wanted')]
    BY <1>1, <1>2, <1>6 DEF AttachmentTypes
  <1>8. /\ pending' = [t \in {main} |-> pending'[main]]
        /\ pending'[main] = IF backend = "native" THEN [kind |-> "push", next |-> wanted'] ELSE A!Idle
    <2>1. CASE backend = "native"
      <3>1. user_attachments \cup {a} = wanted'
        BY <1>1, <1>4, <2>1
      <3>2. pending' = [pending EXCEPT ![main] = [kind |-> "push", next |-> wanted']]
        BY <1>1, <2>1, <3>1
      <3> QED
        BY <1>2, <2>1, <3>2 DEF AttachmentTypes
    <2>2. CASE backend # "native"
      BY <1>1, <1>2, <1>3, <2>2 DEF AttachmentTypes
    <2> QED
      BY <2>1, <2>2
  <1>9. OneInit'
    BY <1>1, <1>2 DEF OneInit
  <1>10. AttachmentTypes'
    <2>1. wanted' \subseteq Atts
      BY <1>1, <1>5
    <2>2. /\ scope' = [defaults |-> scope'.defaults, users |-> scope'.users]
          /\ scope'.defaults = scope.defaults /\ scope'.users \in [Atts -> Nat]
      BY <1>1, <1>6, <1>7
    <2> QED
      BY <1>1, <1>2, <1>8, <1>9, <2>1, <2>2, TypesKept DEF AttachmentTypes
  <1>11. Initialized'
    BY <1>1, <1>3 DEF AttachmentsInv, Initialized, Initializing, SessionOpen
  <1>12. Attaching'
    BY <1>1, <1>3, <1>4, <1>7, <1>8 DEF Attaching, SessionOpen
  <1>13. DefaultsInv => DefaultsInv'
    <2>1. scope'.defaults = scope.defaults /\ pending[main] # [kind |-> "defaults"]
          /\ pending'[main] # [kind |-> "defaults"]
      BY <1>3, <1>7, <1>8, Kinds
    <2> QED
      BY <1>1, <1>3, <2>1 DEF DefaultsInv, Initializing, SessionOpen
  <1> QED
    BY <1>10, <1>11, <1>12, <1>13 DEF AttachmentsInv


LEMMA ClearAttaches ==
    ASSUME AttachmentsInv, A!Clear(main)
    PROVE  AttachmentsInv' /\ (DefaultsInv => DefaultsInv')
  <1>1. /\ A!Free(main) /\ enabled
        /\ scope' = A!Cleared /\ wanted' = {}
        /\ pending' = CASE backend = "native" -> [pending EXCEPT ![main] = [kind |-> "push", next |-> {}]]
                        [] backend = "cocoa" -> pending
                        [] OTHER -> [pending EXCEPT ![main] = [kind |-> "defaults"]]
        /\ UNCHANGED <<backend, enabled, listed, is_configuring, inits, user_attachments>>
    BY DEF A!Clear
  <1>2. OneInit /\ AttachmentTypes
    BY DEF AttachmentsInv, AttachmentTypes
  <1>3. SessionOpen /\ pending[main] = A!Idle
    BY <1>1, <1>2, StageOf DEF A!Free, AttachmentsInv, Initialized, SessionOpen
  <1>4. /\ listed.defaults = 1 /\ scope.users = UsersOf(wanted)
        /\ backend = "native" => user_attachments = wanted
    BY <1>3, Kinds DEF AttachmentsInv, Attaching
  <1>5. /\ scope' = [defaults |-> scope'.defaults, users |-> UsersOf({})]
        /\ scope'.defaults = IF backend = "native" THEN scope.defaults
                             ELSE IF backend = "cocoa" THEN 1 ELSE 0
    <2>1. CASE backend = "native"
      <3>1. scope' = [scope EXCEPT !.users = [a \in Atts |-> IF a \in wanted THEN 0 ELSE @[a]]]
        BY <1>1, <1>4, <2>1 DEF A!Cleared
      <3>2. [a \in Atts |-> IF a \in wanted THEN 0 ELSE scope.users[a]] = UsersOf({})
        BY <1>4 DEF UsersOf
      <3> QED
        BY <1>2, <2>1, <3>1, <3>2 DEF AttachmentTypes
    <2>2. CASE backend = "cocoa"
      BY <1>1, <1>4, <2>2, NoneAttached DEF A!Cleared
    <2>3. CASE backend \notin {"native", "cocoa"}
      BY <1>1, <2>3, NoneAttached DEF A!Cleared
    <2> QED
      BY <2>1, <2>2, <2>3
  <1>6. /\ pending' = [t \in {main} |-> pending'[main]]
        /\ pending'[main] = IF backend = "native" THEN [kind |-> "push", next |-> {}]
                            ELSE IF backend = "cocoa" THEN A!Idle ELSE [kind |-> "defaults"]
    <2>1. CASE backend = "native"
      BY <1>1, <1>2, <2>1 DEF AttachmentTypes
    <2>2. CASE backend = "cocoa"
      BY <1>1, <1>2, <1>3, <2>2 DEF AttachmentTypes
    <2>3. CASE backend \notin {"native", "cocoa"}
      BY <1>1, <1>2, <2>3 DEF AttachmentTypes
    <2> QED
      BY <2>1, <2>2, <2>3
  <1>7. OneInit'
    BY <1>1, <1>2 DEF OneInit
  <1>8. AttachmentTypes'
    <2>1. scope' = [defaults |-> scope'.defaults, users |-> scope'.users]
          /\ scope'.defaults \in Nat /\ scope'.users \in [Atts -> Nat]
      BY <1>2, <1>5, NoneAttached DEF AttachmentTypes
    <2> QED
      BY <1>1, <1>2, <1>6, <1>7, <2>1, TypesKept DEF AttachmentTypes
  <1>9. Initialized'
    BY <1>1, <1>3 DEF AttachmentsInv, Initialized, Initializing, SessionOpen
  <1>10. Attaching'
    BY <1>1, <1>3, <1>4, <1>5, <1>6 DEF Attaching, SessionOpen
  <1>11. ASSUME DefaultsInv PROVE DefaultsInv'
    <2>1. scope.defaults = 1
      BY <1>3, <1>11, Kinds DEF DefaultsInv
    <2>2. scope'.defaults = IF pending'[main] = [kind |-> "defaults"] THEN 0 ELSE 1
      BY <1>5, <1>6, <2>1, Kinds
    <2> QED
      BY <1>1, <1>3, <2>2 DEF DefaultsInv, Initializing, SessionOpen
  <1> QED
    BY <1>8, <1>9, <1>10, <1>11 DEF AttachmentsInv


LEMMA PushAttaches ==
    ASSUME AttachmentsInv, A!Push_back(main)
    PROVE  AttachmentsInv' /\ (DefaultsInv => DefaultsInv')
  <1>1. /\ pending[main].kind = "push" /\ user_attachments' = pending[main].next
        /\ pending' = [pending EXCEPT ![main] = A!Idle]
        /\ UNCHANGED <<backend, enabled, listed, is_configuring, inits, scope, wanted>>
    BY DEF A!Push_back, A!Pushed
  <1>2. OneInit /\ AttachmentTypes
    BY DEF AttachmentsInv, AttachmentTypes
  <1>3. pending[main] # A!Idle /\ pending[main] # [kind |-> "defaults"]
    BY <1>1, Kinds
  <1>4. SessionOpen /\ pending[main] = [kind |-> "push", next |-> wanted] /\ backend = "native"
        /\ listed.defaults = 1 /\ scope.users = UsersOf(wanted)
    BY <1>3 DEF AttachmentsInv, Attaching
  <1>5. user_attachments' = wanted
    BY <1>1, <1>4
  <1>6. pending' = [t \in {main} |-> pending'[main]] /\ pending'[main] = A!Idle
    BY <1>1, <1>2 DEF AttachmentTypes
  <1>7. OneInit'
    BY <1>1, <1>2 DEF OneInit
  <1>8. AttachmentTypes'
    BY <1>1, <1>2, <1>4, <1>5, <1>6, <1>7, TypesKept DEF AttachmentTypes
  <1>9. Initialized'
    BY <1>1, <1>4 DEF AttachmentsInv, Initialized, Initializing, SessionOpen
  <1>10. Attaching'
    BY <1>1, <1>4, <1>5, <1>6 DEF Attaching, SessionOpen
  <1>11. DefaultsInv => DefaultsInv'
    BY <1>1, <1>3, <1>4, <1>6, Kinds DEF DefaultsInv, Initializing, SessionOpen
  <1> QED
    BY <1>8, <1>9, <1>10, <1>11 DEF AttachmentsInv


LEMMA AddDefaultsAttaches ==
    ASSUME AttachmentsInv, A!Add_default_attachments(main)
    PROVE  AttachmentsInv' /\ (DefaultsInv => DefaultsInv')
  <1>1. /\ pending[main].kind = "defaults"
        /\ scope' = [scope EXCEPT !.defaults = @ + listed.defaults]
        /\ pending' = [pending EXCEPT ![main] = A!Idle]
        /\ UNCHANGED <<backend, enabled, listed, is_configuring, inits, user_attachments, wanted>>
    BY DEF A!Add_default_attachments
  <1>2. OneInit /\ AttachmentTypes
    BY DEF AttachmentsInv, AttachmentTypes
  <1>3. pending[main] # A!Idle /\ pending[main] # [kind |-> "push", next |-> wanted]
    BY <1>1, Kinds
  <1>4. SessionOpen /\ pending[main] = [kind |-> "defaults"] /\ backend # "native"
        /\ listed.defaults = 1 /\ scope.users = UsersOf(wanted)
    BY <1>3 DEF AttachmentsInv, Attaching
  <1>5. scope' = [defaults |-> scope.defaults + 1, users |-> UsersOf(wanted)]
    BY <1>1, <1>2, <1>4 DEF AttachmentTypes
  <1>6. pending' = [t \in {main} |-> pending'[main]] /\ pending'[main] = A!Idle
    BY <1>1, <1>2 DEF AttachmentTypes
  <1>7. OneInit'
    BY <1>1, <1>2 DEF OneInit
  <1>8. AttachmentTypes'
    <2>1. scope' = [defaults |-> scope'.defaults, users |-> scope'.users]
          /\ scope'.defaults \in Nat /\ scope'.users \in [Atts -> Nat]
      BY <1>2, <1>4, <1>5 DEF AttachmentTypes
    <2> QED
      BY <1>1, <1>2, <1>6, <1>7, <2>1, TypesKept DEF AttachmentTypes
  <1>9. Initialized'
    BY <1>1, <1>4 DEF AttachmentsInv, Initialized, Initializing, SessionOpen
  <1>10. Attaching'
    BY <1>1, <1>4, <1>5, <1>6 DEF Attaching, SessionOpen
  <1>11. DefaultsInv => DefaultsInv'
    BY <1>1, <1>4, <1>5, <1>6, Kinds DEF DefaultsInv, Initializing, SessionOpen
  <1> QED
    BY <1>8, <1>9, <1>10, <1>11 DEF AttachmentsInv


LEMMA AttachmentsStay ==
    ASSUME AttachmentsInv, [A!Next]_attachmentVars
    PROVE  AttachmentsInv' /\ (DefaultsInv /\ "android" \notin MayFailToStart => DefaultsInv')
  <1>1. CASE UNCHANGED attachmentVars
    BY <1>1 DEF attachmentVars, AttachmentsInv, AttachmentTypes, OneInit, Initialized, Attaching,
       DefaultsInv, Initializing, SessionOpen
  <1>2. CASE \E t \in {main} : A!Custom_add(t) \/ A!Custom_clear(t) \/ A!Add(t) \/ A!Clear(t)
                              \/ A!Push_back(t) \/ A!Add_default_attachments(t)
    BY <1>2, CustomAttaches, AddAttaches, ClearAttaches, PushAttaches, AddDefaultsAttaches
  <1> QED
    BY <1>1, <1>2, InitSDKAttaches, CallbackReturnsAttaches, StartAttaches, DrainAttaches, CloseAttaches
       DEF A!Next

LEMMA AttachmentsInvSuffices ==
    ASSUME AttachmentsInv
    PROVE  /\ A!TypeOK /\ A!AttachmentsKept /\ A!ClearReachesAll
           /\ DefaultsInv => A!DefaultsOnce
  <1>1. A!TypeOK
    BY DEF AttachmentsInv, AttachmentTypes, Initialized, Initializing, A!TypeOK
  <1>2. A!AtRest => SessionOpen /\ pending[main] = A!Idle
    BY DEF A!AtRest, SessionOpen
  <1>3. A!AtRest => scope.users = UsersOf(wanted) /\ (backend = "native" => user_attachments = wanted)
    BY <1>2, Kinds DEF AttachmentsInv, Attaching
  <1>4. A!AttachmentsKept
    BY <1>3 DEF A!AttachmentsKept, UsersOf
  <1>5. A!ClearReachesAll
    BY <1>3, AllAttached DEF A!ClearReachesAll, AttachmentsInv, AttachmentTypes
  <1>6. DefaultsInv => A!DefaultsOnce
    BY <1>2, Kinds DEF DefaultsInv, A!DefaultsOnce
  <1> QED
    BY <1>1, <1>4, <1>5, <1>6

LEMMA AttachmentsStand ==
    SessionSpec => [](part = "attachments" => AttachmentsInv)
  <1> DEFINE here == part = "attachments"
  <1>1. SessionInit => (here => AttachmentsInv)
    BY AttachmentsBegin DEF SessionInit
  <1>2. (here => AttachmentsInv) /\ [SessionNext]_sessionVars => (here => AttachmentsInv)'
    <2>1. here /\ [SessionNext]_sessionVars => [A!Next]_attachmentVars
      BY DEF SessionNext, SettingsStep, LayersStep, AttachmentsStep, FilesStep, sessionVars
    <2> QED
      BY <2>1, PartStays, AttachmentsStay
  <1> QED
    BY <1>1, <1>2, PTL DEF SessionSpec

(* On every backend, whichever of them may fail to start, an event of the  *)
(* user's session has each attachment that was added and not cleared       *)
(* since, once; and clear_attachments() of the native backend reaches all  *)
(* that its scope has (SentrySDK::add_attachment(), user_attachments).     *)
THEOREM UsersAttachmentsAreKept ==
    SessionSpec => [](part = "attachments" => A!AttachmentsKept /\ A!ClearReachesAll)
  <1>1. (part = "attachments" => AttachmentsInv)
          => (part = "attachments" => A!AttachmentsKept /\ A!ClearReachesAll)
    BY AttachmentsInvSuffices
  <1> QED
    BY <1>1, AttachmentsStand, PTL

(* The default attachments are there too, each once, provided that the     *)
(* Android SDK starts: it adds them to the global scope before it starts   *)
(* (AndroidSDK::init()), so a failed init() leaves them there and the next *)
(* one would add them again.                                               *)
THEOREM SessionKeepsAttachments ==
    ASSUME "android" \notin MayFailToStart
    PROVE  SessionSpec => []AttachmentsKept
  <1> DEFINE here == part = "attachments"
             Inv == AttachmentsInv /\ DefaultsInv
  <1>1. SessionInit => (here => Inv)
    BY AttachmentsBegin DEF SessionInit
  <1>2. (here => Inv) /\ [SessionNext]_sessionVars => (here => Inv)'
    <2>1. here /\ [SessionNext]_sessionVars => [A!Next]_attachmentVars
      BY DEF SessionNext, SettingsStep, LayersStep, AttachmentsStep, FilesStep, sessionVars
    <2> QED
      BY <2>1, PartStays, AttachmentsStay
  <1>3. (here => Inv) => AttachmentsKept
    BY AttachmentsInvSuffices DEF AttachmentsKept
  <1> QED
    BY <1>1, <1>2, <1>3, PTL DEF SessionSpec

=============================================================================
