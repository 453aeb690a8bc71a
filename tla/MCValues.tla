------------------------------ MODULE MCValues ------------------------------
(***************************************************************************)
(* The conversions of values for TLC: timestamps, values of JavaScript,    *)
(* Godot's variants, numbers of metrics, and the two writers of JSON.      *)
(* They share nothing; part chooses the one that a behaviour is about, and *)
(* the others stay as they began.                                          *)
(***************************************************************************)
EXTENDS Integers, Sequences, TLC

CONSTANTS main, null, empty, s1, noType

VARIABLES
    part,
    \* Timestamps
    backend, timestamp, text, event, kept, call,
    \* JsValues
    alive, prop, value, meant, wanted, jsCall,
    \* Variants
    platform, heap, root, result, read,
    \* Metrics
    metricBackend, enabled, at, metric, metricCall,
    \* JsonWriter
    program, given, todo, json, needs_comma, received,
    \* ViewHierarchy
    ready, scene, stage, stack, hierarchy, buffer, estimated_buffer_size, file, sent, events

timeVars == <<backend, timestamp, text, event, kept, call>>
jsVars == <<alive, prop, value, meant, wanted, jsCall>>
variantVars == <<platform, heap, root, result, read>>
metricVars == <<metricBackend, enabled, at, metric, metricCall>>
writerVars == <<program, given, todo, json, needs_comma, received>>
treeVars == <<ready, scene, stage, stack, hierarchy, buffer, estimated_buffer_size, file, sent,
              events>>
vars == <<part, timeVars, jsVars, variantVars, metricVars, writerVars, treeVars>>

-----------------------------------------------------------------------------
(***************************************************************************)
(* The instances.                                                          *)
(***************************************************************************)
\* Fractions are binary, with four microseconds to a second.
Day == 24 * 3600
T == INSTANCE Timestamps WITH
    Base <- 2, MicroDigits <- 2, NanoDigits <- 3,
    Moments <- (-9..9) \cup {4 * Day * 59 - 1, 4 * Day * 59, 4 * Day * 790 + 5, -4 * Day * 306 - 3},
    Dates <- {<<1968, 2, 29>>, <<1969, 2, 29>>, <<1969, 12, 31>>, <<1970, 1, 1>>, <<1970, 4, 31>>,
              <<1971, 3, 1>>, <<1972, 12, 31>>, <<1970, 13, 1>>},
    Times <- {<<0, 0, 0>>, <<23, 59, 59>>, <<12, 60, 0>>, <<24, 0, 0>>},
    Fractions <- {<<>>, <<1>>, <<0, 1>>, <<1, 0>>, <<1, 1, 1>>, <<1, 0, 1, 1>>},
    Zones <- {"Z", "none", <<1, 1, 30>>, <<-1, 0, 1>>}, Null <- null,
    Backends <- {"native", "javascript", "android", "cocoa"}

\* Integers have five bits and doubles three digits.
J == INSTANCE JsValues WITH
    Bits <- 5, Precision <- 3, Ints <- {-16, -9, -8, -7, -1, 0, 1, 7, 8, 9, 15},
    Doubles <- (-3)..3 \cup {-128, -64, -14, 7, 14, 28, 32, 40, 64, 112},
    Strings <- {empty, s1}, ByteArrays <- {<<>>, <<1>>, <<0, 1>>}, MaxElements <- 2,
    Empty <- empty, call <- jsCall

V == INSTANCE Variants WITH
    Platforms <- {"native", "cocoa", "android"}, Containers <- {"c1", "c2"},
    Leaves <- {"bool", "int", "vector"}, Keys <- {"1", "1 as an int", "b"},
    VARIANT_CONVERSION_MAX_DEPTH <- 2, MaxItems <- 2

\* -1.5, -1, 0, 0.5 and 2
M == INSTANCE Metrics WITH
    Halves <- {-3, -2, 0, 1, 4}, NoType <- noType,
    Backends <- {"native", "javascript", "android", "cocoa"}, backend <- metricBackend, call <- metricCall

Float(token) == [type |-> "float", token |-> token, text |-> token]
Packed(items) == [type |-> "packed", items |-> items, text |-> "packed"]
Nested(items) == [type |-> "array", items |-> items, text |-> "array"]
Text(t) == [type |-> "string", text |-> t]
W == INSTANCE JsonWriter WITH
    Names <- {"", "a", "b"}, Programs <- {"attributes", "thread"}, MaxVars <- 2, MaxFrames <- 2,
    Variants <- {Float("1.5"), Text("hello"), Packed(<<"1", "2">>), Nested(<<>>),
                 Nested(<<Nested(<<Float("2.5")>>), Text("inner"), Packed(<<>>)>>)}

\* Every character has four bytes; the first buffer is too small for most of the trees.
\* Any of the nodes may be instanced, with a script (2 and 3) and without (1 and 4).
H == INSTANCE ViewHierarchy WITH
    Main <- main, Workers <- {}, NameLengths <- {7}, CharBytes <- {4}, Estimate <- 64,
    Scripted <- {2, 3}, MaxNodes <- 4, MaxEvents <- 2

ASSUME ValuesAssumption ==
    /\ T!TimestampsAssumption /\ J!JsValuesAssumption /\ V!VariantsAssumption
    /\ M!MetricsAssumption /\ W!JsonWriterAssumption /\ H!ViewHierarchyAssumption

-----------------------------------------------------------------------------
(***************************************************************************)
(* Behaviours of one part each.                                            *)
(***************************************************************************)
TimeInit == IF part = "times" THEN T!Init ELSE T!Init /\ backend = "native"
VariantInit ==
    IF part = "variants" THEN V!Init
    ELSE /\ platform = "native" /\ root = "c1" /\ result = {} /\ read = {}
         /\ heap = [c \in {"c1", "c2"} |-> [kind |-> "array", items |-> <<>>]]
MetricInit == IF part = "metrics" THEN M!Init ELSE M!Init /\ metricBackend = "native" /\ ~enabled
WriterInit ==
    IF part = "writer" THEN W!Init
    ELSE /\ program = "thread" /\ given = <<>> /\ todo = <<>> /\ json = <<>>
         /\ needs_comma = FALSE /\ received = [kind |-> "malformed"]
TreeInit ==
    IF part = "tree" THEN H!Init
    ELSE /\ ready = FALSE /\ scene = [nodes |-> 0] /\ stage = [t \in {main} |-> "idle"]
         /\ stack = <<>> /\ hierarchy = <<>> /\ estimated_buffer_size = 64
         /\ buffer = [doc |-> <<>>, used |-> 0, capacity |-> 0, overrun |-> FALSE]
         /\ file = H!Nothing /\ sent = H!Nothing /\ events = 0

Init ==
    /\ part \in {"times", "script", "variants", "metrics", "writer", "tree"}
    /\ TimeInit /\ J!Init /\ VariantInit /\ MetricInit /\ WriterInit /\ TreeInit

TimeStep ==
    /\ part = "times" /\ T!Next
    /\ UNCHANGED <<part, jsVars, variantVars, metricVars, writerVars, treeVars>>
ScriptStep ==
    /\ part = "script" /\ J!Next
    /\ UNCHANGED <<part, timeVars, variantVars, metricVars, writerVars, treeVars>>
VariantStep ==
    /\ part = "variants" /\ V!Next
    /\ UNCHANGED <<part, timeVars, jsVars, metricVars, writerVars, treeVars>>
MetricStep ==
    /\ part = "metrics" /\ M!Next
    /\ UNCHANGED <<part, timeVars, jsVars, variantVars, writerVars, treeVars>>
WriterStep ==
    /\ part = "writer" /\ W!Next
    /\ UNCHANGED <<part, timeVars, jsVars, variantVars, metricVars, treeVars>>
TreeStep ==
    /\ part = "tree" /\ H!Next
    /\ UNCHANGED <<part, timeVars, jsVars, variantVars, metricVars, writerVars>>

Next == TimeStep \/ ScriptStep \/ VariantStep \/ MetricStep \/ WriterStep \/ TreeStep

Spec == Init /\ [][Next]_vars

-----------------------------------------------------------------------------
(***************************************************************************)
(* Properties.                                                             *)
(***************************************************************************)
\* A text of RFC 3339 gives the instant that it names, a timestamp is written as a text that names
\* it, and an event of every backend reads back the timestamp it was given.
TimesKept == part = "times" => T!TypeOK /\ T!ParsesInstant /\ T!WritesInstant /\ T!EventKeepsTime

\* A value reads back as what it was: a property of JavaScript up to the widths of the numbers, a
\* variant that Cocoa keeps with its type, of a variant that holds itself all that is within the
\* depth, and a metric that is sent as an integer with nothing lost.
ValuesReadBack ==
    /\ part = "script" => J!TypeOK /\ J!ReadsBack
    /\ part = "variants" => V!TypeOK /\ V!ConvertsToDepth /\ V!ReadsBack
    /\ part = "metrics" => M!TypeOK /\ M!IntegersAreWhole

\* What a handler sets of a metric in whichever order is what it reads, up to what a counter
\* holds, and an array of JavaScript keeps its elements when it is asked for again.
ChangesKept == M!ReadsBack /\ J!ElementsKept

\* What the writers of JSON wrote is read as what they were given: attributes, the frames of a
\* thread with their variables, and every node of a scene in its place, in a buffer that is
\* large enough.
TextsDescribe ==
    /\ part = "writer" => W!TypeOK /\ W!AttributesArrive /\ W!FramesArrive
    /\ part = "tree" => H!TypeOK /\ H!DescribesScene /\ H!BufferFits /\ H!SentWhole
=============================================================================
