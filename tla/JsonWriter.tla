----------------------------- MODULE JsonWriter -----------------------------
(***************************************************************************)
(* JSONWriter (src/src/sentry/util/json_writer.h), and the two texts that  *)
(* the Web backend has it write: the attributes of a log or a metric, and  *)
(* the thread of an exception with its stack frames.  The bridge parses    *)
(* the text; of one that does not parse it takes nothing.  Variants are    *)
(* finite here: an array that holds itself has no end in the code either.  *)
(***************************************************************************)
EXTENDS Json, SequencesExt

CONSTANTS
    Names,         \* of attributes and variables; "" is the empty one
    Variants,      \* their values
    Programs,      \* of "attributes", "thread"
    MaxVars, MaxFrames  \* bounds of the exploration: variables of all frames together

JsonWriterAssumption == MaxVars \in Nat /\ MaxFrames \in Nat

VARIABLES
    program,
    given,         \* the frames of the thread; attributes are the variables of one
    todo,          \* calls of the writer that are yet to come
    json, needs_comma,
    received       \* what the bridge has, Malformed before

vars == <<program, given, todo, json, needs_comma, received>>

(***************************************************************************)
(* The calls                                                               *)
(***************************************************************************)
Begin(open) == [op |-> "begin", token |-> open]
End(close) == [op |-> "end", token |-> close]
Key(name) == [op |-> "key", token |-> name]
Token(token) == [op |-> "value", token |-> token]
Variant(v) == [op |-> "variant", variant |-> v]
Enclosed(calls, open, close) == <<Begin(open)>> \o calls \o <<End(close)>>

\* Of a variant: arrays and packed arrays as arrays, other types as texts
Value_variant(v) ==
    CASE v.type = "array" -> Enclosed([i \in DOMAIN v.items |-> Variant(v.items[i])], "[", "]")
      [] v.type = "packed" -> Enclosed([i \in DOMAIN v.items |-> Token(v.items[i])], "[", "]")
      [] v.type = "float" -> <<Token(v.token)>>
      [] OTHER -> <<Token(v.text)>>

\* Attributes know no arrays, and none has an empty name.
Attribute_value(v) == IF v.type = "float" THEN <<Token(v.token)>> ELSE <<Token(v.text)>>
Attribute(pair) == IF pair[1] = "" THEN <<>> ELSE <<Key(pair[1])>> \o Attribute_value(pair[2])
Kv_variant(pair) == <<Key(pair[1]), Variant(pair[2])>>
Attributes(pairs) == FlattenSeq([i \in DOMAIN pairs |-> Attribute(pairs[i])])
Locals(pairs) == FlattenSeq([i \in DOMAIN pairs |-> Kv_variant(pairs[i])])

Frame(frame) ==
    Enclosed(<<Key("function"), Token("f")>>
          \o (IF frame.lineno THEN <<Key("lineno"), Token("1")>> ELSE <<>>)
          \o (IF frame.context THEN <<Key("pre_context")>> \o Enclosed(<<Token("a"), Token("b")>>, "[", "]")
              ELSE <<>>)
          \o (IF frame.vars # <<>> THEN <<Key("vars")>> \o Enclosed(Locals(frame.vars), "{", "}")
              ELSE <<>>), "{", "}")

Write_stacktrace_json(frames) ==
    <<Key("stacktrace")>>
    \o Enclosed(<<Key("frames")>> \o Enclosed(FlattenSeq([i \in DOMAIN frames |-> Frame(frames[i])]), "[", "]"), "{", "}")

Calls(p, frames) ==
    IF p = "attributes" THEN Enclosed(Attributes(frames[1].vars), "{", "}")
    ELSE Enclosed(<<Key("id"), Token("1"), Key("crashed"), Token("true")>>
               \o Write_stacktrace_json(frames), "{", "}")

(***************************************************************************)
(* The writer                                                              *)
(***************************************************************************)
VarSets == UNION {[1..n -> Names \X Variants] : n \in 0..MaxVars}
Distinct(pairs) == \A i, j \in DOMAIN pairs : pairs[i][1] = pairs[j][1] => i = j
Frames == [lineno : BOOLEAN, context : BOOLEAN, vars : VarSets]

\* Without attributes or frames nothing is written.
Init ==
    /\ program \in Programs
    /\ given \in UNION {[1..n -> Frames] : n \in 1..MaxFrames}
    /\ FoldSeq(LAMBDA f, n : n + Len(f.vars), 0, given) <= MaxVars
    /\ program = "attributes" => Len(given) = 1 /\ given[1].vars # <<>>
                                 /\ ~given[1].lineno /\ ~given[1].context /\ Distinct(given[1].vars)
    /\ todo = Calls(program, given)
    /\ json = <<>> /\ needs_comma = FALSE
    /\ received = Malformed

Comma == IF needs_comma THEN <<",">> ELSE <<>>

BeginContainer ==
    /\ todo # <<>> /\ Head(todo).op = "begin"
    /\ json' = json \o Comma \o <<Head(todo).token>> /\ needs_comma' = FALSE
    /\ todo' = Tail(todo) /\ UNCHANGED <<program, given, received>>

After_end == TRUE
EndContainer ==
    /\ todo # <<>> /\ Head(todo).op = "end"
    /\ json' = Append(json, Head(todo).token) /\ needs_comma' = After_end
    /\ todo' = Tail(todo) /\ UNCHANGED <<program, given, received>>

WriteKey ==
    /\ todo # <<>> /\ Head(todo).op = "key"
    /\ json' = json \o Comma \o <<Head(todo).token, ":">> /\ needs_comma' = FALSE
    /\ todo' = Tail(todo) /\ UNCHANGED <<program, given, received>>

WriteValue ==
    /\ todo # <<>> /\ Head(todo).op = "value"
    /\ json' = json \o Comma \o <<Head(todo).token>> /\ needs_comma' = TRUE
    /\ todo' = Tail(todo) /\ UNCHANGED <<program, given, received>>

WriteVariant ==
    /\ todo # <<>> /\ Head(todo).op = "variant"
    /\ todo' = Value_variant(Head(todo).variant) \o Tail(todo)
    /\ UNCHANGED <<program, given, json, needs_comma, received>>

\* safeParseJSON() has an empty object for a text that does not parse; a thread
\* is not pushed then.
Fallback == Object(NoFields)
SafeParse == LET value == Parse(json) IN IF value = Malformed THEN Fallback ELSE value
Receive ==
    /\ todo = <<>> /\ received = Malformed
    /\ received' = SafeParse
    /\ UNCHANGED <<program, given, todo, json, needs_comma>>

Next == BeginContainer \/ EndContainer \/ WriteKey \/ WriteValue \/ WriteVariant \/ Receive

Spec == Init /\ [][Next]_vars

(***************************************************************************)
(* Properties                                                              *)
(***************************************************************************)
TypeOK ==
    /\ needs_comma = (json # <<>> /\ Last(json) \notin {"[", "{", ":"})
    /\ received.kind \in {"object", "malformed"}
    /\ received # Malformed => todo = <<>>

RECURSIVE Described(_)
Described(v) ==
    CASE v.type = "array" -> Array([i \in DOMAIN v.items |-> Described(v.items[i])])
      [] v.type = "packed" -> Array([i \in DOMAIN v.items |-> Scalar(v.items[i])])
      [] v.type = "float" -> Scalar(v.token)
      [] OTHER -> Scalar(v.text)

Named(pairs) == {i \in DOMAIN pairs : pairs[i][1] # ""}

\* Each attribute with a name arrives under it: numbers as they are, every other
\* type as a text (attributes_to_json(), safeParseJSON()).
AttributesArrive ==
    (received # Malformed /\ program = "attributes") =>
        LET pairs == given[1].vars
            Arrived(v) == IF v.type = "float" THEN Scalar(v.token) ELSE Scalar(v.text)
        IN received.fields = [n \in {pairs[i][1] : i \in Named(pairs)} |->
                                 LET i == CHOOSE j \in DOMAIN pairs : pairs[j][1] = n
                                 IN Arrived(pairs[i][2])]

\* A thread arrives with all frames of its stack in order, and each frame with
\* its variables, of those of one name the outermost, as locals come first and
\* globals last (JavaScriptEvent::add_exception()).
FramesArrive ==
    (received # Malformed /\ program = "thread") =>
        LET frames == received.fields["stacktrace"].fields["frames"].items
            Vars(f) == IF "vars" \in DOMAIN f.fields THEN f.fields["vars"].fields ELSE NoFields
        IN /\ Len(frames) = Len(given)
           /\ \A k \in DOMAIN given : \A i \in DOMAIN given[k].vars :
                  LET pair == given[k].vars[i]
                  IN \/ Vars(frames[k])[pair[1]] = Described(pair[2])
                     \/ \E j \in DOMAIN given[k].vars : j > i /\ given[k].vars[j][1] = pair[1]
           /\ \A k \in DOMAIN given :
                  /\ DOMAIN Vars(frames[k]) = {given[k].vars[i][1] : i \in DOMAIN given[k].vars}
                  /\ "lineno" \in DOMAIN frames[k].fields <=> given[k].lineno

=============================================================================
