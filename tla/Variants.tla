------------------------------ MODULE Variants ------------------------------
(***************************************************************************)
(* The conversion of Godot's variants for the platforms' SDKs              *)
(* (variant_to_sentry_value(), variant_to_objc(), sanitize_variant()), and *)
(* variant_from_objc(), which reads the values of the Cocoa SDK back.      *)
(* Arrays and dictionaries are references, so they may hold themselves:    *)
(* the conversion stops at a depth (common_defs.h).                        *)
(***************************************************************************)
EXTENDS Integers, Sequences

CONSTANTS
    Platforms,         \* of "native", "cocoa", "android"
    Containers,        \* identities of arrays and dictionaries
    Leaves,            \* types of other values
    Keys,              \* of dictionaries
    VARIANT_CONVERSION_MAX_DEPTH,
    MaxItems           \* bound of the exploration

VariantsAssumption ==
    /\ Platforms \subseteq {"native", "cocoa", "android"}
    /\ Leaves \subseteq {"nil", "bool", "int", "float", "string", "vector", "object"}
    /\ VARIANT_CONVERSION_MAX_DEPTH \in Nat /\ MaxItems \in 0..3

VARIABLES
    platform,
    heap,              \* the type of each container and its items, with their keys
    root,              \* the container that is converted
    result, read       \* what comes out, and what Cocoa's reads back as

vars == <<platform, heap, root, result, read>>

Values == Leaves \cup Containers
Index == <<"0", "1", "2">>
Arrays == {[kind |-> "array", items |-> [k \in DOMAIN s |-> <<Index[k], s[k]>>]] :
               s \in UNION {[1..n -> Values] : n \in 0..MaxItems}}
Dictionaries == {[kind |-> "dictionary", items |-> s] :
                     s \in {s \in UNION {[1..n -> Keys \X Values] : n \in 0..MaxItems} :
                                \A i, j \in DOMAIN s : s[i][1] = s[j][1] => i = j}}

\* A key may be an integer, of which the name is also a key.
Stringify(kind, key) == IF kind = "dictionary" /\ key = "1 as an int" THEN "1" ELSE key

\* The later of two items of one name replaces the earlier one.
Entries(c) ==
    LET Name(i) == Stringify(heap[c].kind, heap[c].items[i][1])
    IN {<<Name(i), heap[c].items[i][2]>> :
            i \in {i \in DOMAIN heap[c].items : \A j \in DOMAIN heap[c].items : j > i => Name(j) # Name(i)}}

(***************************************************************************)
(* The conversions.  A result is the set of its parts, each with the path  *)
(* that leads to it and its type.                                          *)
(***************************************************************************)
Sent(type) == IF type \in {"vector", "object"} THEN "string" ELSE type

TooDeep_Early(depth) == depth >= VARIANT_CONVERSION_MAX_DEPTH
TooDeep(depth) == depth > VARIANT_CONVERSION_MAX_DEPTH

\* "{...}" or "[...]", and null on Android
Placeholder == IF platform = "android" THEN "nil" ELSE "string"

RECURSIVE Converted(_, _)
Converted(value, depth) ==
    IF value \in Leaves THEN {<< <<>>, Sent(value) >>}
    ELSE IF TooDeep(depth) THEN {<< <<>>, Placeholder >>}
    ELSE {<< <<>>, heap[value].kind >>}
         \cup UNION {{<< <<e[1]>> \o part[1], part[2] >> : part \in Converted(e[2], depth + 1)} :
                        e \in Entries(value)}

\* NSNumber knows the types of C only.
ObjCType == [bool |-> "char", int |-> "long long", float |-> "double"]
Read_number(encoding) ==
    CASE encoding \in {"bool", "char"} -> "bool"
      [] encoding \in {"double", "float"} -> "float"
      [] encoding \in {"int", "long long"} -> "int"
      [] OTHER -> "nil"
From_objc(type) == IF type \in DOMAIN ObjCType THEN Read_number(ObjCType[type]) ELSE type

Init ==
    /\ platform \in Platforms
    /\ heap \in [Containers -> Arrays \cup Dictionaries]
    /\ root \in Containers
    /\ result = {} /\ read = {}

Convert ==
    /\ result = {}
    /\ result' = Converted(root, 0)
    /\ UNCHANGED <<platform, heap, root, read>>

Variant_from_objc ==
    /\ result # {} /\ read = {} /\ platform = "cocoa"
    /\ read' = {<<part[1], From_objc(part[2])>> : part \in result}
    /\ UNCHANGED <<platform, heap, root, result>>

Next == Convert \/ Variant_from_objc

Spec == Init /\ [][Next]_vars

(***************************************************************************)
(* Properties                                                              *)
(***************************************************************************)
TypeOK ==
    \A part \in result \cup read :
        /\ Len(part[1]) <= VARIANT_CONVERSION_MAX_DEPTH + 1
        /\ part[2] \in {"nil", "bool", "int", "float", "string", "array", "dictionary"}

\* What the paths of a length lead to
RECURSIVE Level(_)
Level(n) ==
    IF n = 0 THEN {<< <<>>, root >>}
    ELSE UNION {{<<Append(p[1], e[1]), e[2]>> : e \in Entries(p[2])} :
                   p \in {p \in Level(n - 1) : p[2] \in Containers}}

TypeAt(value, depth) ==
    IF value \in Leaves THEN Sent(value)
    ELSE IF depth <= VARIANT_CONVERSION_MAX_DEPTH THEN heap[value].kind ELSE Placeholder

\* Every value that a path within the depth leads to is there, also where data
\* hold themselves, and nothing else (variant_to_sentry_value(), variant_to_objc(),
\* sanitize_variant()).
ConvertsToDepth ==
    result # {} =>
        result = UNION {{<<p[1], TypeAt(p[2], n)>> : p \in Level(n)} : n \in 0..VARIANT_CONVERSION_MAX_DEPTH + 1}

\* What Cocoa keeps reads back with the types it was given (variant_from_objc()).
ReadsBack == read # {} => read = result
=============================================================================
