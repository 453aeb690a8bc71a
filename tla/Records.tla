------------------------------ MODULE Records ------------------------------
(***************************************************************************)
(* What programs pass to the setters of events, breadcrumbs, logs and      *)
(* metrics, and partial functions, which backends keep properties in.      *)
(***************************************************************************)
EXTENDS Naturals, Sequences, TLC

CONSTANTS
    Kinds,             \* kinds of record in a run
    Programs,          \* bound: groups of setters that a program uses together
    Text, Empty,       \* Empty is the empty string
    Level, Info, Error, NoLevel,   \* NoLevel is an integer that is no level
    UserField,
    Key, EmptyKey,     \* keys of tags and contexts, names of attributes
    Prop, Value,       \* properties of contexts and data
    Number, Other, OtherText,      \* attribute values: Other is of a type that becomes a text
    Added,             \* the attribute values that are added together
    Frames, NoFrames,
    Null,
    MaxExceptions      \* bound

RecordsAssumption ==
    /\ Kinds \subseteq {"event", "breadcrumb", "log", "metric"}
    /\ Empty \in Text /\ EmptyKey \in Key /\ {Info, Error} \subseteq Level
    /\ NoLevel \notin Level /\ Null \notin Text \cup Level \cup Value
    /\ Added \subseteq {Number, Other} /\ MaxExceptions \in Nat

Put(f, k, v) == (k :> v) @@ f
Drop(f, k) == [x \in DOMAIN f \ {k} |-> f[x]]
Get(f, k) == IF k \in DOMAIN f THEN f[k] ELSE Null
GetOr(f, k, default) == IF k \in DOMAIN f THEN f[k] ELSE default
None == <<>>       \* the function that is nowhere defined

Partial(S, T) == UNION {[D -> T] : D \in SUBSET S}

\* "logger" stands for logger, release, dist and environment, "category" for category and type.
Field(kind) == CASE kind = "event" -> {"message", "logger"}
                 [] kind = "breadcrumb" -> {"message", "category"}
                 [] kind = "log" -> {"body"}
                 [] kind = "metric" -> {"name", "unit"}

Setters(kind) ==
    CASE kind = "event" -> {"texts", "level", "tags", "user", "fingerprint", "contexts", "exceptions"}
      [] kind = "breadcrumb" -> {"texts", "level", "data"}
      [] kind = "log" -> {"texts", "level", "attributes"}
      [] kind = "metric" -> {"texts", "attributes"}

Dict == Partial(Prop, Value)
User == [UserField -> Text]
Fingerprint == {<<>>} \cup {<<t>> : t \in Text}
Variant == {Number, Other}
Plain(v) == IF v = Other THEN OtherText ELSE v

\* The fields of a user that are not empty.
Given(user) == [x \in {y \in UserField : user[y] # Empty} |-> user[x]]

Plains(attributes) == [k \in DOMAIN attributes |-> Plain(attributes[k])]
=============================================================================
