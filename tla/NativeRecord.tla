---------------------------- MODULE NativeRecord ----------------------------
(***************************************************************************)
(* Records of the native backend: values of sentry-native, which are       *)
(* objects of named values.  "isCrash" is the wrapper's own flag.           *)
(***************************************************************************)
EXTENDS Records

VARIABLES kind, program, call, obj

(***************************************************************************)
(* Setters, as functions of the object o                                   *)
(***************************************************************************)
SetOrRemoveString(o, key, t) == IF t = Empty THEN Drop(o, key) ELSE Put(o, key, t)

\* A message is an object that holds the formatted one.
SetMessage(o, t) ==
    IF t = Empty THEN Drop(o, "message") ELSE Put(o, "message", Put(GetOr(o, "message", None), "formatted", t))
GetMessage(o) == GetOr(GetOr(o, "message", None), "formatted", Empty)

EventString(o, field, t) == SetOrRemoveString(o, field, t)
SetCrumbText(o, field, t) == SetOrRemoveString(o, field, t)
SetBody(o, t) == Put(o, "body", t)
SetName(o, field, t) == Put(o, field, t)

WithText(of, o, field, t) ==
    CASE of = "event" /\ field = "message" -> SetMessage(o, t)
      [] of = "event" /\ field # "message" -> EventString(o, field, t)
      [] of = "breadcrumb" -> SetCrumbText(o, field, t)
      [] of = "log" -> SetBody(o, t)
      [] of = "metric" -> SetName(o, field, t)

TextOf(of, o, field) == IF of = "event" /\ field = "message" THEN GetMessage(o) ELSE GetOr(o, field, Empty)

LevelString(l) == IF l \in Level THEN l ELSE Error
\* A log keeps its level when the new one is none.
SetLogLevel(o, l) == IF l \in Level THEN Put(o, "level", l) ELSE o
WithLevel(of, o, l) == IF of = "log" THEN SetLogLevel(o, l) ELSE Put(o, "level", LevelString(l))
LevelOf(of, o) == GetOr(o, "level", IF of = "event" THEN Error ELSE Info)

WithTag(o, k, t) == IF k = EmptyKey THEN o ELSE Put(o, "tags", Put(GetOr(o, "tags", None), k, t))
WithoutTag(o, k) ==
    IF k = EmptyKey \/ "tags" \notin DOMAIN o THEN o ELSE Put(o, "tags", Drop(o["tags"], k))
TagOf(o, k) == IF k = EmptyKey THEN Empty ELSE GetOr(GetOr(o, "tags", None), k, Empty)

WithUser(o, user) == Put(o, "user", Given(user))
WithoutUser(o) == Drop(o, "user")
WithFingerprint(o, fp) == IF fp = <<>> THEN Drop(o, "fingerprint") ELSE Put(o, "fingerprint", fp)

Contexts(o) == GetOr(o, "contexts", None)
WithContext(o, k, d) == IF k = EmptyKey THEN o ELSE Put(o, "contexts", Put(Contexts(o), k, d))
\* A context that exists is changed in place.
WithMerged(o, k, d) ==
    IF k = EmptyKey \/ d = None THEN o
    ELSE Put(o, "contexts", Put(Contexts(o), k, d @@ GetOr(Contexts(o), k, None)))

WithData(o, d) == Put(o, "data", d)

Listed(o, list) == GetOr(GetOr(o, list, None), "values", <<>>)
Appended(o, list, x) == Put(o, list, Put(GetOr(o, list, None), "values", Append(Listed(o, list), x)))

ExceptionCount(o) == Len(Listed(o, "exception"))

\* The thread has a stack trace even if it has no frames.
WithException(o, t, fs) ==
    Appended(Appended(o, "threads", fs), "exception", "value" :> t)

WithExceptionValue(o, index, t) ==
    IF index >= ExceptionCount(o) THEN o
    ELSE LET values == Listed(o, "exception")
         IN  Put(o, "exception", Put(o["exception"], "values", [values EXCEPT ![index + 1] = Put(@, "value", t)]))
ValueOf(o, index) ==
    IF index >= ExceptionCount(o) THEN Empty
    ELSE GetOr(Listed(o, "exception")[index + 1], "value", Empty)

(***************************************************************************)
(* Attributes: objects of a value and its type                             *)
(***************************************************************************)
TypeOf(v) == IF v = Number THEN "integer" ELSE "string"
Attribute(v) == [value |-> Plain(v), type |-> TypeOf(v)]

Attributes(o) == GetOr(o, "attributes", None)
WithAttribute(o, k, v) ==
    IF k = EmptyKey THEN o ELSE Put(o, "attributes", Put(Attributes(o), k, Attribute(v)))
WithAttributes(o, added) ==
    Put(o, "attributes", [k \in DOMAIN added |-> Attribute(added[k])] @@ Attributes(o))
WithoutAttribute(o, k) ==
    IF "attributes" \in DOMAIN o THEN Put(o, "attributes", Drop(o["attributes"], k)) ELSE o
AttributeOf(o, k) ==
    IF k \in DOMAIN Attributes(o) /\ Attributes(o)[k].type \in {"boolean", "integer", "double", "string"}
    THEN Attributes(o)[k].value
    ELSE Null

(***************************************************************************)
(* New records, and those that sentry-native made, with what is read and   *)
(* sent of them                                                            *)
(***************************************************************************)
Made(of) ==
    CASE of = "event" ->
           {None} \cup {[message |-> [formatted |-> t], contexts |-> (k :> d), isCrash |-> TRUE] :
                            t \in Text, k \in Key \ {EmptyKey}, d \in Dict}
      [] of = "breadcrumb" -> {None}
      [] of = "log" -> {[body |-> t, level |-> l] : t \in Text, l \in Level}
      [] of = "metric" -> {[name |-> t] : t \in Text}

P == INSTANCE RecordProgram
Spec == P!Spec

Seen ==
    [texts |-> [f \in Field(kind) |-> TextOf(kind, obj, f)],
     level |-> LevelOf(kind, obj),
     tags |-> [k \in DOMAIN GetOr(obj, "tags", None) |-> TagOf(obj, k)],
     user |-> Get(obj, "user"),
     fingerprint |-> GetOr(obj, "fingerprint", <<>>),
     contexts |-> [k \in Key |-> GetOr(Contexts(obj), k, None)],
     data |-> GetOr(obj, "data", None),
     values |-> [i \in 1..ExceptionCount(obj) |-> ValueOf(obj, i - 1)],
     stacks |-> SelectSeq(Listed(obj, "threads"), LAMBDA fs : fs = Frames),
     crash |-> GetOr(obj, "isCrash", FALSE),
     attributes |-> [k \in DOMAIN Attributes(obj) |-> AttributeOf(obj, k)]]

R == INSTANCE AbstractRecord WITH seen <- Seen

\* What was set on a native record is what is read and sent: each setter of the
\* sentry-native classes changes its own property, also of records that
\* sentry-native made, and leaves all others.
ImplementsRecord == R!Spec
=============================================================================
