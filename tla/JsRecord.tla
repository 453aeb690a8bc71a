----------------------------- MODULE JsRecord -----------------------------
(***************************************************************************)
(* Records of the Web backend: JavaScript objects that the bridge reads    *)
(* and writes.                                                             *)
(***************************************************************************)
EXTENDS Records

VARIABLES kind, program, call, obj

(***************************************************************************)
(* Setters, as functions of the object o                                   *)
(***************************************************************************)
SetOrRemoveString(o, key, t) == IF t = Empty THEN Drop(o, key) ELSE Put(o, key, t)

EventText(o, field, t) == SetOrRemoveString(o, field, t)
CrumbText(o, field, t) == SetOrRemoveString(o, field, t)
LogBody(o, t) == SetOrRemoveString(o, "message", t)
MetricText(o, field, t) == Put(o, field, t)

WithText(of, o, field, t) ==
    CASE of = "event" -> EventText(o, field, t)
      [] of = "breadcrumb" -> CrumbText(o, field, t)
      [] of = "log" -> LogBody(o, t)
      [] of = "metric" -> MetricText(o, field, t)

\* The message of an event that the SDK made may be an object.
GetMessage(o) ==
    LET message == GetOr(o, "message", Empty)
    IN  IF message \in Text THEN message ELSE message["formatted"]

TextOf(of, o, field) ==
    CASE of = "event" /\ field = "message" -> GetMessage(o)
      [] of = "log" -> GetOr(o, "message", Empty)
      [] OTHER -> GetOr(o, field, Empty)

\* What is no level is stored under a name that is read as the default.
LevelAsCString(l) == IF l \in Level THEN l ELSE "unknown"
LogLevelAsCString(l) == IF l \in Level THEN l ELSE "unknown"
LevelFromString(s, default) == IF s \in Level THEN s ELSE default
LogLevelFromString(s, default) == IF s \in Level THEN s ELSE default

WithLevel(of, o, l) == Put(o, "level", IF of = "log" THEN LogLevelAsCString(l) ELSE LevelAsCString(l))
EventLevel(o) == LevelFromString(GetOr(o, "level", "unknown"), Error)
CrumbLevel(o) == LevelFromString(GetOr(o, "level", "unknown"), Info)
LogLevel(o) == LogLevelFromString(GetOr(o, "level", "unknown"), Info)
LevelOf(of, o) ==
    CASE of = "event" -> EventLevel(o) [] of = "log" -> LogLevel(o) [] OTHER -> CrumbLevel(o)

GetOrCreate(o, key) == GetOr(o, key, None)

WithTag(o, k, t) == Put(o, "tags", Put(GetOrCreate(o, "tags"), k, t))
WithoutTag(o, k) == IF "tags" \in DOMAIN o THEN Put(o, "tags", Drop(o["tags"], k)) ELSE o
TagOf(o, k) == GetOr(GetOr(o, "tags", None), k, Empty)

MakeUser(user) == Given(user)
WithUser(o, user) == Put(o, "user", MakeUser(user))
WithoutUser(o) == Drop(o, "user")
WithFingerprint(o, fp) == IF fp = <<>> THEN Drop(o, "fingerprint") ELSE Put(o, "fingerprint", fp)

WithContext(o, k, d) ==
    IF k = EmptyKey THEN o ELSE Put(o, "contexts", Put(GetOrCreate(o, "contexts"), k, d))

\* Object.assign: what is new wins.
Assign(target, source) == source @@ target
\* A context under the empty key can be merged, but not set.
WithMerged(o, k, d) ==
    LET contexts == GetOrCreate(o, "contexts")
    IN  Put(o, "contexts", Put(contexts, k, Assign(GetOrCreate(contexts, k), d)))

WithData(o, d) == IF d = None THEN Drop(o, "data") ELSE Put(o, "data", Assign(None, d))

Listed(o, list) == GetOr(GetOr(o, list, None), "values", <<>>)
Push(o, list, x) == Put(o, list, Put(GetOrCreate(o, list), "values", Append(Listed(o, list), x)))

ExceptionCount(o) == Len(Listed(o, "exception"))
WithException(o, t, fs) ==
    Push(IF fs = NoFrames THEN o ELSE Push(o, "threads", fs), "exception", "value" :> t)

WithExceptionValue(o, index, t) ==
    IF index >= ExceptionCount(o) THEN o
    ELSE LET values == Listed(o, "exception")
         IN  Put(o, "exception", Put(o["exception"], "values", [values EXCEPT ![index + 1] = Put(@, "value", t)]))
ValueOf(o, index) ==
    IF index >= ExceptionCount(o) THEN Empty
    ELSE GetOr(Listed(o, "exception")[index + 1], "value", Empty)

(***************************************************************************)
(* Attributes are set as primitive values; the SDK may have stored objects *)
(* of a value and its type.                                                *)
(***************************************************************************)
Typed == [value : {Number, OtherText}]

Attributes(o) == GetOr(o, "attributes", None)
WithAttribute(o, k, v) == Put(o, "attributes", Put(GetOrCreate(o, "attributes"), k, Plain(v)))
\* One attribute after the other.
WithAttributes(o, added) ==
    IF added = None THEN o
    ELSE Put(o, "attributes", [k \in DOMAIN added |-> Plain(added[k])] @@ GetOrCreate(o, "attributes"))
WithoutAttribute(o, k) ==
    IF "attributes" \in DOMAIN o THEN Put(o, "attributes", Drop(o["attributes"], k)) ELSE o
AttributeOf(o, k) ==
    LET stored == Get(Attributes(o), k)
    IN  IF stored \in Typed THEN stored.value ELSE stored

(***************************************************************************)
(* New records, and those that the JavaScript SDK made, with what is read  *)
(* and sent of them                                                        *)
(***************************************************************************)
Made(of) ==
    CASE of = "event" ->
           {None} \cup {[message |-> m, contexts |-> (k :> d)] : k \in Key \ {EmptyKey}, d \in Dict,
                            m \in (Text \ {Empty}) \cup {[formatted |-> t] : t \in Text}}
      [] of = "breadcrumb" -> {None}
      [] of = "log" -> {[message |-> t, level |-> l, attributes |-> (k :> a)] :
                            t \in Text \ {Empty}, l \in Level, k \in Key \ {EmptyKey}, a \in Typed}
      [] of = "metric" -> {[name |-> t] : t \in Text}

P == INSTANCE RecordProgram
Spec == P!Spec

Seen ==
    [texts |-> [f \in Field(kind) |-> TextOf(kind, obj, f)],
     level |-> LevelOf(kind, obj),
     tags |-> [k \in DOMAIN GetOr(obj, "tags", None) |-> TagOf(obj, k)],
     user |-> Get(obj, "user"),
     fingerprint |-> GetOr(obj, "fingerprint", <<>>),
     contexts |-> [k \in Key |-> GetOr(GetOr(obj, "contexts", None), k, None)],
     data |-> GetOr(obj, "data", None),
     values |-> [i \in 1..ExceptionCount(obj) |-> ValueOf(obj, i - 1)],
     stacks |-> Listed(obj, "threads"),
     crash |-> FALSE,
     attributes |-> [k \in DOMAIN Attributes(obj) |-> AttributeOf(obj, k)]]

R == INSTANCE AbstractRecord WITH seen <- Seen

\* What was set on a record of the Web backend is what is read and sent, also of
\* events whose message is an object and of logs whose attributes have types, as
\* the JavaScript SDK makes them.
ImplementsRecord == R!Spec
=============================================================================
