---------------------------- MODULE CocoaRecord ----------------------------
(***************************************************************************)
(* Records of the Apple backend: Objective-C objects.  A property that is  *)
(* nil is not in the domain.  Collections are copied, changed and assigned.*)
(***************************************************************************)
EXTENDS Records

VARIABLES kind, program, call, obj

(***************************************************************************)
(* Setters, as functions of the object o                                   *)
(***************************************************************************)
OrNilIfEmpty(o, property, t) == IF t = Empty THEN Drop(o, property) ELSE Put(o, property, t)

EventText(o, field, t) == OrNilIfEmpty(o, field, t)
CrumbText(o, field, t) == OrNilIfEmpty(o, field, t)
LogBody(o, t) == Put(o, "body", t)
MetricText(o, field, t) == IF field = "unit" THEN OrNilIfEmpty(o, field, t) ELSE Put(o, field, t)

WithText(of, o, field, t) ==
    CASE of = "event" -> EventText(o, field, t)
      [] of = "breadcrumb" -> CrumbText(o, field, t)
      [] of = "log" -> LogBody(o, t)
      [] of = "metric" -> MetricText(o, field, t)
TextOf(o, field) == GetOr(o, field, Empty)

ToObjc(l) == IF l \in Level THEN l ELSE Error
LogToObjc(l) == IF l \in Level THEN l ELSE Info
WithLevel(of, o, l) == Put(o, "level", IF of = "log" THEN LogToObjc(l) ELSE ToObjc(l))
\* The level of a new event is none.
LevelOf(o) == GetOr(o, "level", Error)

\* Dictionaries without entries become nil.
OrNil(o, property, dictionary) ==
    IF dictionary = None THEN Drop(o, property) ELSE Put(o, property, dictionary)

Tags(o) == GetOr(o, "tags", None)
WithTag(o, k, t) == IF k = EmptyKey THEN o ELSE Put(o, "tags", Put(Tags(o), k, t))
WithoutTag(o, k) == IF k = EmptyKey THEN o ELSE OrNil(o, "tags", Drop(Tags(o), k))
TagOf(o, k) == IF k = EmptyKey THEN Empty ELSE GetOr(Tags(o), k, Empty)

WithUser(o, user) == Put(o, "user", Given(user))
WithoutUser(o) == Drop(o, "user")
WithFingerprint(o, fp) == IF fp = <<>> THEN Drop(o, "fingerprint") ELSE Put(o, "fingerprint", fp)

Contexts(o) == GetOr(o, "context", None)
WithContext(o, k, d) == IF k = EmptyKey THEN o ELSE Put(o, "context", Put(Contexts(o), k, d))
WithMerged(o, k, d) ==
    IF k = EmptyKey \/ d = None THEN o
    ELSE Put(o, "context",
             Put(Contexts(o), k,
                 IF k \in DOMAIN Contexts(o) THEN d @@ Contexts(o)[k] ELSE d))

WithData(o, d) == Put(o, "data", d)

Exceptions(o) == GetOr(o, "exceptions", <<>>)
ExceptionCount(o) == Len(Exceptions(o))
\* The thread has a stack trace even if it has no frames.
WithException(o, t, fs) ==
    Put(Put(o, "threads", Append(GetOr(o, "threads", <<>>), fs)),
        "exceptions", Append(Exceptions(o), [value |-> t, mechanism |-> FALSE]))
WithExceptionValue(o, index, t) ==
    IF index >= ExceptionCount(o) THEN o
    ELSE Put(o, "exceptions", [Exceptions(o) EXCEPT ![index + 1].value = t])
ValueOf(o, index) ==
    IF index >= ExceptionCount(o) THEN Empty ELSE Exceptions(o)[index + 1].value

\* A crash is told by the mechanism of an exception.
IsCrash(o) == \E i \in 1..ExceptionCount(o) : Exceptions(o)[i].mechanism

Attributes(o) == GetOr(o, "attributes", None)
Content(v) == Plain(v)
WithAttribute(o, k, v) == Put(o, "attributes", Put(Attributes(o), k, Content(v)))
WithAttributes(o, added) ==
    IF added = None THEN o
    ELSE Put(o, "attributes", [k \in DOMAIN added |-> Content(added[k])] @@ Attributes(o))
WithoutAttribute(o, k) == OrNil(o, "attributes", Drop(Attributes(o), k))
AttributeOf(o, k) == Get(Attributes(o), k)

(***************************************************************************)
(* New records, and those that Sentry Cocoa made, with what is read and    *)
(* sent of them                                                            *)
(***************************************************************************)
Made(of) ==
    CASE of = "event" ->
           {None} \cup {[message |-> t, context |-> (k :> d), threads |-> <<Frames>>,
                         exceptions |-> <<[value |-> t, mechanism |-> TRUE]>>] :
                            t \in Text \ {Empty}, k \in Key \ {EmptyKey}, d \in Dict}
      [] of = "breadcrumb" -> {[level |-> Info]}
      [] of = "log" -> {[body |-> t, level |-> l] : t \in Text, l \in Level}
      [] of = "metric" -> {[name |-> t] : t \in Text}

P == INSTANCE RecordProgram
Spec == P!Spec

Seen ==
    [texts |-> [f \in Field(kind) |-> TextOf(obj, f)],
     level |-> LevelOf(obj),
     tags |-> [k \in DOMAIN Tags(obj) |-> TagOf(obj, k)],
     user |-> Get(obj, "user"),
     fingerprint |-> GetOr(obj, "fingerprint", <<>>),
     contexts |-> [k \in Key |-> GetOr(Contexts(obj), k, None)],
     data |-> GetOr(obj, "data", None),
     values |-> [i \in 1..ExceptionCount(obj) |-> ValueOf(obj, i - 1)],
     stacks |-> SelectSeq(GetOr(obj, "threads", <<>>), LAMBDA fs : fs = Frames),
     crash |-> IsCrash(obj),
     attributes |-> [k \in DOMAIN Attributes(obj) |-> AttributeOf(obj, k)]]

R == INSTANCE AbstractRecord WITH seen <- Seen

\* What was set on a record of the Apple backend is what is read and sent;
\* whether an event is a crash does not change with the exceptions that are added.
ImplementsRecord == R!Spec
=============================================================================
