--------------------------- MODULE AndroidRecord ---------------------------
(***************************************************************************)
(* Records of the Android backend: Java objects that the plugin reads and  *)
(* writes.  A property that is null is not in the domain.                  *)
(***************************************************************************)
EXTENDS Records, FiniteSets

CONSTANT Garbled       \* the text of the Java object that an unknown type of value becomes

VARIABLES kind, program, call, obj

(***************************************************************************)
(* Setters, as functions of the object o                                   *)
(***************************************************************************)
EventText(o, field, t) == Put(o, field, t)
CrumbText(o, field, t) == Put(o, field, t)
LogBody(o, t) == Put(o, "body", t)
MetricText(o, field, t) == Put(o, field, t)

WithText(of, o, field, t) ==
    CASE of = "event" -> EventText(o, field, t)
      [] of = "breadcrumb" -> CrumbText(o, field, t)
      [] of = "log" -> LogBody(o, t)
      [] of = "metric" -> MetricText(o, field, t)
TextOf(o, field) == GetOr(o, field, Empty)

ToSentryLevel(l) == IF l \in Level THEN l ELSE Error
ToSentryLogLevel(l) == IF l \in Level THEN l ELSE Info
WithLevel(of, o, l) == Put(o, "level", IF of = "log" THEN ToSentryLogLevel(l) ELSE ToSentryLevel(l))
LevelOf(of, o) == GetOr(o, "level", IF of = "event" THEN Error ELSE Info)

Tags(o) == GetOr(o, "tags", None)
WithTag(o, k, t) == Put(o, "tags", Put(Tags(o), k, t))
WithoutTag(o, k) == Put(o, "tags", Drop(Tags(o), k))

WithUser(o, user) == Put(o, "user", Given(user))
WithoutUser(o) == Drop(o, "user")
WithFingerprint(o, fp) == IF fp = <<>> THEN Drop(o, "fingerprint") ELSE Put(o, "fingerprint", fp)

(***************************************************************************)
(* Contexts: dictionaries of the engine, other maps, and objects with      *)
(* typed fields that hold the properties they do not know beside them.     *)
(***************************************************************************)
Dictionary(d) == [form |-> "dictionary", is |-> d, unknown |-> None]

Contexts(o) == GetOr(o, "contexts", None)
WithContext(o, k, d) ==
    IF k = EmptyKey THEN o ELSE Put(o, "contexts", Put(Contexts(o), k, Dictionary(d)))

\* What is new wins in each form; the properties of a map that the new ones
\* lack are copied to them.
Merged_MapWins(existing, d) ==
    CASE existing.form = "dictionary" -> Dictionary(d @@ existing.is)
      [] existing.form = "typed" -> [existing EXCEPT !.unknown = d @@ @]
      [] existing.form = "map" -> Dictionary(existing.is @@ d)
Merged(existing, d) ==
    CASE existing.form = "dictionary" -> Dictionary(d @@ existing.is)
      [] existing.form = "typed" -> [existing EXCEPT !.unknown = d @@ @]
      [] existing.form = "map" ->
           Dictionary([p \in DOMAIN existing.is \ DOMAIN d |-> existing.is[p]] @@ d)
WithMerged(o, k, d) ==
    IF k = EmptyKey THEN o
    ELSE Put(o, "contexts", Put(Contexts(o), k,
             IF k \in DOMAIN Contexts(o) THEN Merged(Contexts(o)[k], d) ELSE Dictionary(d)))

\* Unknown properties are written after the fields.
Written(context) == context.unknown @@ context.is

\* The data of a breadcrumb are cleared and filled.
WithData(o, d) == Put(o, "data", d)

Exceptions(o) == GetOr(o, "exceptions", <<>>)
ExceptionCount(o) == Len(Exceptions(o))
AddException(o, t) == Put(o, "exceptions", Append(Exceptions(o), [value |-> t, handled |-> TRUE]))
AddThreadStackTrace(o, fs) == Put(o, "threads", Append(GetOr(o, "threads", <<>>), fs))
WithException(o, t, fs) == AddThreadStackTrace(AddException(o, t), fs)
WithExceptionValue(o, index, t) ==
    IF index >= ExceptionCount(o) THEN o
    ELSE Put(o, "exceptions", [Exceptions(o) EXCEPT ![index + 1].value = t])
ValueOf(o, index) ==
    IF index >= ExceptionCount(o) THEN Empty ELSE Exceptions(o)[index + 1].value
IsCrash(o) == \E i \in 1..ExceptionCount(o) : ~Exceptions(o)[i].handled

(***************************************************************************)
(* Attributes: set_attribute makes texts of unknown types, add_attributes  *)
(* leaves that to Java, where their values do not arrive.                  *)
(***************************************************************************)
JavaText(v) == IF v = Other THEN Garbled ELSE v

Attributes(o) == GetOr(o, "attributes", None)
WithAttribute(o, k, v) == Put(o, "attributes", Put(Attributes(o), k, Plain(v)))
WithAttributes(o, added) ==
    Put(o, "attributes", [k \in DOMAIN added |-> JavaText(added[k])] @@ Attributes(o))
WithoutAttribute(o, k) ==
    IF "attributes" \in DOMAIN o THEN Put(o, "attributes", Drop(o["attributes"], k)) ELSE o
AttributeOf(o, k) == Get(Attributes(o), k)

(***************************************************************************)
(* New records, and those that the Android SDK made, with what is read and *)
(* sent of them                                                            *)
(***************************************************************************)
Made(of) ==
    CASE of = "event" ->
           {None} \cup {[message |-> t, threads |-> <<Frames>>, contexts |-> (k :> c),
                         exceptions |-> <<[value |-> t, handled |-> FALSE]>>] :
                            t \in Text \ {Empty}, k \in Key \ {EmptyKey},
                            c \in [form : {"map", "typed"}, is : {d \in Dict : Cardinality(DOMAIN d) = 1}, unknown : {None}]}
      [] of = "breadcrumb" -> {None}
      [] of = "log" -> {[body |-> t, level |-> l] : t \in Text, l \in Level}
      [] of = "metric" -> {[name |-> t] : t \in Text}

P == INSTANCE RecordProgram
Spec == P!Spec

Seen ==
    [texts |-> [f \in Field(kind) |-> TextOf(obj, f)],
     level |-> LevelOf(kind, obj),
     tags |-> Tags(obj),
     user |-> Get(obj, "user"),
     fingerprint |-> GetOr(obj, "fingerprint", <<>>),
     contexts |-> [k \in Key |-> IF k \in DOMAIN Contexts(obj) THEN Written(Contexts(obj)[k]) ELSE None],
     data |-> GetOr(obj, "data", None),
     values |-> [i \in 1..ExceptionCount(obj) |-> ValueOf(obj, i - 1)],
     stacks |-> SelectSeq(GetOr(obj, "threads", <<>>), LAMBDA fs : fs = Frames),
     crash |-> IsCrash(obj),
     attributes |-> [k \in DOMAIN Attributes(obj) |-> AttributeOf(obj, k)]]

R == INSTANCE AbstractRecord WITH seen <- Seen

\* What was set on a record of the Android backend is what is read and sent: a
\* merge lets the new properties win over a context that is a dictionary, a map
\* or an object of the Android SDK, and leaves its others.
ImplementsRecord == R!Spec
=============================================================================
