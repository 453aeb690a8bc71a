--------------------------- MODULE AbstractRecord ---------------------------
(***************************************************************************)
(* Events, breadcrumbs, logs and metrics as the public classes describe    *)
(* them: what a setter was called with is what is read and sent, and no    *)
(* setter touches anything else.                                           *)
(***************************************************************************)
EXTENDS Records

VARIABLES kind, program, call, seen

vars == <<kind, program, call, seen>>

Init ==
    /\ kind \in Kinds /\ program \in Programs /\ call = None
    /\ DOMAIN seen = {"texts", "level", "tags", "user", "fingerprint", "contexts", "data",
                      "values", "stacks", "crash", "attributes"}
    /\ seen.texts \in [Field(kind) -> Text] /\ seen.level \in Level

Sees(c, new) == call' = c /\ seen' = new /\ UNCHANGED <<kind, program>>

\* A setter may refuse an empty key.
SeesAt(k, c, new) == Sees(c, new) \/ (k = EmptyKey /\ Sees(c, seen))

SetText == \E f \in Field(kind), t \in Text : Sees(<<"text", f, t>>, [seen EXCEPT !.texts[f] = t])
\* An integer that is no level leaves some level.
SetLevel == \E l \in Level \cup {NoLevel} : \E now \in IF l = NoLevel THEN Level ELSE {l} :
    Sees(<<"level", l>>, [seen EXCEPT !.level = now])
SetTag == \E k \in Key, t \in Text : SeesAt(k, <<"tag", k, t>>, [seen EXCEPT !.tags = Put(@, k, t)])
RemoveTag == \E k \in Key : SeesAt(k, <<"no tag", k>>, [seen EXCEPT !.tags = Drop(@, k)])
SetUser == \E u \in User : Sees(<<"user", u>>, [seen EXCEPT !.user = Given(u)])
RemoveUser == Sees(<<"no user">>, [seen EXCEPT !.user = Null])
SetFingerprint == \E fp \in Fingerprint : Sees(<<"fingerprint", fp>>, [seen EXCEPT !.fingerprint = fp])
SetContext == \E k \in Key, d \in Dict : SeesAt(k, <<"context", k, d>>, [seen EXCEPT !.contexts[k] = d])
MergeContext == \E k \in Key, d \in Dict :
    SeesAt(k, <<"merge", k, d>>, [seen EXCEPT !.contexts[k] = d @@ @])
SetData == \E d \in Dict : Sees(<<"data", d>>, [seen EXCEPT !.data = d])

\* The stack traces of exceptions belong to threads; there is none without frames.
AddException == \E t \in Text, fs \in {Frames, NoFrames} :
    Sees(<<"exception", t, fs>>,
         [seen EXCEPT !.values = Append(@, t),
                      !.stacks = IF fs = Frames THEN Append(@, fs) ELSE @])
SetExceptionValue == \E i \in 0..MaxExceptions, t \in Text :
    Sees(<<"exception value", i, t>>,
         IF i < Len(seen.values) THEN [seen EXCEPT !.values[i + 1] = t] ELSE seen)

SetAttribute == \E k \in Key, v \in Variant :
    SeesAt(k, <<"attribute", k, v>>, [seen EXCEPT !.attributes = Put(@, k, Plain(v))])
RemoveAttribute == \E k \in Key :
    Sees(<<"no attribute", k>>, [seen EXCEPT !.attributes = Drop(@, k)])
AddAttributes == \E a \in Partial(Key, Added) :
    Sees(<<"attributes", a>>, [seen EXCEPT !.attributes = Plains(a) @@ @])

Next ==
    \/ SetText \/ SetLevel \/ SetTag \/ RemoveTag \/ SetUser \/ RemoveUser \/ SetFingerprint
    \/ SetContext \/ MergeContext \/ SetData \/ AddException \/ SetExceptionValue
    \/ SetAttribute \/ RemoveAttribute \/ AddAttributes

Spec == Init /\ [][Next]_vars
=============================================================================
