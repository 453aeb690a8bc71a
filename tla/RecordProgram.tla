--------------------------- MODULE RecordProgram ---------------------------
(***************************************************************************)
(* A program that calls the setters of one record.  What they do is up to  *)
(* the backend, whose record is obj.                                       *)
(***************************************************************************)
EXTENDS Records

CONSTANTS
    Made(_),           \* the records of a kind that are new, or made by the backend's SDK
    WithText(_, _, _, _), WithLevel(_, _, _),
    WithTag(_, _, _), WithoutTag(_, _), WithUser(_, _), WithoutUser(_), WithFingerprint(_, _),
    WithContext(_, _, _), WithMerged(_, _, _), WithData(_, _),
    ExceptionCount(_), WithException(_, _, _), WithExceptionValue(_, _, _),
    WithAttribute(_, _, _), WithAttributes(_, _), WithoutAttribute(_, _)

VARIABLES kind, program, call, obj

vars == <<kind, program, call, obj>>

Init ==
    /\ kind \in Kinds /\ program \in Programs /\ call = None
    /\ obj \in Made(kind)

Sets(setter, c, new) ==
    /\ setter \in program \cap Setters(kind)
    /\ call' = c
    /\ obj' = new
    /\ UNCHANGED <<kind, program>>

SetText == \E f \in Field(kind), t \in Text :
    Sets("texts", <<"text", f, t>>, WithText(kind, obj, f, t))
SetLevel == \E l \in Level \cup {NoLevel} : Sets("level", <<"level", l>>, WithLevel(kind, obj, l))
SetTag == \E k \in Key, t \in Text : Sets("tags", <<"tag", k, t>>, WithTag(obj, k, t))
RemoveTag == \E k \in Key : Sets("tags", <<"no tag", k>>, WithoutTag(obj, k))
SetUser == \E u \in User : Sets("user", <<"user", u>>, WithUser(obj, u))
RemoveUser == Sets("user", <<"no user">>, WithoutUser(obj))
SetFingerprint == \E fp \in Fingerprint :
    Sets("fingerprint", <<"fingerprint", fp>>, WithFingerprint(obj, fp))
SetContext == \E k \in Key, d \in Dict : Sets("contexts", <<"context", k, d>>, WithContext(obj, k, d))
MergeContext == \E k \in Key, d \in Dict : Sets("contexts", <<"merge", k, d>>, WithMerged(obj, k, d))
SetData == \E d \in Dict : Sets("data", <<"data", d>>, WithData(obj, d))
AddException == \E t \in Text, fs \in {Frames, NoFrames} :
    /\ ExceptionCount(obj) < MaxExceptions
    /\ Sets("exceptions", <<"exception", t, fs>>, WithException(obj, t, fs))
SetExceptionValue == \E i \in 0..MaxExceptions, t \in Text :
    Sets("exceptions", <<"exception value", i, t>>, WithExceptionValue(obj, i, t))
SetAttribute == \E k \in Key, v \in Variant :
    Sets("attributes", <<"attribute", k, v>>, WithAttribute(obj, k, v))
AddAttributes == \E a \in Partial(Key, Added) :
    Sets("attributes", <<"attributes", a>>, WithAttributes(obj, a))
RemoveAttribute == \E k \in Key : Sets("attributes", <<"no attribute", k>>, WithoutAttribute(obj, k))

Next ==
    \/ SetText \/ SetLevel \/ SetTag \/ RemoveTag \/ SetUser \/ RemoveUser \/ SetFingerprint
    \/ SetContext \/ MergeContext \/ SetData \/ AddException \/ SetExceptionValue
    \/ SetAttribute \/ AddAttributes \/ RemoveAttribute

Spec == Init /\ [][Next]_vars
=============================================================================
