------------------------------ MODULE JsValues ------------------------------
(***************************************************************************)
(* Values that cross between C++ and JavaScript: a property of a           *)
(* JavaScript object is set, read, deleted and replaced through JSObject,  *)
(* and a method of the bridge returns what it is given.  Numbers are       *)
(* counted in halves; the widths of an int64_t and of the digits of a      *)
(* double are parameters.                                                  *)
(***************************************************************************)
EXTENDS Integers, Sequences

CONSTANTS
    Bits,              \* 64: of an int64_t
    Precision,         \* 53: of the digits of a double
    Ints, Doubles,     \* bound: numbers of C++, doubles in halves
    Strings,           \* bound: texts, the empty one among them
    ByteArrays,        \* bound: sequences of bytes, the empty one among them
    MaxElements,       \* bound: of an array
    Empty              \* the empty text

JsValuesAssumption ==
    /\ Bits \in Nat \ {0} /\ Precision \in 1..(Bits - 1)
    /\ Empty \in Strings /\ <<>> \in ByteArrays

VARIABLES
    alive, prop,       \* the object, and its property
    value,             \* the JSValue that was read last
    meant, wanted,     \* what the property was set to, and what value stands for
    call

vars == <<alive, prop, value, meant, wanted, call>>

Half == 2 ^ (Bits - 1)
Magnitude(n) == IF n < 0 THEN -n ELSE n
\* An int64_t holds the last bits of a BigInt.
Wrapped(i) == ((i + Half) % (2 * Half)) - Half
\* The nearest double, of two as near the even one.
Nearest(h) ==
    LET m == Magnitude(h)
        unit == 2 ^ (CHOOSE e \in 0..(2 * Bits) : m < 2 ^ (Precision + e)
                                                  /\ \A f \in 0..(e - 1) : m >= 2 ^ (Precision + f))
        q == m \div unit
        up == 2 * (m % unit) > unit \/ (2 * (m % unit) = unit /\ q % 2 = 1)
        n == unit * (IF up THEN q + 1 ELSE q)
    IN  IF h < 0 THEN -n ELSE n

(***************************************************************************)
(* Values of both sides: a tag and the data                                *)
(***************************************************************************)
Undefined == <<"undefined">>
JsNull == <<"null">>
Nil == <<"NIL">>
NewObject == <<"object", "Object">>
NewArray == <<"array", <<>>>>

\* JSObject::_store and the switch on the type in object_set and call_method
Marshalled(v) ==
    CASE v[1] = "NIL" -> JsNull
      [] v[1] = "BOOL" -> <<"boolean", v[2]>>
      [] v[1] = "INT" -> <<"number", Nearest(2 * v[2])>>
      [] v[1] = "DOUBLE" -> <<"number", v[2]>>
      [] v[1] = "STRING" -> <<"string", v[2]>>
      [] v[1] = "BYTES" -> IF v[2] = <<>> THEN JsNull ELSE <<"bytes", v[2]>>

\* object_get and call_method, and _unmarshal_return_value
Unmarshalled(js) ==
    CASE js[1] \in {"undefined", "null"} -> Nil
      [] js[1] = "boolean" -> <<"BOOL", js[2]>>
      [] js[1] = "number" /\ js[2] % 2 = 0 -> <<"INT", Wrapped(js[2] \div 2)>>
      [] js[1] = "number" /\ js[2] % 2 = 1 -> <<"DOUBLE", js[2]>>
      [] js[1] = "string" -> <<"STRING", js[2]>>
      [] js[1] = "bytes" -> <<"BYTES", js[2]>>
      [] js[1] \in {"object", "array"} -> <<"OBJECT", js>>

(***************************************************************************)
(* What a JSValue gives as each type                                       *)
(***************************************************************************)
AsBool(v) == IF v[1] = "BOOL" THEN v[2] ELSE FALSE
AsInt(v) ==
    CASE v[1] = "INT" -> v[2]
      [] v[1] = "DOUBLE" -> IF v[2] < 0 THEN -((-v[2]) \div 2) ELSE v[2] \div 2
      [] OTHER -> 0
AsDouble(v) ==
    CASE v[1] = "DOUBLE" -> v[2]
      [] v[1] = "INT" -> Nearest(2 * v[2])
      [] OTHER -> 0
AsString(v) == IF v[1] = "STRING" THEN v[2] ELSE Empty
AsBytes(v) == IF v[1] = "BYTES" THEN v[2] ELSE <<>>
HasObject(v) == v[1] = "OBJECT"

(***************************************************************************)
(* The property of a JavaScript object                                     *)
(***************************************************************************)
Arguments ==
    {Nil} \cup ({"BOOL"} \X BOOLEAN) \cup ({"INT"} \X Ints) \cup ({"DOUBLE"} \X Doubles)
    \cup ({"STRING"} \X Strings) \cup ({"BYTES"} \X ByteArrays)
\* Texts of JSON, as the values they describe
Parseable == {JsNull, <<"boolean", TRUE>>, <<"number", 3>>, NewObject, NewArray}

Init == alive = TRUE /\ prop = Undefined /\ value = Nil /\ meant = Nil /\ wanted = Nil /\ call = "none"

\* An object that is no longer in the store is left alone, with a message.
Change(js, v, c) ==
    /\ prop' = IF alive THEN js ELSE prop
    /\ meant' = IF alive THEN v ELSE meant
    /\ call' = c
    /\ UNCHANGED <<alive, value, wanted>>

SetProperty == \E v \in Arguments : Change(Marshalled(v), v, "set")
SetOrRemoveString == \E s \in Strings :
    LET v == <<"STRING", s>>
    IN  Change(IF s = Empty THEN Undefined ELSE Marshalled(v), v, "set")
DeleteProperty == Change(Undefined, Nil, "set")
\* What cannot be parsed is an error, and changes nothing.
SetPropertyFromJson == \E js \in Parseable \cup {Undefined} :
    Change(IF js = Undefined THEN prop ELSE js, IF js = Undefined THEN meant ELSE Unmarshalled(js), "set")

GetProperty ==
    /\ value' = IF alive THEN Unmarshalled(prop) ELSE Nil
    /\ wanted' = meant /\ call' = "get"
    /\ UNCHANGED <<alive, prop, meant>>

\* A method of the bridge that returns what it is given
CallMethod == \E v \in Arguments :
    /\ value' = IF alive THEN Unmarshalled(Marshalled(v)) ELSE Nil
    /\ wanted' = v /\ call' = "call"
    /\ UNCHANGED <<alive, prop, meant>>

GetOrCreate_Always(js) == Change(js, <<"OBJECT", js>>, "create")
GetOrCreate(js) ==
    LET kept == HasObject(Unmarshalled(prop))
    IN  Change(IF kept THEN prop ELSE js, <<"OBJECT", IF kept THEN prop ELSE js>>, "create")
GetOrCreateObjectProperty == GetOrCreate(NewObject)
GetOrCreateArrayProperty == GetOrCreate(NewArray)

\* Only an array can take an element, and it takes no null.
PushElementFromJson == \E js \in Parseable \cup {Undefined} :
    /\ call = "create" /\ HasObject(Unmarshalled(prop))
    /\ LET takes == prop[1] = "array" /\ js \notin {Undefined, JsNull}
           grown == IF takes THEN <<"array", Append(prop[2], js[1])>> ELSE prop
       IN  /\ takes => Len(prop[2]) < MaxElements
           /\ Change(grown, <<"OBJECT", grown>>, "push")

\* Another handle of the same id releases the object.
Release ==
    /\ alive /\ alive' = FALSE
    /\ call' = "release"
    /\ UNCHANGED <<prop, value, meant, wanted>>

Next ==
    \/ SetProperty \/ SetOrRemoveString \/ DeleteProperty \/ SetPropertyFromJson
    \/ GetProperty \/ CallMethod
    \/ GetOrCreateObjectProperty \/ GetOrCreateArrayProperty \/ PushElementFromJson
    \/ Release

Spec == Init /\ [][Next]_vars

(***************************************************************************)
(* Properties                                                              *)
(***************************************************************************)
TypeOK ==
    /\ prop[1] \in {"undefined", "null", "boolean", "number", "string", "bytes", "object", "array"}
    /\ prop[1] = "number" => Nearest(prop[2]) = prop[2]
    /\ value[1] = "INT" => value[2] \in (-Half)..(Half - 1)

\* A value of C++ that is set or passed is read back as the type it has: whole
\* numbers up to the precision of a double, and doubles up to the range of an
\* int64_t (JSObject::set, get and call, JSValue::as_*).
ReadsBack ==
    call \in {"get", "call"} /\ alive =>
      CASE wanted[1] = "BOOL" -> AsBool(value) = wanted[2]
        [] wanted[1] = "INT" -> Magnitude(wanted[2]) <= 2 ^ Precision => AsInt(value) = wanted[2]
        [] wanted[1] = "DOUBLE" -> Magnitude(wanted[2]) < 2 * Half => AsDouble(value) = wanted[2]
        [] wanted[1] = "STRING" -> AsString(value) = wanted[2]
        [] wanted[1] = "BYTES" -> AsBytes(value) = wanted[2]
        [] wanted[1] = "OBJECT" -> value = wanted
        [] wanted[1] = "NIL" -> value = Nil

\* An array or object that is asked for is the one there is, and an array keeps
\* its elements (get_or_create_*_property, push_element_from_json).
ElementsKept ==
    [][call' \in {"create", "push"} /\ prop[1] = "array" =>
         /\ prop'[1] = "array"
         /\ SubSeq(prop'[2], 1, Len(prop[2])) = prop[2]]_vars
=============================================================================
