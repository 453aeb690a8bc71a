-------------------------------- MODULE Json --------------------------------
(***************************************************************************)
(* A reader of JSON: what a sequence of tokens describes, or Malformed.    *)
(* Tokens are strings; every string that is neither punctuation nor one of *)
(* the words of C++ that JSON does not have stands for a scalar or a name. *)
(***************************************************************************)
EXTENDS Integers, Sequences, TLC

Punctuation == {"{", "}", "[", "]", ",", ":"}
NotJson == {"nan", "inf"}

Scalar(token) == [kind |-> "scalar", token |-> token]
Array(items) == [kind |-> "array", items |-> items]
Object(fields) == [kind |-> "object", fields |-> fields]
Malformed == [kind |-> "malformed"]
NoFields == [name \in {} |-> Malformed]

At(s, i) == IF i <= Len(s) THEN s[i] ELSE "end"
Is_scalar(token) == token \notin Punctuation \cup NotJson \cup {"end"}
Failed == [value |-> Malformed, next |-> 0]

RECURSIVE Value(_, _), Items(_, _, _), Members(_, _, _)

\* The value that starts at i, and where the text goes on
Value(s, i) ==
    CASE At(s, i) = "[" -> IF At(s, i + 1) = "]" THEN [value |-> Array(<<>>), next |-> i + 2]
                           ELSE Items(s, i + 1, <<>>)
      [] At(s, i) = "{" -> IF At(s, i + 1) = "}" THEN [value |-> Object(NoFields), next |-> i + 2]
                           ELSE Members(s, i + 1, NoFields)
      [] Is_scalar(At(s, i)) -> [value |-> Scalar(s[i]), next |-> i + 1]
      [] OTHER -> Failed

Items(s, i, before) ==
    LET v == Value(s, i)
        items == Append(before, v.value)
    IN CASE v = Failed -> Failed
         [] At(s, v.next) = "]" -> [value |-> Array(items), next |-> v.next + 1]
         [] At(s, v.next) = "," -> Items(s, v.next + 1, items)
         [] OTHER -> Failed

\* The last of several members of one name counts.
Members(s, i, before) ==
    IF ~Is_scalar(At(s, i)) \/ At(s, i + 1) # ":" THEN Failed
    ELSE LET v == Value(s, i + 2)
             fields == (s[i] :> v.value) @@ before
         IN CASE v = Failed -> Failed
              [] At(s, v.next) = "}" -> [value |-> Object(fields), next |-> v.next + 1]
              [] At(s, v.next) = "," -> Members(s, v.next + 1, fields)
              [] OTHER -> Failed

Parse(s) ==
    LET v == Value(s, 1)
    IN IF v # Failed /\ v.next = Len(s) + 1 THEN v.value ELSE Malformed
=============================================================================
