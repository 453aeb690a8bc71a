---------------------------- MODULE MCJsonWriter ----------------------------
(* Attributes for TLC: numbers, those that are not finite among them, and  *)
(* texts.                                                                  *)
EXTENDS JsonWriter

Float(token) == [type |-> "float", token |-> token, text |-> token]
AllFloats == {Float("1.5"), Float("nan"), Float("inf"), [type |-> "string", text |-> "hello"]}
=============================================================================
