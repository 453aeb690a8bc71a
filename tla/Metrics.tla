------------------------------ MODULE Metrics ------------------------------
(***************************************************************************)
(* Metrics: SentryMetrics emits one, the backend makes an object of it, a  *)
(* before_send_metric handler may change its type and value in any order,  *)
(* and it is sent.  Numbers are counted in halves, so that not all are     *)
(* whole.                                                                  *)
(***************************************************************************)
EXTENDS Integers

CONSTANTS
    Backends,          \* of native, javascript, android, cocoa
    Halves,            \* bound: the values of programs, in halves
    NoType             \* an integer that is no type of metric

MetricsAssumption ==
    /\ Backends \subseteq {"native", "javascript", "android", "cocoa"}

VARIABLES backend, enabled, at, metric, call

vars == <<backend, enabled, at, metric, call>>

Types == {"counter", "gauge", "distribution"}
IsWhole(v) == v % 2 = 0
\* A conversion to an integer drops the fraction.
Truncated(v) == IF v >= 0 THEN v - (v % 2) ELSE v + ((-v) % 2)
NotNegative(v) == IF v < 0 THEN 0 ELSE v

Metric(type, v, asInt) == [type |-> type, value |-> v, asInt |-> asInt]

(***************************************************************************)
(* Each backend's new metrics and setters                                  *)
(***************************************************************************)
NativeCount(v) == Metric("counter", v, TRUE)
NativeSample(type, v) == Metric(type, v, FALSE)
NativeSetType(m, type) == IF type \in Types THEN [m EXCEPT !.type = type] ELSE m
\* The type at hand decides how a value is stored.
NativeSetValue(m, v) ==
    IF m.type = "counter" THEN Metric(m.type, Truncated(v), TRUE) ELSE Metric(m.type, v, FALSE)

JsSetType(m, type) == [m EXCEPT !.type = IF type \in Types THEN type ELSE "counter"]
JsSetValue(m, v) == [m EXCEPT !.value = v]

AndroidSetType(m, type) == IF type \in Types THEN [m EXCEPT !.type = type] ELSE m
AndroidSetValue(m, v) == [m EXCEPT !.value = v]

\* The value holds its type: either is converted with the other.
CocoaCount(v) == Metric("counter", NotNegative(v), TRUE)
CocoaValue(type, v) ==
    IF type = "counter" THEN Metric(type, Truncated(NotNegative(v)), TRUE) ELSE Metric(type, v, FALSE)
CocoaSetType(m, type) == IF type \in Types THEN CocoaValue(type, m.value) ELSE m
CocoaSetValue(m, v) == CocoaValue(m.type, v)

Count(v) ==
    CASE backend = "native" -> NativeCount(v)
      [] backend = "cocoa" -> CocoaCount(v)
      [] OTHER -> Metric("counter", v, FALSE)
Sample(type, v) == IF backend = "cocoa" THEN CocoaValue(type, v) ELSE NativeSample(type, v)
SetType(m, type) ==
    CASE backend = "native" -> NativeSetType(m, type)
      [] backend = "javascript" -> JsSetType(m, type)
      [] backend = "android" -> AndroidSetType(m, type)
      [] backend = "cocoa" -> CocoaSetType(m, type)
SetValue(m, v) ==
    CASE backend = "native" -> NativeSetValue(m, v)
      [] backend = "javascript" -> JsSetValue(m, v)
      [] backend = "android" -> AndroidSetValue(m, v)
      [] backend = "cocoa" -> CocoaSetValue(m, v)

(***************************************************************************)
(* A metric's life                                                         *)
(***************************************************************************)
Init ==
    /\ backend \in Backends /\ enabled \in BOOLEAN
    /\ at = "none" /\ metric = <<>> /\ call = <<>>

Emit(m, c) ==
    /\ at = "none" /\ enabled
    /\ metric' = m /\ at' = "handler" /\ call' = c
    /\ UNCHANGED <<backend, enabled>>

EmitCount == \E v \in Halves : IsWhole(v) /\ Emit(Count(v), <<"emit", v>>)
EmitGauge == \E v \in Halves : Emit(Sample("gauge", v), <<"emit", v>>)
EmitDistribution == \E v \in Halves : Emit(Sample("distribution", v), <<"emit", v>>)
EmitDisabled == at = "none" /\ ~enabled /\ at' = "discarded" /\ UNCHANGED <<backend, enabled, metric, call>>

Change(c, m) ==
    /\ at = "handler"
    /\ metric' = m /\ call' = c
    /\ UNCHANGED <<backend, enabled, at>>

HandlerSetsType == \E t \in Types \cup {NoType} : Change(<<"type", t>>, SetType(metric, t))
HandlerSetsValue == \E v \in Halves : Change(<<"value", v>>, SetValue(metric, v))

\* Only null discards a metric; another object is an error.
HandlerReturns == \E processed \in {"same", "another", "null"} :
    /\ at = "handler"
    /\ at' = IF processed = "null" THEN "discarded" ELSE "sent"
    /\ UNCHANGED <<backend, enabled, metric, call>>

Next ==
    \/ EmitCount \/ EmitGauge \/ EmitDistribution \/ EmitDisabled
    \/ HandlerSetsType \/ HandlerSetsValue \/ HandlerReturns

Spec == Init /\ [][Next]_vars

(***************************************************************************)
(* Properties                                                              *)
(***************************************************************************)
TypeOK ==
    /\ at \in {"none", "handler", "sent", "discarded"}
    /\ at \in {"handler", "sent"} =>
         metric \in [type : Types, value : Int, asInt : BOOLEAN]

\* A type or value that is set is the one that is read, up to what a counter
\* cannot hold; a new type leaves the value, up to that (set_type and set_value of
\* each backend).
ReadsBack ==
    [][at = "handler" /\ at' = "handler" =>
         LET wanted == IF call'[1] = "value" THEN call'[2] ELSE metric.value
         IN  /\ metric'.type = IF call'[1] = "type" /\ call'[2] \in Types THEN call'[2]
                               ELSE IF backend = "javascript" /\ call'[1] = "type" THEN "counter"
                               ELSE metric.type
             /\ IF metric'.type = "counter"
                THEN metric'.value \in {wanted, Truncated(wanted), NotNegative(Truncated(wanted))}
                ELSE metric'.value = wanted]_vars

\* A value stored as an integer has no fraction to lose: what is sent of it is
\* what is read.
IntegersAreWhole == at = "sent" /\ metric.asInt => IsWhole(metric.value)
=============================================================================
