-------------------------- MODULE ExceptionCapture --------------------------
(***************************************************************************)
(* What both exception handlers of the .NET layer promise                  *)
(* (dotnet/managed/Sentry.Godot/ExceptionHandling): an exception that      *)
(* leaves user code and is caught by the engine's bridge is captured, once,*)
(* and no other exception is.  Threads throw and catch; the handlers see   *)
(* this in part and late.  Neither handler is made for programs with       *)
(* faults: of these it is promised only that nothing is captured twice.    *)
(***************************************************************************)
EXTENDS Naturals, Sequences, FiniteSets

CONSTANTS
    Thread,      \* operating system thread ids
    MaxThrown    \* bound: exceptions thrown

CaptureAssumption == MaxThrown \in Nat

VARIABLES
    faults,    \* what the program may do that the handlers are not made for
    thrown,    \* how many exceptions were thrown; they are 1..thrown
    inFlight,  \* per thread, the exceptions in flight, the last one innermost
    bridged,   \* exceptions that the bridge has caught
    captured   \* how often each exception was captured

promise == <<faults, thrown, inFlight, bridged, captured>>

Exception == 1..MaxThrown

(* Finally blocks and filters catch exceptions of their own; threads throw *)
(* before the events are enabled; a new thread has the id of a dead one.   *)
Fault == {"inner catch", "early throw", "reused id"}

TypeOK ==
    /\ faults \subseteq Fault
    /\ thrown \in 0..MaxThrown
    /\ inFlight \in [Thread -> Seq(Exception)]
    /\ bridged \subseteq Exception
    /\ captured \in [Exception -> Nat]

Init ==
    /\ faults \in SUBSET Fault
    /\ thrown = 0
    /\ inFlight = [t \in Thread |-> <<>>]
    /\ bridged = {}
    /\ captured = [e \in Exception |-> 0]

(* A finally block or a filter may throw while an exception is in flight.  *)
Throw(t) ==
    /\ thrown < MaxThrown
    /\ thrown' = thrown + 1
    /\ inFlight' = [inFlight EXCEPT ![t] = Append(@, thrown + 1)]
    /\ UNCHANGED <<faults, bridged, captured>>

(* The last exception is caught.  It has replaced those before it, unless  *)
(* it is caught within the finally block or filter that threw it.          *)
Catch(t, bridge, left) ==
    /\ inFlight[t] # <<>>
    /\ left < Len(inFlight[t])
    /\ left > 0 => "inner catch" \in faults /\ ~bridge
    /\ bridged' = IF bridge THEN bridged \cup {inFlight[t][Len(inFlight[t])]} ELSE bridged
    /\ inFlight' = [inFlight EXCEPT ![t] = SubSeq(@, 1, left)]
    /\ UNCHANGED <<faults, thrown, captured>>

Capture(e) ==
    /\ faults = {} => e \in bridged
    /\ captured[e] = 0
    /\ captured' = [captured EXCEPT ![e] = 1]
    /\ UNCHANGED <<faults, thrown, inFlight, bridged>>

Next ==
    \/ \E t \in Thread : Throw(t)
    \/ \E t \in Thread, bridge \in BOOLEAN, left \in 0..MaxThrown : Catch(t, bridge, left)
    \/ \E e \in Exception : Capture(e)

(* An exception that the bridge has caught is captured in the end, unless  *)
(* there are faults.                                                       *)
Spec ==
    /\ Init /\ [][Next]_promise
    /\ \A e \in Exception : WF_promise(faults = {} /\ Capture(e))
=============================================================================
