-------------------------- MODULE LoggerExceptions --------------------------
(***************************************************************************)
(* LoggerExceptionHandler, which finds the exceptions that the bridge      *)
(* caught while no debugger is active: it remembers the last exception of  *)
(* each thread, and captures it when the engine logs an error of C# code   *)
(* whose text begins with the name of its type.  All of it runs on the     *)
(* thread that throws.                                                     *)
(***************************************************************************)
EXTENDS Naturals, Sequences, FiniteSets, SequencesExt

CONSTANTS
    Thread, MaxThrown,  \* as in ExceptionCapture
    Type                \* names of exception types, as sequences

LoggerAssumption == MaxThrown \in Nat

VARIABLES
    faults, thrown, inFlight, bridged, captured,  \* as in ExceptionCapture
    typeOf,         \* the type of each exception
    lastException,  \* per thread: _lastException, None for null
    isProcessing,   \* per thread: _isProcessing
    logged          \* per thread: the exception the bridge logs, or None

promise == <<faults, thrown, inFlight, bridged, captured>>
vars == <<promise, typeOf, lastException, isProcessing, logged>>

Abstract == INSTANCE ExceptionCapture
Exception == 1..MaxThrown
None == 0

TypeOK ==
    /\ Abstract!TypeOK
    /\ typeOf \in [Exception -> Type]
    /\ {lastException, logged} \subseteq [Thread -> Exception \cup {None}]
    /\ isProcessing \in [Thread -> BOOLEAN]

Init ==
    /\ Abstract!Init
    /\ typeOf \in [Exception -> Type]
    /\ lastException = [t \in Thread |-> None]
    /\ isProcessing = [t \in Thread |-> FALSE]
    /\ logged = [t \in Thread |-> None]

(* Mutant: the first of several exceptions is remembered.                  *)
Throw_KeepsFirst(t) ==
    /\ logged[t] = None
    /\ Abstract!Throw(t)
    /\ lastException' = [lastException EXCEPT
         ![t] = IF isProcessing[t] \/ @ # None THEN @ ELSE thrown + 1]
    /\ UNCHANGED <<typeOf, isProcessing, logged>>

(* The first-chance handler runs before anything else of the thread.       *)
Throw(t) ==
    /\ logged[t] = None
    /\ Abstract!Throw(t)
    /\ lastException' = [lastException EXCEPT ![t] = IF isProcessing[t] THEN @ ELSE thrown + 1]
    /\ UNCHANGED <<typeOf, isProcessing, logged>>

(* The bridge logs what it has caught.  What is thrown while a capture     *)
(* runs stays within it, or is caught there by a bridge that does not count*)
Catch(t, bridge, left) ==
    /\ logged[t] = None
    /\ isProcessing[t] => ~bridge
    /\ Abstract!Catch(t, bridge, left)
    /\ logged' = [logged EXCEPT ![t] = IF bridge THEN Last(inFlight[t]) ELSE None]
    /\ UNCHANGED <<typeOf, lastException, isProcessing>>

Triggered(t) ==
    /\ ~isProcessing[t] /\ lastException[t] # None
    /\ IsPrefix(typeOf[lastException[t]], typeOf[logged[t]])

OnLogError(t) ==
    /\ logged[t] # None
    /\ logged' = [logged EXCEPT ![t] = None]
    /\ IF Triggered(t)
       THEN /\ captured' = [captured EXCEPT ![lastException[t]] = @ + 1]
            /\ lastException' = [lastException EXCEPT ![t] = None]
            /\ isProcessing' = [isProcessing EXCEPT ![t] = TRUE]
       ELSE UNCHANGED <<captured, lastException, isProcessing>>
    /\ UNCHANGED <<faults, thrown, inFlight, bridged, typeOf>>

(* The capture returns, and with it the handler.                           *)
Captured(t) ==
    /\ isProcessing[t] /\ inFlight[t] = <<>>
    /\ isProcessing' = [isProcessing EXCEPT ![t] = FALSE]
    /\ UNCHANGED <<promise, typeOf, lastException, logged>>

Next ==
    \E t \in Thread :
        \/ Throw(t)
        \/ \E bridge \in BOOLEAN, left \in 0..MaxThrown : Catch(t, bridge, left)
        \/ OnLogError(t)
        \/ Captured(t)

(* A thread that has something to log goes on.                             *)
Spec == Init /\ [][Next]_vars /\ \A t \in Thread : WF_vars(OnLogError(t))

-----------------------------------------------------------------------------
(***************************************************************************)
(* Properties.                                                             *)
(***************************************************************************)
(* Each exception caught by the bridge is captured, once, and no other is. *)
CapturesWhatBridgeCaught == Abstract!Spec

(* "Validate that _LogError was triggered by _lastException, not a stale   *)
(* one", in so far as this is done by the type: what is captured is, if not*)
(* the exception that the bridge caught, then one that user code caught    *)
(* after it, of a type it cannot be told from; and never twice.            *)
StaleOnlyByType ==
    \A e \in Exception : captured[e] > 0 =>
        /\ captured[e] = 1
        /\ e \notin bridged =>
             \E b \in bridged : b < e /\ captured[b] = 0 /\ IsPrefix(typeOf[e], typeOf[b])

=============================================================================
