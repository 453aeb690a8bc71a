---------------------------- MODULE MCExceptions ----------------------------
(***************************************************************************)
(* The exception handlers of .NET for TLC: the one that works while a      *)
(* debugger is active and the one that works while none is.  setup chooses *)
(* between them for a behaviour, and the variables of the other stay as    *)
(* they began.  Both keep the promise of ExceptionCapture, whose variables *)
(* they share; the setups named "faulty" and "early" have faults.          *)
(***************************************************************************)
EXTENDS CoreClrExceptions, TLC

CONSTANTS t1, t2, Type

VARIABLES
    setup,
    \* LoggerExceptions
    typeOf, lastException, isProcessing, logged

debuggerVars == <<raising, threads, pending, listening, events, throwCounts, cleaning, dead,
                  now>>
loggerVars == <<typeOf, lastException, isProcessing, logged>>
exceptionVars == <<setup, vars, loggerVars>>

Logger == INSTANCE LoggerExceptions

\* A type whose name begins with the name of another, and a third.
SomeTypes == {<<"A">>, <<"A", "B">>, <<"C">>}

ASSUME ExceptionsAssumption == CoreClrAssumption /\ Logger!LoggerAssumption
                             /\ {t1, t2} \subseteq Thread

-----------------------------------------------------------------------------
(***************************************************************************)
(* Behaviours of one handler each.  The bounds are those of Thread,        *)
(* MaxThrown and MaxTime, or smaller where a setup says so.                *)
(***************************************************************************)
DebuggerSetups == {"debugger", "faulty debugger", "early debugger"}
LoggerSetups == {"logger", "faulty logger"}

ExceptionsInit ==
    /\ setup \in DebuggerSetups \cup LoggerSetups
    /\ faults = CASE setup = "early debugger" -> Abstract!Fault
                 [] setup \in {"faulty debugger", "faulty logger"} -> {"inner catch"}
                 [] OTHER -> {}
    /\ Init /\ Logger!Init
    /\ setup \in DebuggerSetups => typeOf = [e \in Exception |-> CHOOSE type \in Type : TRUE]
    /\ setup = "logger" => \A e \in Exception \ 1..3 : typeOf[e] = typeOf[1]

\* Only one thread throws.
OneThread == \A t \in Thread \ {t1} : inFlight'[t] = <<>> /\ alive'[t]

DebuggerStep ==
    /\ Next
    /\ \/ setup = "debugger" /\ thrown' <= 3
       \/ setup = "faulty debugger" /\ OneThread /\ now' <= 3
       \/ setup = "early debugger" /\ OneThread /\ thrown' <= 3 /\ now' <= 2
    /\ UNCHANGED <<setup, loggerVars>>

LoggerStep ==
    /\ Logger!Next
    /\ \/ setup = "logger" /\ thrown' <= 3
       \/ setup = "faulty logger"
    /\ UNCHANGED <<setup, debuggerVars>>

ExceptionsNext == DebuggerStep \/ LoggerStep

ListenStep == setup = "debugger" /\ Listen /\ UNCHANGED <<setup, loggerVars>>
OnLogErrorStep(t) ==
    setup = "logger" /\ Logger!OnLogError(t) /\ UNCHANGED <<setup, debuggerVars>>

\* The fairness of both handlers.
ExceptionsSpec ==
    /\ ExceptionsInit /\ [][ExceptionsNext]_exceptionVars
    /\ WF_exceptionVars(ListenStep)
    /\ \A t \in Thread : WF_exceptionVars(OnLogErrorStep(t))

-----------------------------------------------------------------------------
(***************************************************************************)
(* Properties, beside those of CoreClrExceptions: CapturesWhatBridgeCaught,*)
(* which is one promise for both, and CleanupAfterDrain.                   *)
(***************************************************************************)
\* With exceptions that finally blocks catch themselves, throws before the events and ids that are
\* reused, an exception may be matched to the wrong catch, but it is captured once at most, by
\* both handlers; a thread whose finally blocks caught some is back in step when it is quiet; and
\* an exception that the logger's handler takes for another is of a type it cannot be told from.
FaultsContained ==
    /\ \A e \in Exception : captured[e] <= 1
    /\ BackInStep
    /\ setup \in LoggerSetups => Logger!StaleOnlyByType
=============================================================================
