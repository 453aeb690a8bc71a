---------------------------- MODULE GodotLogger ----------------------------
(***************************************************************************)
(* The limits of the error logger                                          *)
(* (src/src/sentry/logging/sentry_godot_logger.cpp).                       *)
(*                                                                         *)
(* Godot calls _log_error() on the thread that reports the error.  The     *)
(* call takes a time stamp, then decides under `error_mutex` whether the   *)
(* error becomes an event, a breadcrumb or log, or nothing, then captures  *)
(* it without the lock; the capture may report errors itself.  The main    *)
(* thread runs _process_frame() once per frame, under the same lock.       *)
(* Times are counted in units of the configured windows; errors of C# code *)
(* are forwarded to .NET before any of this and are not part of the model. *)
(***************************************************************************)
EXTENDS Integers, Sequences, FiniteSets, FiniteSetsExt, SequencesExt

CONSTANTS
    Thread,               \* threads that report errors
    Key,                  \* ErrorKey: message, file and line of an error
    EventMask,            \* the errors should_capture_event() accepts
    RecordMask,           \* those should_capture_breadcrumb() or _log() does
    EventsPerFrame, ThrottleEvents,       \* configured SentryLoggerLimits
    RepeatedErrorWindow, ThrottleWindow,
    StartupEvents,        \* 30: least number of events during startup
    StartupFrames,        \* 10: frames that count as startup
    TableLimit,           \* 100: entries of error_timepoints that may stay
    MaxLogDepth,          \* MAX_DEPTH: nested _log_error() calls of a thread
    MaxStall,             \* bound on the time between stamp and decision
    MaxTime, MaxFrame, MaxCaptured  \* bounds of the clock, frames, history

ASSUME LimitsAssumption ==
    /\ EventMask \subseteq Key
    /\ RecordMask \subseteq Key
    /\ {EventsPerFrame, ThrottleEvents, RepeatedErrorWindow, ThrottleWindow} \subseteq Nat
    /\ {StartupEvents, StartupFrames, TableLimit, MaxLogDepth} \subseteq Nat
    /\ {MaxStall, MaxTime, MaxFrame, MaxCaptured} \subseteq Nat

VARIABLES
    now,              \* the clock
    frame,            \* Engine::get_process_frames()
    limits,           \* which limits apply, "none" before there is a logger
    frameEvents,      \* frame_events
    eventTimes,       \* event_times
    errorTimepoints,  \* error_timepoints
    calls,            \* per thread, its nested _log_error() calls
    captured,         \* history: what was captured, in the order of decision
    emptied           \* history: the frames at whose end the table was emptied

vars == <<now, frame, limits, frameEvents, eventTimes, errorTimepoints, calls,
          captured, emptied>>

LogCall == [key : Key, at : Nat, stage : {"stamped", "capturing"}]

Capture == [key : Key, at : Nat, when : Nat, frame : Nat,
            event : BOOLEAN, limits : {"startup", "normal"}]

TypeOK ==
    /\ now \in Nat /\ frame \in Nat
    /\ limits \in {"none", "startup", "normal"}
    /\ frameEvents \in Nat
    /\ eventTimes \in Seq(Nat)
    /\ DOMAIN errorTimepoints \subseteq Key
    /\ \A k \in DOMAIN errorTimepoints : errorTimepoints[k] \in Nat
    /\ calls \in [Thread -> Seq(LogCall)]
    /\ captured \in Seq(Capture)
    /\ emptied \in SUBSET Nat

Init ==
    /\ now = 0 /\ frame = 0
    /\ limits = "none"
    /\ frameEvents = 0
    /\ eventTimes = <<>>
    /\ errorTimepoints = [k \in {} |-> 0]
    /\ calls = [t \in Thread |-> <<>>]
    /\ captured = <<>>
    /\ emptied = {}

-----------------------------------------------------------------------------
(* _apply_startup_limits() and _apply_normal_limits().                     *)
FrameLimitOf(l) == IF l = "startup" THEN Max({StartupEvents, EventsPerFrame}) ELSE EventsPerFrame
ThrottleEventsOf(l) == IF l = "startup" THEN Max({StartupEvents, ThrottleEvents}) ELSE ThrottleEvents
ThrottleWindowOf(l) == IF l = "startup" THEN 0 ELSE ThrottleWindow

(* Mutant: a logger of frame 10 waits for a frame that has passed.         *)
Construct_OffByOne ==
    /\ limits = "none"
    /\ limits' = IF frame <= StartupFrames + 1 THEN "startup" ELSE "normal"
    /\ UNCHANGED <<now, frame, frameEvents, eventTimes, errorTimepoints, calls,
                   captured, emptied>>

(* The logger is created by the first init() that enables it.              *)
Construct ==
    /\ limits = "none"
    /\ limits' = IF frame < StartupFrames THEN "startup" ELSE "normal"
    /\ UNCHANGED <<now, frame, frameEvents, eventTimes, errorTimepoints, calls,
                   captured, emptied>>

(* Mutant: what was used in the frame is given back instead of reset.      *)
ResetFrame_Subtract == frameEvents' = frameEvents - FrameLimitOf(limits)

ResetFrame == frameEvents' = 0

(* Time points leave at the front only, up to one that is still inside.    *)
Trim(times, window) ==
    LET live == {i \in DOMAIN times : now - times[i] < window} IN
    IF live = {} THEN <<>> ELSE SubSeq(times, Min(live), Len(times))

(* Mutant: a table that is just full is emptied.                           *)
TableFull_AtLimit == Cardinality(DOMAIN errorTimepoints) >= TableLimit

TableFull == Cardinality(DOMAIN errorTimepoints) > TableLimit

(* _process_frame(), and the frame counter that goes on after it.          *)
ProcessFrame ==
    /\ frame < MaxFrame
    /\ frame' = frame + 1
    /\ IF limits = "none" THEN UNCHANGED <<limits, frameEvents, eventTimes, errorTimepoints, emptied>>
       ELSE /\ limits' = IF frame = StartupFrames THEN "normal" ELSE limits
            /\ ResetFrame
            /\ eventTimes' = Trim(eventTimes, ThrottleWindowOf(limits'))
            /\ errorTimepoints' = IF TableFull THEN [k \in {} |-> 0] ELSE errorTimepoints
            /\ emptied' = IF TableFull THEN emptied \cup {frame} ELSE emptied
    /\ UNCHANGED <<now, calls, captured>>

-----------------------------------------------------------------------------
Top(t) == Last(calls[t])
Return(t) == calls' = [calls EXCEPT ![t] = Front(@)]
StartCapture(t) ==
    calls' = [calls EXCEPT ![t] = Append(Front(@), [Last(@) EXCEPT !.stage = "capturing"])]

(* _log_error() up to the lock.  A thread logs an error when it is in no   *)
(* call, or from the capture of another error, up to a depth.              *)
LogError(t, key) ==
    /\ limits # "none"
    /\ calls[t] # <<>> => Top(t).stage = "capturing"
    /\ Len(calls[t]) < MaxLogDepth
    /\ calls' = [calls EXCEPT ![t] = Append(@, [key |-> key, at |-> now, stage |-> "stamped"])]
    /\ UNCHANGED <<now, frame, limits, frameEvents, eventTimes, errorTimepoints,
                   captured, emptied>>

IsSpammy(c) ==
    c.key \in DOMAIN errorTimepoints /\ c.at - errorTimepoints[c.key] < RepeatedErrorWindow

(* Mutants: one more than the limit.                                       *)
WithinFrameLimit_OneMore == frameEvents <= FrameLimitOf(limits)
WithinThrottlingLimit_OneMore ==
    Len(eventTimes) <= ThrottleEventsOf(limits) \/ ThrottleWindowOf(limits) = 0

WithinFrameLimit == frameEvents < FrameLimitOf(limits)
WithinThrottlingLimit ==
    Len(eventTimes) < ThrottleEventsOf(limits) \/ ThrottleWindowOf(limits) = 0

Remembered(c) == [k \in DOMAIN errorTimepoints \cup {c.key} |->
                    IF k = c.key THEN c.at ELSE errorTimepoints[k]]

(* The decision of _log_error(), under the lock.                           *)
Decide(t) ==
    /\ calls[t] # <<>>
    /\ Top(t).stage = "stamped"
    /\ LET c == Top(t)
           asEvent == c.key \in EventMask /\ WithinFrameLimit /\ WithinThrottlingLimit
                        /\ ~IsSpammy(c)
           asRecord == c.key \in RecordMask /\ ~IsSpammy(c)
           capture == [key |-> c.key, at |-> c.at, when |-> now, frame |-> frame,
                       event |-> asEvent, limits |-> limits]
       IN  /\ IF asEvent
              THEN frameEvents' = frameEvents + 1 /\ eventTimes' = Append(eventTimes, c.at)
              ELSE UNCHANGED <<frameEvents, eventTimes>>
           /\ IF asEvent \/ asRecord
              THEN /\ Len(captured) < MaxCaptured
                   /\ errorTimepoints' = Remembered(c)
                   /\ captured' = Append(captured, capture)
                   /\ StartCapture(t)
              ELSE /\ Return(t)
                   /\ UNCHANGED <<errorTimepoints, captured>>
    /\ UNCHANGED <<now, frame, limits, emptied>>

(* The event, breadcrumb and log have been handed over.                    *)
FinishCapture(t) ==
    /\ calls[t] # <<>>
    /\ Top(t).stage = "capturing"
    /\ Return(t)
    /\ UNCHANGED <<now, frame, limits, frameEvents, eventTimes, errorTimepoints,
                   captured, emptied>>

(* Time passes, but no thread waits for the lock longer than MaxStall.     *)
Tick ==
    /\ now < MaxTime
    /\ \A t \in Thread : \A i \in DOMAIN calls[t] :
         calls[t][i].stage = "stamped" => now - calls[t][i].at < MaxStall
    /\ now' = now + 1
    /\ UNCHANGED <<frame, limits, frameEvents, eventTimes, errorTimepoints, calls,
                   captured, emptied>>

Next ==
    \/ Construct
    \/ ProcessFrame
    \/ Tick
    \/ \E t \in Thread :
         \/ \E key \in Key : LogError(t, key)
         \/ Decide(t)
         \/ FinishCapture(t)

Spec == Init /\ [][Next]_vars

-----------------------------------------------------------------------------
(***************************************************************************)
(* Properties.                                                             *)
(***************************************************************************)
Events == {i \in DOMAIN captured : captured[i].event}

(* "The maximum number of error events to send per processed frame",       *)
(* whichever threads report them, and while the limits change.             *)
EventsPerFrameKept ==
    limits # "none" =>
        Cardinality({i \in Events : captured[i].frame = frame}) <= FrameLimitOf(limits)

(* "The maximum number of events allowed within a sliding time window",    *)
(* once startup is over.  Expiry goes by the stamp, which may be older     *)
(* than the event by the time a thread waits for the lock, so the window   *)
(* that is kept is shorter by that much.                                   *)
ThrottlingKept ==
    ThrottleWindow > 0 =>
        \A i \in Events : Cardinality({j \in Events :
            /\ j <= i
            /\ captured[j].limits = "normal" /\ captured[i].limits = "normal"
            /\ captured[i].when - captured[j].when < ThrottleWindow - MaxStall})
                <= ThrottleEvents

(* "The minimum time interval between two identical errors", in whatever   *)
(* form they are captured and whichever thread has the older stamp, unless *)
(* the table was emptied between them, which takes more different errors   *)
(* since the last time than it may hold.                                   *)
EmptiedBetween(i, j) == \E f \in emptied : captured[i].frame <= f /\ f < captured[j].frame
KnownAt(f) ==
    {captured[i].key : i \in {j \in DOMAIN captured :
        captured[j].frame <= f /\ \A g \in emptied : g < f => g < captured[j].frame}}
RepeatedErrorsApart ==
    /\ \A i, j \in DOMAIN captured :
         (i < j /\ captured[i].key = captured[j].key)
             => captured[j].at - captured[i].at >= RepeatedErrorWindow \/ EmptiedBetween(i, j)
    /\ \A f \in emptied : Cardinality(KnownAt(f)) > TableLimit

(* "After 10 frames have passed, switch from startup limits to normal      *)
(* limits": nobody misses the frame of the switch, whenever the logger is  *)
(* created.                                                                *)
StartupLimitsEnd == (frame > StartupFrames /\ limits # "none") => limits = "normal"

=============================================================================
