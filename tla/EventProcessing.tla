-------------------------- MODULE EventProcessing --------------------------
(***************************************************************************)
(* The processing of events, feedback and crashes                          *)
(* (src/src/sentry/processing, called by the hooks of native_sdk.cpp).     *)
(*                                                                         *)
(* The backend runs the hooks on the thread that captures.  A capture goes *)
(* through the processors of the session it began in, the managed hook and *)
(* the before-send callback; most of these run code that may capture again *)
(* on the same thread, and that capture is sent without processing.  All   *)
(* threads share one screenshot file and one scene tree file, which the    *)
(* main thread writes, every thread removes, and the backend reads when an *)
(* event is sent.  Events of .NET ("managed") have hooks of their own and  *)
(* run the processors of the two files only                                *)
(* (dotnet/process_default_attachments.cpp).  Both files are enabled.      *)
(***************************************************************************)
EXTENDS Integers, Sequences, FiniteSets, SequencesExt

CONSTANTS
    Main,        \* the main thread
    Worker,      \* the other threads that capture events
    MayFail,     \* TRUE: the files cannot always be opened for writing
    MaxDepth, MaxEvents, MaxFrame, MaxSession  \* bounds of the exploration

ASSUME ProcessingAssumption ==
    /\ Main \notin Worker
    /\ MayFail \in BOOLEAN
    /\ {MaxDepth, MaxEvents, MaxFrame, MaxSession} \subseteq Nat

VARIABLES
    frame,      \* Engine::get_frames_drawn()
    session,    \* number of the present session, or of the last one
    active,     \* internal_sdk->is_enabled()
    lastFrame,  \* last_screenshot_frame of each session's ScreenshotProcessor
    shot,       \* the screenshot file: the frame it shows
    tree,       \* the scene tree file: the captures begun when it was written
    begun,      \* history: captures begun
    calls,      \* per thread, its nested captures, the innermost last
    crashed     \* a thread has crashed, and the process ends with its report

files == <<shot, tree>>
engine == <<frame, session, active>>
vars == <<engine, lastFrame, files, begun, calls, crashed>>

Thread == Worker \cup {Main}
Session == 1..MaxSession
Kind == {"event", "feedback", "crash", "managed"}
Stage == {"enrich", "check", "ask", "mark", "take", "remove_tree", "build_tree",
          "hook", "before_send", "attach"}

None == -1
File == [at : Nat \cup {None}, session : Nat]
NoFile == [at |-> None, session |-> 0]
PreviousRun == [at |-> 0, session |-> 0]

(* at: the frame that the screenshot processor has read, None before.      *)
(* fatal: the event meets screenshot_level.  processed: the hooks run.     *)
CallRecord == [kind : Kind, fatal : BOOLEAN, session : Session, began : Nat,
               processed : BOOLEAN, at : Nat \cup {None},
               wrote : SUBSET {"shot", "tree"}, stage : Stage]

TypeOK ==
    /\ frame \in Nat /\ begun \in Nat
    /\ session \in 0..MaxSession
    /\ {active, crashed} \subseteq BOOLEAN
    /\ lastFrame \in [Session -> Nat \cup {None}]
    /\ {shot, tree} \subseteq File
    /\ calls \in [Thread -> Seq(CallRecord)]

(* The files may be left over from an earlier run of the program.          *)
Init ==
    /\ frame = 0 /\ session = 0 /\ begun = 0
    /\ active = FALSE /\ crashed = FALSE
    /\ lastFrame = [s \in Session |-> None]
    /\ shot \in {NoFile, PreviousRun} /\ tree \in {NoFile, PreviousRun}
    /\ calls = [t \in Thread |-> <<>>]

-----------------------------------------------------------------------------
Top(t) == Last(calls[t])
At(t, stage) == calls[t] # <<>> /\ Top(t).stage = stage
Become(t, call) == calls' = [calls EXCEPT ![t] = Append(Front(@), call)]
Goto(t, stage) == Become(t, [Top(t) EXCEPT !.stage = stage])
Return(t) == calls' = [calls EXCEPT ![t] = Front(@)]

(* Mutant: the files of earlier sessions and runs stay.                    *)
InitSdk_KeepsFiles ==
    /\ ~active /\ ~crashed /\ calls[Main] = <<>> /\ session < MaxSession
    /\ session' = session + 1 /\ active' = TRUE
    /\ UNCHANGED <<frame, lastFrame, files, begun, calls, crashed>>

(* SentrySDK::init(): new options with a new ScreenshotProcessor;          *)
(* _get_default_attachments() removes both files.                          *)
InitSdk ==
    /\ ~active /\ ~crashed /\ calls[Main] = <<>> /\ session < MaxSession
    /\ session' = session + 1 /\ active' = TRUE
    /\ shot' = NoFile /\ tree' = NoFile
    /\ UNCHANGED <<frame, lastFrame, begun, calls, crashed>>

(* Other threads may be in the middle of an event.                         *)
CloseSdk ==
    /\ active /\ ~crashed /\ calls[Main] = <<>>
    /\ active' = FALSE
    /\ UNCHANGED <<frame, session, lastFrame, files, begun, calls, crashed>>

DrawFrame ==
    /\ ~crashed /\ calls[Main] = <<>> /\ frame < MaxFrame
    /\ frame' = frame + 1
    /\ UNCHANGED <<session, active, lastFrame, files, begun, calls, crashed>>

-----------------------------------------------------------------------------
(* process_event() and process_feedback() count their depth apart;         *)
(* process_default_attachments() does not.  The guard is let go when they  *)
(* return: an event whose attachments are read is no longer in the hook.   *)
Counter(kind) == IF kind = "crash" THEN "event" ELSE kind

Processing(t, counter) ==
    {i \in DOMAIN calls[t] :
        /\ calls[t][i].processed /\ calls[t][i].stage # "attach"
        /\ Counter(calls[t][i].kind) = counter}

(* Mutant: no RecursionGuard.                                              *)
ShouldProceed_Always(t, kind) == TRUE

ShouldProceed(t, kind) ==
    \/ kind = "managed"
    \/ \A i \in DOMAIN calls[t] :
          Counter(calls[t][i].kind) = Counter(kind) => calls[t][i].stage = "attach"

FirstStage(t, kind) ==
    IF kind = "managed" THEN "check"
    ELSE IF ShouldProceed(t, kind) THEN "enrich" ELSE "attach"

(* The backend calls the hook; a nested capture is sent as it is.  The     *)
(* first thing a managed event does is to read the frame number.           *)
Begin(t, kind, fatal) ==
    /\ begun < MaxEvents
    /\ begun' = begun + 1
    /\ calls' = [calls EXCEPT ![t] = Append(@,
           [kind |-> kind, fatal |-> fatal, session |-> session, began |-> begun + 1,
            processed |-> ShouldProceed(t, kind),
            at |-> IF kind = "managed" THEN frame ELSE None,
            wrote |-> {}, stage |-> FirstStage(t, kind)])]
    /\ UNCHANGED <<engine, lastFrame, files>>

(* Contexts, the callbacks and the managed hook run code that captures:    *)
(* user code, or engine code whose errors the logger captures.             *)
RunsOtherCode(t) ==
    calls[t] # <<>> => Top(t).stage \in {"enrich", "ask", "hook", "before_send"}

(* Mutant: a capture does not wait for init().                             *)
Capture_NotActive(t, kind, fatal) ==
    /\ ~crashed
    /\ RunsOtherCode(t) /\ Len(calls[t]) < MaxDepth
    /\ Begin(t, kind, fatal)
    /\ UNCHANGED crashed

Capture(t, kind, fatal) ==
    /\ active /\ ~crashed
    /\ RunsOtherCode(t) /\ Len(calls[t]) < MaxDepth
    /\ Begin(t, kind, fatal)
    /\ UNCHANGED crashed

(* _handle_on_crash(), on the thread that crashes, wherever it is.         *)
Crash(t) ==
    /\ active /\ ~crashed
    /\ Begin(t, "crash", TRUE)
    /\ crashed' = TRUE

(* Nothing of the program runs once the crash has been reported.           *)
Running == \A t \in Thread : ~(At(t, "attach") /\ Top(t).kind = "crash")

-----------------------------------------------------------------------------
(* EnrichmentProcessor; then ScreenshotProcessor reads the frame number,   *)
(* before it takes the lock.                                               *)
Enrich(t) ==
    /\ At(t, "enrich")
    /\ Become(t, [Top(t) EXCEPT !.stage = "check", !.at = frame])
    /\ UNCHANGED <<engine, lastFrame, files, begun, crashed>>

WantsScreenshot(t) == t = Main /\ Top(t).fatal

(* Mutant: the file is removed only to make room for the next one.         *)
CheckFrame_RemovesLate(t) ==
    /\ At(t, "check")
    /\ LET wanted == Top(t).at # lastFrame[Top(t).session] /\ WantsScreenshot(t) IN
       /\ shot' = IF wanted THEN NoFile ELSE shot
       /\ Goto(t, IF wanted THEN "ask" ELSE "remove_tree")
    /\ UNCHANGED <<engine, lastFrame, tree, begun, crashed>>

(* Under the lock: one screenshot a frame, and the outdated one goes, also *)
(* when the thread or the level will not allow another.                    *)
CheckFrame(t) ==
    /\ At(t, "check")
    /\ LET done == Top(t).at = lastFrame[Top(t).session] IN
       /\ shot' = IF done THEN shot ELSE NoFile
       /\ Goto(t, IF ~done /\ WantsScreenshot(t) THEN "ask" ELSE "remove_tree")
    /\ UNCHANGED <<engine, lastFrame, tree, begun, crashed>>

(* before_capture_screenshot; also the refusals that do not depend on the  *)
(* event: headless, engine singletons not ready.                           *)
AskScreenshot(t, allow) ==
    /\ At(t, "ask")
    /\ Goto(t, IF allow THEN "mark" ELSE "remove_tree")
    /\ UNCHANGED <<engine, lastFrame, files, begun, crashed>>

(* Mutant: the frame is not remembered.                                    *)
MarkFrame_Missing(t) ==
    /\ At(t, "mark")
    /\ Goto(t, "take")
    /\ UNCHANGED <<engine, lastFrame, files, begun, crashed>>

MarkFrame(t) ==
    /\ At(t, "mark")
    /\ lastFrame' = [lastFrame EXCEPT ![Top(t).session] = Top(t).at]
    /\ Goto(t, "take")
    /\ UNCHANGED <<engine, files, begun, crashed>>

(* take_screenshot() and the file; it may be impossible to open.           *)
TakeScreenshot(t, opened) ==
    /\ At(t, "take")
    /\ shot' = IF opened THEN [at |-> frame, session |-> session] ELSE shot
    /\ Become(t, [Top(t) EXCEPT !.stage = "remove_tree",
                                !.wrote = IF opened THEN @ \cup {"shot"} ELSE @])
    /\ UNCHANGED <<engine, lastFrame, tree, begun, crashed>>

AfterTree(t) == IF Top(t).kind = "managed" THEN "attach" ELSE "hook"

(* Mutant: the thread is checked first.                                    *)
RemoveTree_MainOnly(t) ==
    /\ At(t, "remove_tree")
    /\ tree' = IF t = Main THEN NoFile ELSE tree
    /\ Goto(t, IF t = Main THEN "build_tree" ELSE AfterTree(t))
    /\ UNCHANGED <<engine, lastFrame, shot, begun, crashed>>

(* ViewHierarchyProcessor, without a lock.                                 *)
RemoveTree(t) ==
    /\ At(t, "remove_tree")
    /\ tree' = NoFile
    /\ Goto(t, IF t = Main THEN "build_tree" ELSE AfterTree(t))
    /\ UNCHANGED <<engine, lastFrame, shot, begun, crashed>>

BuildTree(t, opened) ==
    /\ At(t, "build_tree")
    /\ tree' = IF opened THEN [at |-> begun, session |-> session] ELSE tree
    /\ Become(t, [Top(t) EXCEPT !.stage = AfterTree(t),
                                !.wrote = IF opened THEN @ \cup {"tree"} ELSE @])
    /\ UNCHANGED <<engine, lastFrame, shot, begun, crashed>>

(* process_event_in_managed_layer(), for events only.                      *)
ManagedHook(t, keep) ==
    /\ At(t, "hook")
    /\ Top(t).kind # "event" => keep
    /\ IF keep THEN Goto(t, "before_send") ELSE Return(t)
    /\ UNCHANGED <<engine, lastFrame, files, begun, crashed>>

BeforeSend(t, keep) ==
    /\ At(t, "before_send")
    /\ IF keep THEN Goto(t, "attach") ELSE Return(t)
    /\ UNCHANGED <<engine, lastFrame, files, begun, crashed>>

(* The backend reads the files as they are.                                *)
Attach(t) ==
    /\ At(t, "attach")
    /\ Return(t)
    /\ UNCHANGED <<engine, lastFrame, files, begun, crashed>>

Process(t) ==
    \/ Enrich(t)
    \/ CheckFrame(t)
    \/ \E allow \in BOOLEAN : AskScreenshot(t, allow)
    \/ MarkFrame(t)
    \/ \E opened \in {TRUE, ~MayFail} : TakeScreenshot(t, opened)
    \/ RemoveTree(t)
    \/ \E opened \in {TRUE, ~MayFail} : BuildTree(t, opened)
    \/ \E keep \in BOOLEAN : ManagedHook(t, keep)
    \/ \E keep \in BOOLEAN : BeforeSend(t, keep)
    \/ Attach(t)

Next ==
    /\ Running
    /\ \/ InitSdk
       \/ CloseSdk
       \/ DrawFrame
       \/ \E t \in Thread :
            \/ \E kind \in Kind \ {"crash"}, fatal \in BOOLEAN : Capture(t, kind, fatal)
            \/ Crash(t)
            \/ Process(t)

Spec == Init /\ [][Next]_vars

-----------------------------------------------------------------------------
(***************************************************************************)
(* Properties.                                                             *)
(***************************************************************************)
Sent(t) == At(t, "attach") /\ Top(t).processed

(* What is sent with a processed event shows a frame no older than the one *)
(* the event was processed in, although threads remove, take and send at   *)
(* any time.                                                               *)
ScreenshotCurrent ==
    \A t \in Thread : (Sent(t) /\ shot.at # None) => shot.at >= Top(t).at

(* Nor is the scene tree older than the event, although every thread       *)
(* removes the file without a lock.                                        *)
TreeCurrent ==
    \A t \in Thread : (Sent(t) /\ tree.at # None) => tree.at >= Top(t).began

(* Files left by an earlier session or run are not in the way of the       *)
(* present one, whatever the threads of the earlier session still do.      *)
NothingLeftOver ==
    active => \A file \in {shot, tree} : file.at # None => file.session = session

(* The processors and callbacks do not run within themselves: errors they  *)
(* raise are captured, but not processed.  Managed events have no guard.   *)
NotReentered ==
    \A t \in Thread, counter \in {"event", "feedback"} :
        Cardinality(Processing(t, counter)) <= 1

(* "enables automatic screenshot capture for events meeting or exceeding   *)
(* the [member screenshot_level] threshold": a screenshot that was taken   *)
(* for an event is there when the event is sent.                           *)
ScreenshotKept == (Sent(Main) /\ "shot" \in Top(Main).wrote) => shot.at # None

(* "enables automatic capture of scene tree hierarchy data with each       *)
(* event": what was written for an event is there when the event is sent.  *)
TreeKept == (Sent(Main) /\ "tree" \in Top(Main).wrote) => tree.at # None

(* Both hold where the main thread alone captures events, nested captures  *)
(* included, and the tree's file can be opened again.                      *)
FilesKept == Worker = {} => ScreenshotKept /\ (~MayFail => TreeKept)

=============================================================================
