----------------------------- MODULE MCSession -----------------------------
(***************************************************************************)
(* What surrounds a session, for TLC: the settings it is started with, the *)
(* two layers that start and end together, the attachments that belong to  *)
(* it, and the files that its main thread writes for its events.  Each is  *)
(* a component of its own; part chooses the one that a behaviour is about, *)
(* and the others stay as they began.                                      *)
(***************************************************************************)
EXTENDS Lifecycle

CONSTANTS
    main,
    Dsns, EnvDsn, Timeouts, OldTimeouts, absent,     \* of Settings
    Backends, MayFailToStart, Atts,                  \* of Attachments
    MaxDepth, MaxEvents, MaxFrame, MaxSession        \* of EventProcessing

VARIABLES
    part,
    \* Settings
    file, process, options, altered, chosen,
    \* Attachments
    backend, enabled, listed, is_configuring, inits, scope, user_attachments, pending, wanted,
    \* EventProcessing
    frame, session, active, lastFrame, shot, tree, begun, calls, crashed

settingsVars == <<file, process, options, altered, chosen>>
attachmentVars == <<backend, enabled, listed, is_configuring, inits, scope, user_attachments,
                    pending, wanted>>
processingVars == <<frame, session, active, lastFrame, shot, tree, begun, calls, crashed>>
sessionVars == <<part, settingsVars, vars, attachmentVars, processingVars>>

-----------------------------------------------------------------------------
(***************************************************************************)
(* The instances.                                                          *)
(***************************************************************************)
S == INSTANCE Settings WITH Absent <- absent
\* No callback of init() calls init(), and attachments are changed on the main thread.
A == INSTANCE Attachments WITH
    MayFail <- MayFailToStart, Nested <- FALSE, Threads <- {main}, Main <- main,
    options <- listed
\* Only the main thread captures events.
P == INSTANCE EventProcessing WITH Main <- main, Worker <- {}, MayFail <- FALSE

ASSUME SessionAssumption ==
    /\ S!SettingsAssumption /\ A!AttachmentsAssumption /\ P!ProcessingAssumption
    /\ "native" \in Backends

-----------------------------------------------------------------------------
(***************************************************************************)
(* Behaviours of one part each.                                            *)
(***************************************************************************)
SettingsIdle ==
    /\ file = [k \in S!Keys |-> absent] /\ process = S!NoProcess
    /\ options = absent /\ altered = FALSE /\ chosen = S!Defaults
AttachmentsIdle == A!Init /\ backend = "native"
ProcessingIdle == P!Init /\ shot = P!NoFile /\ tree = P!NoFile

SessionInit ==
    /\ Init
    /\ \/ part = "settings" /\ S!Init /\ AttachmentsIdle /\ ProcessingIdle
       \/ part = "layers" /\ SettingsIdle /\ AttachmentsIdle /\ ProcessingIdle
       \/ part = "attachments" /\ SettingsIdle /\ A!Init /\ ProcessingIdle
       \/ part = "files" /\ SettingsIdle /\ AttachmentsIdle /\ P!Init

SettingsStep ==
    /\ part = "settings" /\ S!Next
    /\ UNCHANGED <<part, vars, attachmentVars, processingVars>>
LayersStep ==
    /\ part = "layers" /\ Next
    /\ UNCHANGED <<part, settingsVars, attachmentVars, processingVars>>
AttachmentsStep ==
    /\ part = "attachments" /\ A!Next
    /\ UNCHANGED <<part, settingsVars, vars, processingVars>>
FilesStep ==
    /\ part = "files" /\ P!Next
    /\ UNCHANGED <<part, settingsVars, vars, attachmentVars>>

SessionNext == SettingsStep \/ LayersStep \/ AttachmentsStep \/ FilesStep

DeferredSave ==
    part = "settings" /\ S!Save /\ UNCHANGED <<part, vars, attachmentVars, processingVars>>

\* Godot runs deferred calls after every frame.
SessionSpec == SessionInit /\ [][SessionNext]_sessionVars /\ WF_sessionVars(DeferredSave)

-----------------------------------------------------------------------------
(***************************************************************************)
(* Properties, beside those of Lifecycle: LayersFollow, CloseClosesBoth.   *)
(***************************************************************************)
\* Whatever version wrote the project's file and whichever process migrates, saves or crashes, it
\* means what the user chose; and every init() has these options, without what an earlier one's
\* callback changed.
SettingsKept == part = "settings" => S!TypeOK /\ S!FileKeepsMeaning /\ S!OptionsAsChosen

\* A migrated project that stays open in the editor is saved, without a key of an earlier version; and
\* no process takes a file back to an earlier schema.
MigrationSaved == S!MigrationSaved /\ S!SchemaGrows

\* Events of a session have the attachments that were added and not cleared since it began, each
\* once, and the default ones once; and the native backend can still clear all that it has.
AttachmentsKept ==
    part = "attachments" => A!TypeOK /\ A!AttachmentsKept /\ A!DefaultsOnce /\ A!ClearReachesAll

\* The screenshot and the scene tree that the main thread wrote for an event are there when it is
\* sent, although the callbacks in between capture further events.
FilesKept == part = "files" => P!FilesKept
=============================================================================
