------------------------------ MODULE Settings ------------------------------
(***************************************************************************)
(* The project settings of the SDK: files that any earlier version may     *)
(* have written are migrated when a process starts, in memory only; the    *)
(* editor saves them later, once, and a crash may come before it does.     *)
(* Options are then loaded from the settings, at every init() anew.        *)
(* Two of the settings that were renamed together stand for all ten.       *)
(***************************************************************************)
EXTENDS Integers

CONSTANTS
    Dsns,              \* that the project's settings can have
    EnvDsn,            \* the value of SENTRY_DSN
    Timeouts,          \* time-outs for hangs in ms, written by versions from 2 on
    OldTimeouts,       \* and in microseconds, the fractions of seconds before
    Absent             \* no value in a file

SettingsAssumption ==
    /\ Timeouts \subseteq Nat /\ OldTimeouts \subseteq Nat
    /\ EnvDsn \notin Dsns /\ Absent \notin Dsns \cup {EnvDsn, ""}
    /\ Absent \notin Nat \cup BOOLEAN /\ \A mask \in SUBSET {"error", "message"} : Absent # mask

VARIABLES
    file,              \* project.godot
    process,           \* its mode, the settings in memory, a save to come, the environment
    options,           \* that the process has loaded
    altered,           \* history: a callback changed the options, or an edit the settings
    chosen             \* history: the options that the user chose

vars == <<file, process, options, altered, chosen>>

SCHEMA_VERSION == 4
MASK_ALL == {"error", "message"}

\* The settings of this version with their defaults
Defaults == [logs |-> TRUE, metrics |-> TRUE, timeout_ms |-> 5000, enabled |-> TRUE,
             breadcrumbs |-> MASK_ALL, dsn |-> ""]
NewKeys == DOMAIN Defaults
\* and those that it took over: the version that renamed each, and to what
Renames == [experimental_logs |-> [since |-> 1, to |-> "logs"],
            timeout_sec |-> [since |-> 2, to |-> "timeout_ms"],
            logger_enabled |-> [since |-> 3, to |-> "enabled"],
            logger_breadcrumbs |-> [since |-> 3, to |-> "breadcrumbs"],
            experimental_metrics |-> [since |-> 4, to |-> "metrics"]]
OldKeys == DOMAIN Renames \cup {"messages_as_breadcrumbs"}
Keys == NewKeys \cup OldKeys \cup {"schema_version"}

Get(settings, key, default) == IF settings[key] = Absent THEN default ELSE settings[key]
Rounded(us) == (us + 500) \div 1000

(***************************************************************************)
(* Migrations                                                              *)
(***************************************************************************)
Rename_setting_Copies(settings, old, new) ==
    [settings EXCEPT ![new] = IF settings[old] = Absent THEN @ ELSE settings[old]]
Rename_setting(settings, old, new) ==
    IF settings[old] = Absent THEN settings
    ELSE [settings EXCEPT ![new] = settings[old], ![old] = Absent]

Messages_as_breadcrumbs(settings) ==
    LET mask == Get(settings, "logger_breadcrumbs", MASK_ALL)
    IN [settings EXCEPT
         !["logger_breadcrumbs"] = IF Get(settings, "messages_as_breadcrumbs", TRUE)
                                   THEN mask \cup {"message"} ELSE mask \ {"message"},
         !["messages_as_breadcrumbs"] = Absent]

App_hang_timeout_to_ms(settings) ==
    IF settings["timeout_sec"] = Absent THEN settings
    ELSE [settings EXCEPT !["timeout_ms"] = Rounded(settings["timeout_sec"]),
                          !["timeout_sec"] = Absent]

To_v1(settings) == Messages_as_breadcrumbs(Rename_setting(settings, "experimental_logs", "logs"))
To_v2(settings) == App_hang_timeout_to_ms(settings)
To_v3(settings) ==
    Rename_setting(Rename_setting(settings, "logger_enabled", "enabled"),
                   "logger_breadcrumbs", "breadcrumbs")
To_v4(settings) == Rename_setting(settings, "experimental_metrics", "metrics")

Is_fresh_install(settings) == \A k \in Keys : settings[k] = Absent
From_version(settings) == Get(settings, "schema_version", 0)

\* The messages' migration, run again, loses a mask; so every one is guarded.
Migrated_Always(settings) ==
    IF From_version(settings) > SCHEMA_VERSION THEN settings
    ELSE [To_v4(To_v3(To_v2(To_v1(settings)))) EXCEPT !["schema_version"] = SCHEMA_VERSION]
Migrated(settings) ==
    LET from == From_version(settings)
        v1 == IF from < 1 THEN To_v1(settings) ELSE settings
        v2 == IF from < 2 THEN To_v2(v1) ELSE v1
        v3 == IF from < 3 THEN To_v3(v2) ELSE v2
        v4 == IF from < 4 THEN To_v4(v3) ELSE v3
    IN CASE Is_fresh_install(settings) -> [settings EXCEPT !["schema_version"] = SCHEMA_VERSION]
         [] from > SCHEMA_VERSION -> settings
         [] OTHER -> [v4 EXCEPT !["schema_version"] = IF from < SCHEMA_VERSION THEN SCHEMA_VERSION ELSE @]

Define_project_settings(settings) ==
    [k \in Keys |-> IF k \in NewKeys THEN Get(settings, k, Defaults[k]) ELSE settings[k]]

\* Godot saves no setting that has its initial value.
Saved(settings) ==
    [k \in Keys |-> IF k \in NewKeys /\ settings[k] = Defaults[k] THEN Absent ELSE settings[k]]

\* A setting that differs from its default goes before the environment.
Load_project_settings(settings, env) ==
    [k \in NewKeys |->
       IF k = "dsn" /\ settings[k] = Defaults[k] /\ env # "" THEN env ELSE settings[k]]

(***************************************************************************)
(* What a file of some version means                                       *)
(***************************************************************************)
Nearest(us) == CHOOSE ms \in {us \div 1000, us \div 1000 + 1} :
                 ms * 1000 - us \in -499..500
OldKey(k) == CHOOSE old \in DOMAIN Renames : Renames[old].to = k
KeyAt(k, version) ==
    IF k # "dsn" /\ version < Renames[OldKey(k)].since THEN OldKey(k) ELSE k
Meaning(settings) ==
    LET version == From_version(settings)
        Value(k) == Get(settings, KeyAt(k, version), Absent)
    IN [k \in NewKeys |->
          IF k = "breadcrumbs" /\ version < 1
          THEN {m \in MASK_ALL : IF m = "message"
                                 THEN Get(settings, "messages_as_breadcrumbs", TRUE)
                                 ELSE m \in Get(settings, KeyAt(k, version), MASK_ALL)}
          ELSE IF Value(k) = Absent THEN Defaults[k]
          ELSE IF k = "timeout_ms" /\ version < 2 THEN Nearest(Value(k))
          ELSE Value(k)]

\* The files that version v can have saved.
Values(k) ==
    CASE k = "timeout_ms" -> Timeouts \cup {Rounded(us) : us \in OldTimeouts}
      [] k = "timeout_sec" -> OldTimeouts
      [] k \in {"breadcrumbs", "logger_breadcrumbs"} -> SUBSET MASK_ALL
      [] k = "dsn" -> Dsns
      [] OTHER -> BOOLEAN
FilesOf(version) ==
    LET present == {KeyAt(k, version) : k \in NewKeys}
                   \cup (IF version < 1 THEN {"messages_as_breadcrumbs"} ELSE {})
        Choices(k) == {Absent} \cup (IF k \in present THEN Values(k) ELSE {})
    IN {[logs |-> l, experimental_logs |-> xl, metrics |-> m, experimental_metrics |-> xm,
         timeout_ms |-> t, timeout_sec |-> xt, enabled |-> e, logger_enabled |-> xe,
         breadcrumbs |-> b, logger_breadcrumbs |-> xb, messages_as_breadcrumbs |-> mb,
         dsn |-> d, schema_version |-> IF version = 0 THEN Absent ELSE version] :
          l \in Choices("logs"), xl \in Choices("experimental_logs"),
          m \in Choices("metrics"), xm \in Choices("experimental_metrics"),
          t \in Choices("timeout_ms"), xt \in Choices("timeout_sec"),
          e \in Choices("enabled"), xe \in Choices("logger_enabled"),
          b \in Choices("breadcrumbs"), xb \in Choices("logger_breadcrumbs"),
          mb \in Choices("messages_as_breadcrumbs"), d \in Choices("dsn")}

(***************************************************************************)
(* Processes                                                               *)
(***************************************************************************)
NoProcess == [mode |-> "none"]

Init ==
    /\ \E version \in 0..SCHEMA_VERSION + 1 : file \in FilesOf(version)
    /\ process = NoProcess /\ options = Absent /\ altered = FALSE
    /\ chosen = Meaning(file)

\* The SDK's singleton is made.
Start == \E mode \in {"editor", "game"}, env \in {"", EnvDsn} :
    LET settings == Define_project_settings(Migrated(file)) IN
    /\ process = NoProcess
    /\ process' = [mode |-> mode, settings |-> settings, env |-> env,
                   to_save |-> mode = "editor" /\ From_version(file) < SCHEMA_VERSION]
    /\ options' = Load_project_settings(settings, env)
    /\ altered' = FALSE
    /\ UNCHANGED <<file, chosen>>

\* The save that was deferred
Save ==
    /\ process.mode # "none" /\ process.to_save
    /\ file' = Saved(process.settings)
    /\ process' = [process EXCEPT !.to_save = FALSE]
    /\ UNCHANGED <<options, altered, chosen>>

\* The project is found to need other settings of Godot, and saved.
Verify_project_settings ==
    /\ process.mode = "editor"
    /\ file' = Saved(process.settings)
    /\ UNCHANGED <<process, options, altered, chosen>>

\* The user changes a setting in the editor, which saves it.
Edit == \E k \in NewKeys : \E v \in Values(k) :
    /\ process.mode = "editor"
    /\ process' = [process EXCEPT !.settings[k] = v]
    /\ file' = Saved(process'.settings)
    /\ chosen' = [chosen EXCEPT ![k] = v] /\ altered' = TRUE
    /\ UNCHANGED options

\* init(), whose callback may use the options of earlier versions
Callback(loaded) ==
    {[loaded EXCEPT !.breadcrumbs = IF on THEN @ \cup {"message"} ELSE @ \ {"message"}] : on \in BOOLEAN}
    \cup {[loaded EXCEPT !.timeout_ms = Rounded(us)] : us \in OldTimeouts}
    \cup {[loaded EXCEPT !.logs = on] : on \in BOOLEAN}
InitSDK == \E configuring \in BOOLEAN :
    LET loaded == Load_project_settings(process.settings, process.env) IN
    /\ process.mode # "none"
    /\ options' \in (IF configuring THEN Callback(loaded) ELSE {loaded})
    /\ altered' = configuring
    /\ UNCHANGED <<file, process, chosen>>

\* The process ends or crashes, its deferred call with it.
Stop ==
    /\ process.mode # "none"
    /\ process' = NoProcess /\ options' = Absent /\ altered' = FALSE
    /\ UNCHANGED <<file, chosen>>

Next == Start \/ Save \/ Verify_project_settings \/ Edit \/ InitSDK \/ Stop

\* Godot runs deferred calls after every frame.
Spec == Init /\ [][Next]_vars /\ WF_vars(Save)

(***************************************************************************)
(* Properties                                                              *)
(***************************************************************************)
TypeOK ==
    /\ \A k \in NewKeys \cup OldKeys : file[k] \in Values(k) \cup {Absent}
    /\ process.mode # "none" =>
         \A k \in NewKeys : process.settings[k] \in Values(k) \cup {Defaults[k]}

\* Whatever process starts, saves or crashes, the file means what the user
\* chose (run_project_settings_migrations()).
FileKeepsMeaning == Meaning(file) = chosen

\* Options have the chosen values, the environment's DSN only where the project
\* has none, and nothing of an earlier init()'s callback (_load_project_settings()).
OptionsAsChosen ==
    options # Absent /\ ~altered =>
      options = [chosen EXCEPT !.dsn = IF @ = "" THEN process.env ELSE @]

\* No file goes back to an earlier schema.
SchemaGrows == [][From_version(file') >= From_version(file)]_vars

\* A migrated project that stays open in the editor is saved, without a key of
\* an earlier version.
MigrationSaved ==
    process.mode = "editor" ~>
      \/ process.mode # "editor"
      \/ \A k \in OldKeys : file[k] = Absent
=============================================================================
