\* One main thread, three attachments, and one value of each kind of setting beside its default.
CONSTANTS
    main = main
    Dsns = {"dsn"}
    EnvDsn = "env"
    Timeouts = {2000}
    OldTimeouts = {1500600}
    absent = absent
    Backends = {"native", "cocoa", "android", "web"}
    MayFailToStart = {"native", "cocoa", "web"}
    Atts = {a1, a2, a3}
    MaxDepth = 3
    MaxEvents = 3
    MaxFrame = 2
    MaxSession = 2
    Reentrant = FALSE
    MayThrow = FALSE
    MaxCallbacks = 2
SPECIFICATION SessionSpec
INVARIANTS
    SettingsKept
    LayersFollow
    AttachmentsKept
    FilesKept
PROPERTIES
    MigrationSaved
    CloseClosesBoth
CHECK_DEADLOCK FALSE
