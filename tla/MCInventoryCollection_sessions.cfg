SPECIFICATION InventorySpec
CONSTANTS
    w1 = w1
    w2 = w2
    main = main
    Main = main
    Workers = {w1, w2}
    Deep = {"nodes"}
    Others = {"leases", "secrets", "jobs"}
    Namespaced = {"leases", "secrets", "jobs"}
    Sensitive = {"secrets"}
    Clusters = {"lab", "prod"}
    MaxRequests = 6
    MaxDuration = 3
    MaxBytes = 4
    Delay = 1
    Retries = 1
    MaxTime = 4
    MaxSessions = 2
SYMMETRY Symmetry
INVARIANTS
    SlotsKeepTheirPace
    ReusedSnapshotsAreOwn
    FreshReportsAreReal
CHECK_DEADLOCK FALSE
