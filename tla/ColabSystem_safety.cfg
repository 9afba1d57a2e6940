SPECIFICATION ColabSpec
CONSTANTS
    Requests = {r1, r2, r3}
    Tasks = {t1, t2}
    NoTask = NoTask
    None = None
    MaxRetries = 2
    Backoff = 1
    HeartbeatTimeout = 1
    IdleTimeout = 2
    InferenceTimeout = 1
    MaxConcurrent = 1
    HealthOutcomes = {"missing", "alive", "raises"}
    Incidents = {"crash", "torn_save", "shutdown", "force_stop"}
    ColabIncidents = {"lost", "new_leaks"}
SYMMETRY Symmetry
PROPERTIES
    SilenceIsItsOwn
INVARIANTS
    ColabTypeOK
    OneProvisioning
    FailedAttemptLeavesNothing
    UndisturbedStopReleases
    GracefulExitQuiet
