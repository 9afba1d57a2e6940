SPECIFICATION Spec
CONSTANTS
    Requests = {r1, r2, r3, r4}
    Tasks = {t1, t2}
    NoTask = NoTask
    None = None
    MaxRetries = 2
    Backoff = 1
    HeartbeatTimeout = 1
    IdleTimeout = 2
    InferenceTimeout = 1
    MaxConcurrent = 3
    HealthOutcomes = {"missing", "alive", "pushed", "raises"}
    Incidents = {"crash", "torn_save", "shutdown", "force_stop"}
SYMMETRY Symmetry
INVARIANTS
    TypeOK
    SingleStartup
    StartupAwaited
    ReadyMeansStarted
    SlotsConserved
    QueueServed
PROPERTIES
    IdleStopHarmless
    ImplementsSingleFlight
