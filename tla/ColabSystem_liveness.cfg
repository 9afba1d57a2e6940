SPECIFICATION ColabFairSpec
CONSTANTS
    Requests = {r1, r2}
    Tasks = {t1, t2}
    NoTask = NoTask
    None = None
    MaxRetries = 2
    Backoff = 1
    HeartbeatTimeout = 1
    IdleTimeout = 2
    InferenceTimeout = 1
    MaxConcurrent = 1
    HealthOutcomes = {"missing", "alive", "raises"}
    Incidents = {}
    ColabIncidents = {"lost", "new_leaks", "stop_fails"}
PROPERTIES
    RequestsAnswered
    IdleWorkerStops
    HeartbeatTimeoutFires
    LostSessionDetected
