SPECIFICATION ColabSpec
CONSTANTS
    Requests = {r1}
    Tasks = {t1, t2}
    NoTask = NoTask
    None = None
    MaxRetries = 2
    Backoff = 1
    HeartbeatTimeout = 1
    IdleTimeout = 1
    InferenceTimeout = 0
    MaxConcurrent = 1
    HealthOutcomes = {"missing", "alive", "raises"}
    Incidents = {}
    ColabIncidents = {}
INVARIANTS
    OfflineMeansReleased
