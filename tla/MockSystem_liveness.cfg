SPECIFICATION MockFairSpec
CONSTANTS
    Requests = {r1}
    Tasks = {t1}
    NoTask = NoTask
    None = None
    MaxRetries = 1
    Backoff = 1
    HeartbeatTimeout = 0
    IdleTimeout = 1
    InferenceTimeout = 0
    MaxConcurrent = 1
    HealthOutcomes = {"missing", "pushed"}
    Incidents = {"force_stop"}
    Workers = {w1}
    MockIncidents = {"dies"}
PROPERTIES
    LostWorkerDetected
