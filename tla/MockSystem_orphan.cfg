SPECIFICATION MockFairSpec
CONSTANTS
    Requests = {r1}
    Tasks = {t1, t2}
    NoTask = NoTask
    None = None
    MaxRetries = 1
    Backoff = 1
    HeartbeatTimeout = 1
    IdleTimeout = 1
    InferenceTimeout = 0
    MaxConcurrent = 1
    HealthOutcomes = {"missing", "pushed"}
    Incidents = {"crash"}
    Workers = {w1}
    MockIncidents = {}
PROPERTIES
    OrphansExit
