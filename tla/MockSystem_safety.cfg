SPECIFICATION MockSpec
CONSTANTS
    Requests = {r1}
    Tasks = {t1, t2}
    NoTask = NoTask
    None = None
    MaxRetries = 2
    Backoff = 1
    HeartbeatTimeout = 0
    IdleTimeout = 1
    InferenceTimeout = 0
    MaxConcurrent = 1
    HealthOutcomes = {"missing", "pushed"}
    Incidents = {"crash"}
    Workers = {w1, w2}
    MockIncidents = {"hangs"}
SYMMETRY Symmetry
INVARIANTS
    MockTypeOK
    RegistryHonest
    WorkersTracked
