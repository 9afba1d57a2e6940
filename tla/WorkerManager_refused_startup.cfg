SPECIFICATION Spec
CONSTANTS
    Requests = {r1, r2}
    Tasks = {t1, t2}
    NoTask = NoTask
    None = None
    MaxRetries = 2
    Backoff = 1
    HeartbeatTimeout = 1
    IdleTimeout = 2
    InferenceTimeout = 1
    MaxConcurrent = 1
    HealthOutcomes = {"missing", "alive", "pushed", "raises"}
    Incidents = {}
PROPERTIES
    JoinsStartupInFlight
