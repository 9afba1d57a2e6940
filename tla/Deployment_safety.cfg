SPECIFICATION Spec
CONSTANTS
    MaxVersion = 2
    MaxAttempts = 2
INVARIANTS
    DeployTypeOK
    CredentialServed
    EndLeavesNothing
    PocLeavesNothing
