SPECIFICATION Spec
CONSTANTS
    MaxTasks = 2
    Actors = {"ann"}
    Actions <- MCRecoveryActions
    QueueLimit = 2
    MaxCrashes = 1
    MaxMeddling = 1
    MaxPurged = 0
    MaxUploads = 0
INVARIANTS
    TypeOK
    OneRunning
    ExecutedAtMostOnce
    SecretsErased
PROPERTIES
    ImplementsLifecycle
