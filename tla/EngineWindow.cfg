SPECIFICATION Spec
CONSTANTS
    MaxTasks = 3
    Actors = {"ann"}
    Actions <- MCVlessActions
    QueueLimit = 1
    MaxCrashes = 0
    MaxMeddling = 0
    MaxPurged = 0
    MaxUploads = 0
INVARIANTS
    GuardedOutcomeIsTrue
    WindowBlocksQueue
PROPERTIES
    ClosesPreviewedWindow
