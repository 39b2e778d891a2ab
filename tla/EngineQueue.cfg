SPECIFICATION Spec
CONSTANTS
    MaxTasks = 2
    Actors = {"ann", "bob"}
    Actions <- MCHostActions
    QueueLimit = 1
    MaxCrashes = 1
    MaxMeddling = 0
    MaxPurged = 0
    MaxUploads = 2
INVARIANTS
    QueueBounded
    UploadSurvives
PROPERTIES
    TerminalIsFinal
