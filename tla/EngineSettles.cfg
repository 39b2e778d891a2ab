SPECIFICATION FairSpec
CONSTANTS
    MaxTasks = 2
    Actors = {"ann"}
    Actions <- MCSettleActions
    QueueLimit = 2
    MaxCrashes = 1
    MaxMeddling = 0
    MaxPurged = 1
    MaxUploads = 0
PROPERTIES
    TasksSettle
