SPECIFICATION AwgFairSpec
CONSTANTS
  AwgNames = {"ann", "bob"}
  MaxAwgKeys = 1
  EnrolmentTTL = 1
  MaxAwgTime = 4
  MaxAwgChanges = 1
  MaxAwgTroubles = 1
PROPERTY EnrolmentEnds
CHECK_DEADLOCK FALSE
