SPECIFICATION WindowsSpec
CONSTANTS
  ann = ann
  bob = bob
  AwgNames = {ann, bob}
  MaxAwgKeys = 2
  EnrolmentTTL = 1
  MaxAwgTime = 3
  MaxAwgChanges = 2
  MaxAwgTroubles = 1
  here = here
  there = there
  RestoreSessions = {here, there}
  OnlineFiles = {"awg", "vless"}
  OfflineFiles = {"db"}
  RestoreFaults = {"timer", "write", "validate", "undo"}
  MaxRestores = 2
  MaxRestoreTroubles = 1
  MaxRestoreEdits = 1
  DnsExits = {"e1", "e2"}
  MaxExitVersion = 2
  MaxRefreshes = 2
  MaxDnsTroubles = 2
INVARIANTS
  WindowsTypeOK
  OriginalsAreKept
  RestoreIsAllOrNothing
  RoutesHaveWorkers
  UndoneIsAsBefore
  PendingIsRestricted
  NoInheritedAccess
PROPERTIES
  ConfirmedByAnother
  TimerKnowsItsWindow
SYMMETRY Alike
CHECK_DEADLOCK FALSE
