SPECIFICATION ServiceSpec
CONSTANTS
  TcpPorts = {443, 8443}
  UploadFiles = {"f1"}
  MaxDownloads = 1
  MenuDuringTasks = FALSE
  MaxServiceTasks = 2
  MaxRotations = 0
  MaxServiceTroubles = 0
INVARIANT InvalidatedOnlyWhenChanged
CHECK_DEADLOCK FALSE
