SPECIFICATION ChangesSpec
CONSTANTS
  DomainNodes = {"n1"}
  DomainAddresses = {"ip", "far"}
  OutsideAddresses = {"far"}
  HostNames <- MCHostNames
  DomainChoices <- MCDomainChoices
  MaxDomains = 1
  MaxDomainTasks = 3
  MaxDomainEdits = 2
  MaxDomainTroubles = 1
  ProxyNodes = {"n1"}
  ExitNames <- MCExitNames
  AirportNames = {"air"}
  MaxExits = 3
  MaxAirports = 2
  MaxProxyTasks = 2
  MaxProxyTroubles = 1
  TcpPorts = {443, 8443}
  UploadFiles = {"f1"}
  MaxDownloads = 1
  MenuDuringTasks = FALSE
  MaxServiceTasks = 3
  MaxRotations = 1
  MaxServiceTroubles = 1
  Ports = {1, 2, 3}
  InitialPorts <- MCInitialPorts
  MaxPortTasks = 2
  MaxWindows = 1
  MaxPortTroubles = 1
  RootKeys = {"a", "b"}
  LineForms = {"plain", "options"}
  MaxKeyTasks = 1
  MaxHardenings = 2
  MaxRootEdits = 2
  MaxLoginTroubles = 1
  NwNames = {"m", "p"}
  PortSets = {"all", "manage"}
  MaxNwTasks = 2
  MaxNwEdits = 1
  MaxNwTroubles = 1
INVARIANTS
  ChangesTypeOK
  HostKeepsItsNames
  
  PublishedExitsAreServed
  PublishedFilesExist
  PortsNeverShared
  FirewallFollowsPorts
  RootCanLogin
  NodesAreServed
PROPERTY
  ChoiceIsKept
  OnlyPreviewedChanges
CHECK_DEADLOCK FALSE
