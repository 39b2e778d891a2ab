SPECIFICATION PortSpec
CONSTANTS
  Ports = {1, 2, 3}
  InitialPorts <- MCInitialPorts
  MaxPortTasks = 2
  MaxWindows = 1
  MaxPortTroubles = 0
INVARIANT ClosedPortStaysClosed
CHECK_DEADLOCK FALSE
