SPECIFICATION SelectorsSpec
CONSTANTS
  Size = 3
  Item = {"socket", "listener"}
  Descriptors = 3
  Listener = 0
  MaxClients = 2
CHECK_DEADLOCK FALSE
INVARIANTS TypeOK ArraysAgree WatchedAsInserted NoReportIsLost
PROPERTIES ImplementsTable ReadyIsServed EdgesAreTold
