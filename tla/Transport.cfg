SPECIFICATION FairSpec
CONSTANTS
  MaxSockets = 4
  MaxSessions = 2
  MaxContexts = 3
  Stacks = {"iot_socket", "plus_tcp"}
  MaxFailures = 2
INVARIANTS
  TransportTypeOK
  SessionsAccounted
  ConnectedIsReady
  LeaksBounded
  SntpServed
PROPERTIES
  Reconnects
CHECK_DEADLOCK FALSE
