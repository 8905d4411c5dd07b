CONSTANTS
  Conns = {c1, c2, c3}
  PRE_AUTH_CONCURRENCY = 2
  Hellos <- MCHellos
  Supported <- MCSupported
  PROTOCOL_VERSION = 2
  MIN_SUPPORTED_VERSION = 1
  Room = 1
SPECIFICATION ListenerSpec
INVARIANTS ListenerTypeOK PermitsConserved OneSession SessionNegotiated ConnectedWasAccepted
SYMMETRY AnyConn
CHECK_DEADLOCK FALSE
