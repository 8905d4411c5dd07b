CONSTANTS
  Conns = {c1, c2}
  PRE_AUTH_CONCURRENCY = 1
  Hellos <- MCHellos
  Supported <- MCSupported
  PROTOCOL_VERSION = 2
  MIN_SUPPORTED_VERSION = 1
  Room = 1
SPECIFICATION ListenerSpec
PROPERTIES HandshakeEnds AcceptReturns
CHECK_DEADLOCK FALSE
