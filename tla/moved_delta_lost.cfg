SPECIFICATION Spec
CONSTANTS
  c1 = c1
  c2 = c2
  a1 = a1
  a2 = a2
  k1 = k1
  k2 = k2
  data = data
  Half = 2
  Key <- MCKey
  NilKey = NilKey
  ConnectionId <- MCConnectionId
  NoId = NoId
  NoAck = NoAck
  Payload <- MCPayload
  Stitched = Stitched
  StateHandle <- MCStateHandle
  NoHandle = NoHandle
  HandshakeRetries = 2
  RetryPeriod = 1
  Address <- MCAddresses
  Host <- MCHost
  Client <- MCClient
  Home <- MCHome
  SendSeq <- MCSendSeqs
  MayRefuse = FALSE
  MayDrop = FALSE
  BindMayFail = FALSE
  MaxSessions = 1
  Faults <- MCRebind
PROPERTIES
  MovedDeltaIsRead
