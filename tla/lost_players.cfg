SPECIFICATION FairSpec
CONSTANTS
  c1 = c1
  c2 = c2
  a1 = a1
  a2 = a2
  k1 = k1
  k2 = k2
  data = data
  Half = 1
  Key <- MCOneKey
  NilKey = NilKey
  ConnectionId <- MCConnectionId
  NoId = NoId
  NoAck = NoAck
  Payload <- MCPayload
  Stitched = Stitched
  StateHandle <- MCStateHandle
  NoHandle = NoHandle
  HandshakeRetries = 2
  RetryPeriod = 1
  Address <- MCAddress
  Host <- MCHost
  Client <- MCClient
  Home <- MCHome
  SendSeq <- MCSendSeq
  MayRefuse = FALSE
  MayDrop = FALSE
  BindMayFail = FALSE
  MaxSessions = 1
  Faults <- MCNoFaults
PROPERTIES
  LostPlayersLeave
