SPECIFICATION Spec
CONSTANTS
  key = key
  handle = handle
  Half = 4
  Key <- MCKey
  NilKey = NilKey
  ConnectionId <- MCConnectionId
  NoId = NoId
  NoAck = NoAck
  Payload <- MCPayload
  Stitched = Stitched
  StateHandle <- MCStateHandle
  NoHandle = NoHandle
  HandshakeRetries = 5
  RetryPeriod = 1
  FirstTick = 2
  FirstFrame = 6
  MaxFrame = 9
  MaxDistance = 2
  MaxInFlight = 2
  Lifetime = 3
  RoundTrip = 4
  Streams <- MCStreams
INVARIANTS
  TypeOK
  AcksAreTrue
  MostRecentComplete
PROPERTIES
  DownstreamDelivers
  UpstreamDelivers
CHECK_DEADLOCK FALSE
