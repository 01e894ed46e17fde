SPECIFICATION FairSpec
CONSTANTS
  k1 = k1
  k2 = k2
  id1 = id1
  id2 = id2
  data = data
  h1 = h1
  h2 = h2
  Half = 2
  Key <- MCKey
  NilKey = NilKey
  ConnectionId <- MCConnectionId
  NoId = NoId
  NoAck = NoAck
  Payload <- MCPayload
  Stitched = Stitched
  StateHandle <- MCStateHandle
  NoHandle = NoHandle
  HandshakeRetries = 5
  RetryPeriod = 1
  Datagram <- MCDatagram
  MaxSessions = 2
INVARIANTS
  TypeOK
  JoinsOnce
  ConnectedHasHandle
  AnswersBounded
  RemoteFailureIsKeyed
  GivesUpAfterRetries
PROPERTIES
  HandshakeEnds
