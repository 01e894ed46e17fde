SPECIFICATION Spec
CONSTANTS
  Half = 256
  Top = 16
  ByteXor <- MCXor
  SizeMaxPacketSize = 5
  MaxPacketSizeInBytes = 29
  Streams <- MCStreams
INVARIANT
  ClientPayloadArrives
CHECK_DEADLOCK FALSE
