SPECIFICATION LinkSpec
CONSTANTS
  Half = 6
  MaxCount = 13
  Server = Server
  Receiver = Receiver
  Bystander = Bystander
  Worlds <- MCWorlds
  MaxAnswers = 1
  MaxResets = 1
  MaxTime = 14
INVARIANTS
  TypeOK
  KeepsTheNewest
  OrderIsKept
  DeltasInTime
  NeverEarly
  BatchesInOrder
  KeepsUp
PROPERTIES
  IsLossyNetwork
CHECK_DEADLOCK FALSE
