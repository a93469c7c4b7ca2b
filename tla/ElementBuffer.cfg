SPECIFICATION Spec
CONSTANTS
  RcvLen = 2
  SendLen = 2
  UsableSpace = 2
  EB_LEN_BYTES = 1
  short = short
  long = long
  Payload <- MCPayload
  Length <- MCLength
  MaxLength = 4
  NoPayload = NoPayload
  EB_END_IDX = EB_END_IDX
  EB_NULL_IDX = EB_NULL_IDX
  NoByte = NoByte
INVARIANTS
  BufferIsOk
  ChainsReadBack
  RoomForAllButLast
PROPERTY ImplementsBuffer
