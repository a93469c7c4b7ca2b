SPECIFICATION Spec
CONSTANTS
  SeqCount = 5
  Idx <- MCIdx
  EB_NULL_IDX = 0
  SendLen = 4
  ResendDepth = 3
  MaskBits = 1
  RcvLen = 4
  HorizonWidth = 1
  ARQ_MAXIMUM_HORIZON = 2
  Identifiers <- MCIdentifiers
  A = A
  B = B
  Talkers = {A}
  ConnectTicks <- Reconnect
  Quitters = {}
  MaxPush = 6
  InFlight = 1
  ByteBase = 3
  TickCount = 9
  Elements <- MCElements
  MaxElements = 2
  Empty = {6}
INVARIANTS
  TypeOK
  AckedIsReceived
  WindowsAligned
  RequestsObeyed
PROPERTY InOrder
CHECK_DEADLOCK FALSE
