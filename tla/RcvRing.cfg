SPECIFICATION Spec
CONSTANTS
  SeqCount = 7
  RcvLen = 5
  HorizonWidth = 2
  ARQ_MAXIMUM_HORIZON = 3
  Idx = {e1, e2, e3, e4, e5}
  EB_NULL_IDX = EB_NULL_IDX
  Payload = {p1, p2, p3}
  NoPayload = NoPayload
  NoPacket = NoPacket
  TooLong = {p3}
SYMMETRY Symmetry
INVARIANTS
  TypeOK
  HorizonClear
  SlotsAgree
  PayloadsOwned
PROPERTY ImplementsWindow
