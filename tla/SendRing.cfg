SPECIFICATION Spec
CONSTANTS
  SeqCount = 5
  SendLen = 4
  ResendDepth = 3
  MaskBits = 2
  Idx = {e1, e2, e3}
  EB_NULL_IDX = EB_NULL_IDX
  Payload = {p1, p2}
  NoPayload = NoPayload
  NoPacket = NoPacket
SYMMETRY Symmetry
INVARIANTS
  TypeOK
  CountersAgree
  SlotsAgree
  PayloadsOwned
  AnnouncedIsRead
PROPERTY ImplementsQueue
