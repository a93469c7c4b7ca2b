SPECIFICATION FairSpec
CONSTANTS
  NumVC = 2
  SendSlots = 1
  RcvSlots = 1
  Commands = {"arq_connect", "arq_disconnect"}
  PeerIdentifiers = {2}
  MaxPosts = 2
  MaxArrivals = 2
INVARIANTS TypeOK ServedInTurn SentInOrder ConnectingIsTold
PROPERTIES SettledStateIsTold NothingStaysQueued
