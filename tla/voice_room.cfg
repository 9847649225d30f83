SPECIFICATION FairSpec
CONSTANTS
  Peers = {a, b}
  Rooms = {r1}
  NoRoom = none
  Nobody = nobody
  MaxPeers = 2
  QueueLimit = 2
  MaxGap = 1
  MaxRate = 1
  MaxStream = 2
  MaxSeq = 1
  Watched = {a}
INVARIANTS FloorHasPeer PeersKnowFloor AudioFollowsFloor
PROPERTIES FloorReturns DeniedLeaves
