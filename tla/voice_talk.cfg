SPECIFICATION Spec
CONSTANTS
  Peers = {a, b}
  Rooms = {r1}
  NoRoom = none
  Nobody = nobody
  MaxPeers = 2
  QueueLimit = 3
  MaxGap = 1
  MaxRate = 1
  MaxStream = 1
  MaxSeq = 2
  Watched = {}
  UpLimit = 2
  IncomingLimit = 1
  MaxAsks = 2
  Flaky = {a}
  Devices = {a}
INVARIANTS TalkTypeOK SpeakerWillKnow FloorIsAccountedFor FramesAreCarried
