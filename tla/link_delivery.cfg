SPECIFICATION LinkSafety
CONSTANTS
  Me = d1
  MaxLate = 1
  DisplayStalls = FALSE
  Admin = admin
  Users = {admin}
  Rooms = {r1}
  Devices = {d1}
  Keys = {k1, k2}
  Texts = {t1}
  PairingCodes = {p1}
  InviteCodes = {}
  Nobody = nobody
  RoomLimit = 1
  MessageLimit = 2
  PairingLimit = 1
  ActiveLimit = 1
  RetainedLimit = 1
  InvitationLimit = 0
  MaxCredentials = 2
SYMMETRY LinkSymmetry
INVARIANTS LinkTypeOK ReceivedIsInFlash ReadWasDisplayed
PROPERTIES NoMessageComesBack DeliversInOrder
