SPECIFICATION LinkSpec
CONSTANTS
  Me = d1
  MaxLate = 0
  DisplayStalls = FALSE
  Admin = admin
  Users = {admin}
  Rooms = {r1}
  Devices = {d1}
  Keys = {k1, k2}
  Texts = {t1}
  PairingCodes = {p1}
  InviteCodes = {}
  Nobody = nobody
  RoomLimit = 1
  MessageLimit = 2
  PairingLimit = 1
  ActiveLimit = 1
  RetainedLimit = 1
  InvitationLimit = 0
  MaxCredentials = 1
PROPERTIES PendingArrives
