SPECIFICATION Spec
CONSTANTS
  Admin = admin
  Users = {admin, u1}
  Rooms = {r1}
  Devices = {d1, d2}
  Keys = {k1, k2}
  Texts = {t1, t2}
  PairingCodes = {p1}
  InviteCodes = {}
  Nobody = nobody
  RoomLimit = 1
  MessageLimit = 2
  PairingLimit = 1
  ActiveLimit = 2
  RetainedLimit = 2
  InvitationLimit = 0
  MaxCredentials = 2
SYMMETRY StoreSymmetry
INVARIANTS TypeOK LiveReceiptsAreOfMembers NothingStranded
PROPERTIES WithdrawnIsFinal
