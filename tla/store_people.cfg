SPECIFICATION Spec
CONSTANTS
  Admin = admin
  Users = {admin, u1, u2}
  Rooms = {r1, r2}
  Devices = {d1, d2}
  Keys = {k1}
  Texts = {t1, t2}
  PairingCodes = {p1}
  InviteCodes = {i1}
  Nobody = nobody
  RoomLimit = 1
  MessageLimit = 1
  PairingLimit = 1
  ActiveLimit = 1
  RetainedLimit = 2
  InvitationLimit = 1
  MaxCredentials = 2
SYMMETRY StoreSymmetry
INVARIANTS ActiveDevicesBounded RetryReturnsOriginal
PROPERTIES NewCredentialStartsClean DisabledDevicesAreSilent HistoryNeverOpensBackwards LeavingTakesDevicesAlong
