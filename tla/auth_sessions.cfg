SPECIFICATION Spec
CONSTANTS
  Users = {u1}
  Requests = {r1, r2, r3}
  Tokens = {t1, t2, t3}
  Devices = {d1}
  NoOne = nobody
  NoRequest = none
  SessionLimit = 3
  UserLimit = 2
  StreamLimit = 1
  VersionLimit = 3
  CodeLimit = 1
SYMMETRY AuthSymmetry
INVARIANTS AuthTypeOK OneUselessSession OnlyLateCodes StreamsRegistered
