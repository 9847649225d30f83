SPECIFICATION FairSpec
CONSTANTS
  Users = {u1}
  Requests = {r1, r2}
  Tokens = {t1, t2}
  Devices = {d1}
  NoOne = nobody
  NoRequest = none
  SessionLimit = 2
  UserLimit = 2
  StreamLimit = 1
  VersionLimit = 3
  CodeLimit = 1
PROPERTIES StreamsEnd SessionsAreAtomic
