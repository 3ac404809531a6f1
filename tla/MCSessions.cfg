CONSTANTS
  Tab = {t1, t2}
  Slot = {s1, s2}
  Token = {k1, k2, k3, k4}
  NoToken = NoToken
  NoSlot = NoSlot
  MaxSessions = 1
  MaxFaults = 1
SPECIFICATION FairSpec
INVARIANTS SessionsTypeOK OneTokenPerLogin CookieIsLive
PROPERTIES BootEnds SessionsKept
CHECK_DEADLOCK FALSE
