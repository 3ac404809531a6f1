CONSTANTS
  c1 = c1
  a1 = a1
  d1 = d1
  d2 = d2
  Campaign = {c1}
  Unit = {a1, d1, d2}
  Parent <- ParentOf
  Pageless = {d2}
  Slot = {s1, s2}
  Obj = {m1, m2, m3, m4, m5, m6}
  None = None
  MaxRequests = 2
  MaxFaults = 1
  MaxAttempts = 2
SPECIFICATION FairSpec
INVARIANTS AdsTypeOK LinkedIsOwn LaunchedOnce MetaFirst
PROPERTIES LinksKept DeliveryIsSeen PushCompletes
CHECK_DEADLOCK FALSE
