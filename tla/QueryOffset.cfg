SPECIFICATION Spec
CONSTANTS
  u1 = u1
  u2 = u2
  o1 = o1
  Identities = {u1, u2}
  Orgs = {o1}
  Blank = Blank
  Denied = Denied
  Principals <- Everything
  Kinds = {"business", "governance"}
  Retention <- MCRetention
  BusinessMaxPageSize = 2
  DefaultLimit = 2
  MaxLimit = 4
  Limits = {1, 5}
  Froms <- OffsetFroms
  NoTime = NoTime
  Erased = Erased
  EventIds = {1, 5}
  OrgOf <- MCOrgOf
  FirstEvents <- TwoEvents
  NoCursor = NoCursor
  NoPlan = NoPlan
  MaxTime = 2
  MaxEvents = 4
INVARIANTS
  LowerBoundKept
