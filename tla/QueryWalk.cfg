SPECIFICATION FairSpec
CONSTANTS
  u1 = u1
  u2 = u2
  o1 = o1
  Identities = {u1, u2}
  Orgs = {o1}
  Blank = Blank
  Denied = Denied
  Principals <- MCPrincipals
  Kinds = {"business", "governance"}
  Retention <- MCRetention
  BusinessMaxPageSize = 2
  DefaultLimit = 2
  MaxLimit = 4
  Limits = {1, 5}
  Froms <- UtcFroms
  NoTime = NoTime
  Erased = Erased
  EventIds = {1, 5}
  OrgOf <- MCOneWriter
  FirstEvents <- ThreeEvents
  NoCursor = NoCursor
  NoPlan = NoPlan
  MaxTime = 2
  MaxEvents = 4
INVARIANTS
  TypeOK
  WalkComplete
  LowerBoundKept
  PageWithinGrant
PROPERTIES
  StableOrder
  WalkEnds
