SPECIFICATION ScopeSpec
CONSTANTS
  u1 = u1
  u2 = u2
  o1 = o1
  o2 = o2
  Identities = {u1, u2}
  Orgs = {o1, o2}
  Blank = Blank
  Denied = Denied
  Principals <- MCPrincipals
  MaxTime = 2
INVARIANTS
  ScopeTypeOK
  NeverWidens
  NeverNarrows
