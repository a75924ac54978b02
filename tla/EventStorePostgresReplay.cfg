SPECIFICATION Spec
CONSTANTS
  p1 = p1
  p2 = p2
  x1 = x1
  x2 = x2
  i1 = i1
  i2 = i2
  a1 = a1
  a2 = a2
  r1 = r1
  b1 = b1
  b2 = b2
  role = role
  evt = evt
  t1 = t1
  t2 = t2
  Ids = {i1}
  Events = {evt}
  Records = {r1}
  Actors = {a1, a2}
  Roles = {role}
  Bodies = {b1, b2}
  Stamps = {t1, t2}
  PlainBodies = {}
  NoRole = NoRole
  Erased = Erased
  NoRow = NoRow
  NoRecord = NoRecord
  NoCall = NoCall
  Requests <- OneIdRequests
  Erasures <- MCErasures
  Appenders = {p1, p2}
  Erasers = {x1}
  Dialect = "postgres"
PROPERTIES
  ExactReplayAccepted
