SPECIFICATION Spec
CONSTANTS
  a1 = a1
  u1 = u1
  u2 = u2
  v1 = v1
  v2 = v2
  org = org
  ok = ok
  bad = bad
  k1 = k1
  r1 = r1
  s1 = s1
  s2 = s2
  p1 = p1
  p2 = p2
  d1 = d1
  d2 = d2
  Actors = {a1, u1, u2}
  Orgs = {org}
  Users = {u1, u2}
  Keys = {k1}
  Revisions = {v1, v2}
  RevisionsOf <- MCRevisionsOf
  Filters <- FixedOnly
  AnyActor = AnyActor
  AnyResult = AnyResult
  Erased = Erased
  Results = {ok}
  Erasable = {a1}
  NoTime = NoTime
  RequestIds = {r1}
  NoRequestId = NoRequestId
  Secrets = {NoSecret, s1}
  LongSecrets = {s1}
  NoSecret = NoSecret
  PrepareScope <- MCPrepareScope
  DownloadScope <- MCDownloadScope
  OrgOf <- MCOrgOf
  FirstLedger <- MCFirstLedger
  Preparers = {p1}
  Downloaders = {d1, d2}
  NoCall = NoCall
  NoArtifact = NoArtifact
  NoConflict = NoConflict
  exportTTL = 1
  exportMaxRows = 1
  Retention = 1
  MaxTime = 1
  MaxEvents = 1
SYMMETRY ProcessSymmetry
INVARIANTS
  TypeOK
  RecordedOnce
  EvidenceTruthful
  DeliverySound
PROPERTIES
  ArtifactImmutable
  ErasedNamesExpire
  ImplementsContract
