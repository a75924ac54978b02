SPECIFICATION Spec
CONSTANTS
  h1 = h1
  h2 = h2
  h3 = h3
  b1 = b1
  b2 = b2
  r1 = r1
  Hosts = {h1, h2, h3}
  KeySize <- MCKeySize
  NoHost = NoHost
  SDK = SDK
  DirectHosts = {h1}
  Drivers = {"sqlite", "oracle"}
  Binders = {b1, b2}
  Requesters = {r1}
  NoCall = NoCall
SYMMETRY BinderSymmetry
INVARIANTS
  TypeOK
  OwnHostAuthorizes
  ExporterClosedOnceBound
  WeakKeyNeverSigns
  AdapterReady
  BoundTogether
  StaysUsable
