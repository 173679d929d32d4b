\* Three consumers want a reference, and two can have one (MaxRefcount 3).
\* No symmetry: it is unsound for liveness.
SPECIFICATION ClientsSpec
CONSTANTS
  c1 = c1
  c2 = c2
  c3 = c3
  Consumers <- ThreeConsumers
  MaxRefcount = 3
  MaxItems = 3
  ReleasesAll = FALSE
INVARIANTS
  ClientsTypeOK
  NoEarlyDrop
  WaitedElementIsAccessible
  NoLeak
PROPERTIES
  ImplementsMulticast
  FinalResumesReaders
