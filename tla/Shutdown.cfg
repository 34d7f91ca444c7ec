\* One task of each kind and one pending restart, besides the program's own threads.
CONSTANTS
  Refreshes = {refresh}
  Scans = {fullScan}
  Restarters = {restarter}
SPECIFICATION FairSpec
INVARIANTS
  TypeOK
  LoopsUseLiveParts
  StragglersBounded
  WritesReachDatabase
PROPERTY
  ShutdownEnds
CHECK_DEADLOCK FALSE
