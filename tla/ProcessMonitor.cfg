\* Two callers (the interface and a background thread) and three forks.
CONSTANTS
  Callers = {ui, background}
  Pids = {p1, p2, p3}
  NoPid = NoPid
SPECIFICATION FairSpec
INVARIANTS
  TypeOK
  LiveServerIsTracked
  TrackedPidIsOurChild
PROPERTIES
  OneServerAtATime
  DeathIsNoticed
