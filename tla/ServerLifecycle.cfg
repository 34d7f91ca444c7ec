\* Two servers, one pending automatic restart, a maximum a race can reach.
CONSTANTS
  UI = ui
  Countdown = countdown
  Restarters = {r1}
  Callers = {ui, countdown, r1}
  Pids = {p1, p2}
  NoPid = NoPid
  MaxAttempts = 1
  CountdownOn = TRUE
SPECIFICATION LFairSpec
INVARIANTS
  LTypeOK
PROPERTIES
  ShutdownLeavesNoServer
  CrashIsAnswered
  InterfaceReturns
