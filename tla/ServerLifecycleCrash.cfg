CONSTANTS
  UI = ui
  Countdown = countdown
  Restarters = {r1}
  Callers = {ui, countdown, r1}
  Pids = {p1, p2}
  NoPid = NoPid
  MaxAttempts = 1
  CountdownOn = TRUE
SPECIFICATION HSpec
PROPERTY
  RestartOnlyOnCrash
