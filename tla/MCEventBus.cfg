\* Three events: two of one thread, whose order matters, and one of another.
CONSTANTS
  monitor = monitor
  scanner = scanner
  Publishers <- MCPublishers
  Quota <- MCQuota
  dashboard = dashboard
  all = all
  Types <- MCTypes
  Handlers <- MCHandlers
  Listens <- MCListens
  UI = ui
  Nobody = Nobody
SPECIFICATION FairSpec
INVARIANTS
  NoCallAfterUnsubscribe
  DeferredInOrder
PROPERTY
  DeferredDelivered
CHECK_DEADLOCK FALSE
