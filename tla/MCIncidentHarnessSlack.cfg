CONSTANTS
  first = first
  second = second
  MaxPods = 2
  AutoRestart = TRUE
  Webhooks <- OneWebhook
SPECIFICATION FairHarnessSpec
PROPERTIES AlwaysNotified
CHECK_DEADLOCK FALSE
