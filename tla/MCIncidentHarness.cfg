CONSTANTS
  first = first
  second = second
  Webhooks <- TwoWebhooks
  MaxPods = 2
  AutoRestart = TRUE
SPECIFICATION FairHarnessSpec
INVARIANTS TriageSound
PROPERTY Notified
CHECK_DEADLOCK FALSE
