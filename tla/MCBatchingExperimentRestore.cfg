CONSTANTS
  Arms <- TwoArms
  ResumePlan <- ResumeArms
  Rows = 10
  MaxCount = 1
  MaxAttempts = 1
SPECIFICATION UninterruptedSpec
PROPERTIES WorkerRestored
CHECK_DEADLOCK FALSE
