CONSTANTS
  Arms <- TwoArms
  ResumePlan <- ResumeArms
  Rows = 14
  MaxCount = 1
  MaxAttempts = 2
SPECIFICATION FairSpec
INVARIANTS GpuExclusive MeasuresItsArm PromptsFresh VerifiedRestores
PROPERTY Ends
CHECK_DEADLOCK FALSE
