SPECIFICATION Spec
CONSTANTS
  Production = {"prod"}
  Levels <- MCLevels
  FileFlags <- MCFileFlags
  JobTable <- MCJobs
  FirstLane <- MCFirst
  SecondLane <- MCSecond
  SweepLane <- MCSweep
  ShareLane <- MCShare
  Remaining <- MCRemaining
  MaxRuns = 1
  MaxDays = 2
  MaxSlips = 2
INVARIANT TechniqueApplied
CHECK_DEADLOCK FALSE
