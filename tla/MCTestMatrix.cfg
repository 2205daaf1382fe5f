SPECIFICATION Spec
CONSTANTS
  Production = {"prod"}
  Levels <- MCLevels
  FileFlags <- MCFileFlags
  JobTable <- MCJobs
  FirstLane <- MCFirst
  SecondLane <- MCSecond
  SweepLane <- MCSweep
  ShareLane <- MCShare
  Remaining <- MCRemaining
  MaxRuns = 2
  MaxDays = 2
  MaxSlips = 2
INVARIANTS Spark02Kept
PROPERTIES FilesTell
CHECK_DEADLOCK FALSE
