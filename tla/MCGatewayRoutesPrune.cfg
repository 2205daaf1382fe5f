CONSTANTS
  ada = ada
  bob = bob
  llmdA = llmdA
  dynamoA = dynamoA
  plainB = plainB
  dynamoC = dynamoC
  NoWorkload = NoWorkload
  Operators <- OneOperator
  Workloads <- AllWorkloads
  Framework <- FrameworkOf
  Served <- ServedBy
  Slug <- SlugFor
  MaxRuns = 3
SPECIFICATION Spec
INVARIANTS PrunesAbsent
CHECK_DEADLOCK FALSE
