CONSTANTS
  ada = ada
  bob = bob
  llmdA = llmdA
  dynamoA = dynamoA
  plainB = plainB
  dynamoC = dynamoC
  NoWorkload = NoWorkload
  Operators <- TwoOperators
  Workloads <- AllWorkloads
  Framework <- FrameworkOf
  Served <- ServedBy
  Slug <- SlugFor
  MaxRuns = 3
SPECIFICATION Spec
INVARIANTS RunRepairs
PROPERTIES EmptiedByTeardown
SYMMETRY Interchangeable
CHECK_DEADLOCK FALSE
