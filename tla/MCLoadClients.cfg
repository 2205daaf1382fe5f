SPECIFICATION Spec
CONSTANTS
  Lanes <- MCLanes
  Clients <- MCClients
  Servers <- MCServers
  Sessions = 3
  Burst = 4
  Permits = 2
  Turns = 2
  Requests = 3
  Deadline = 2
  MaxCalls = 5
  MaxFaults = 2
INVARIANTS VerdictRight LoadAsReported FiguresFresh
PROPERTIES EndsClean
CHECK_DEADLOCK FALSE
