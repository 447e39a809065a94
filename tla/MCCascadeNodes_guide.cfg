CONSTANTS
  NodeIds = {n1, n2}
  FirstExit = nobody
  Tags = {c}
  MaxRoutes = 1
  MaxEdits = 3
  MaxPushes = 2
  MaxTasks = 2
SPECIFICATION CascadeSpec
SYMMETRY Symmetry
INVARIANT ReconnectSuffices
CHECK_DEADLOCK FALSE
