SPECIFICATION Spec
CONSTANTS
  Users = {1}
  Sessions = {s1}
  None = None
  Newcomers <- HoldNewcomers
  Modifications <- HoldBodies
  Ops = {"create", "modify", "disable_all"}
  IncludeLimited = FALSE
  Overlap = TRUE
  MaxOps = 3
  MaxUsed = 0
INVARIANTS OnHoldHasDuration
