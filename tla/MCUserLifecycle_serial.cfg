SPECIFICATION Spec
CONSTANTS
  Users = {1}
  Sessions = {s1}
  None = None
  Newcomers <- AllNewcomers
  Modifications <- AllBodies
  Ops = {"create", "modify", "delete", "delete_expired", "autodelete", "reset", "job_reset", "reset_all", "active_next", "disable_all", "activate_all"}
  IncludeLimited = TRUE
  Overlap = FALSE
  MaxOps = 4
  MaxUsed = 2
INVARIANTS OnHoldHasDuration StatusMatchesData
