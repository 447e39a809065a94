\* Every operation, the ones that tell nobody too, lost calls and soft reconnects.
SPECIFICATION Spec
CONSTANTS
  Nodes = {n1, n2}
  BsNodes = {n1}
  Master = Master
  Ops = {"create", "modify", "delete", "delete_expired", "reset", "revoke", "next_plan", "sync", "review", "disable_all", "activate_all", "reset_all", "job_reset", "active_next", "block", "unblock", "soft", "crash"}
  Overlap = {}
  MaxOps = 4
  MaxKey = 2
  MaxLost = 1
  MaxDrops = 1
PROPERTIES PushRepairs
CHECK_DEADLOCK FALSE
