SPECIFICATION AccessSpec
CONSTANTS
  Nodes = {n1, n2}
  BsNodes = {}
  BsNode = n1
  Master = Master
  Ops = {"create", "modify", "delete", "delete_expired", "reset", "revoke", "next_plan", "sync", "review", "disable_all", "activate_all", "reset_all", "crash"}
  BlockOps = {"create", "delete", "review", "activate_all", "disable_all", "block", "unblock", "crash"}
  Overlap = {}
  MaxOps = 5
  MaxKey = 2
  MaxLost = 0
  MaxDrops = 1
  Null = Null
INVARIANT CoresInSync
PROPERTIES SyncCutsOff OverdueIsSettled
CHECK_DEADLOCK FALSE
