SPECIFICATION Spec
CONSTANTS
  Nodes = {n1}
  BsNodes = {n1}
  Master = Master
  Ops = {"create", "modify", "block"}
  Overlap = {}
  MaxOps = 3
  MaxKey = 1
  MaxLost = 0
  MaxDrops = 0
INVARIANTS BlockedIsOff
CHECK_DEADLOCK FALSE
