SPECIFICATION FairSpec
CONSTANTS
  Users = {1, 2}
  Sessions = {s1}
  None = None
  Newcomers <- PoisonNewcomers
  Modifications <- NoBodies
  Ops = {"create"}
  IncludeLimited = FALSE
  Overlap = FALSE
  MaxOps = 2
  MaxUsed = 1
PROPERTIES OverdueIsSettled
