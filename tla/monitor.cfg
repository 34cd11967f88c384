SPECIFICATION FairSpec
CONSTANTS
  f = f
  d = d
  Root = Root
  Files = {f}
  Dirs = {d}
  Parent <- InDirectory
  QueueCap = 2
  ChanCap = 1
  UserOps = {"create", "write", "remove", "chmod"}
  MaxChanges = 3
  MaxWrites = 1
INVARIANTS
  TypeOK
  NoChangeLost
PROPERTIES
  EventuallyReported
CHECK_DEADLOCK FALSE
