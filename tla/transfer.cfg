SPECIFICATION FairSpec
CONSTANTS
  c1 = c1
  c2 = c2
  Clients = {c1, c2}
  Cap = 2
  ServerTree = 3
  ClientTree <- SmallTrees
  Streamed = 1
  Uploads <- OneUpload
  MaxChanges = 1
  MaxEvents = 1
INVARIANTS
  TypeOK
  

  
CHECK_DEADLOCK FALSE
