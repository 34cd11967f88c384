SPECIFICATION Spec
CONSTANTS
  a = a
  b = b
  c1 = c1
  c2 = c2
  srvHost = srvHost
  m644 = m644
  Server = srvHost
  Modes = {m644}
  FileMode = m644
  Hashes <- Contents
  Trimmed <- SameLine
  Clients = {c1, c2}
  Paths <- TwoPaths
  InitInodes <- Empty
  Sizes = {1}
  Kinds = {"file"}
  Editors = {c1, c2, srvHost}
  EditWhen = {"quiet"}
  TickWhen = {"quiet"}
  FailWhen = {}
  Limit <- EditsTicks
SYMMETRY Symmetry
INVARIANTS
  Converged
  LastWriteWins
  DeletionsStick
CHECK_DEADLOCK FALSE
