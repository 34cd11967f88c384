SPECIFICATION Spec
CONSTANTS
  a = a
  b = b
  c1 = c1
  c2 = c2
  srvHost = srvHost
  m644 = m644
  Server = srvHost
  Modes = {m644}
  FileMode = m644
  Hashes <- Contents
  Trimmed <- SameLine
  Clients = {c1}
  Paths <- TwoPaths
  InitInodes <- TwoVersions
  Sizes = {1}
  Kinds = {"file"}
  Editors = {srvHost}
  EditWhen = {"down"}
  TickWhen = {}
  FailWhen = {"quiet"}
  Limit <- TwoEditsStop
SYMMETRY Symmetry
INVARIANTS
  Converged
  NoDataLoss
  LastWriteWins
  DeletionsStick
CHECK_DEADLOCK FALSE
