SPECIFICATION Spec
CONSTANTS
  a = a
  b = b
  c1 = c1
  c2 = c2
  srvHost = srvHost
  m644 = m644
  Server = srvHost
  Modes = {m644}
  FileMode = m644
  Hashes <- Contents
  Trimmed <- SameLine
  Clients = {c1}
  Paths <- OnePath
  InitInodes <- OneVersion
  Sizes = {1}
  Kinds = {"file"}
  Editors = {}
  EditWhen = {}
  TickWhen = {"quiet", "down", "offline", "upload", "busy"}
  FailWhen = {}
  Limit <- OneTick
INVARIANTS
  NoDataLoss
CHECK_DEADLOCK FALSE
