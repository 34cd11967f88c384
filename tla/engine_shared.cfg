SPECIFICATION FairSpec
CONSTANTS
  a = a
  b = b
  w1 = w1
  w2 = w2
  sig = sig
  h = h
  m = m
  Paths <- OnePath
  Hashes = {h}
  Modes = {m}
  Signal = sig
  Workers = {w1, w2}
  Tickers = {w2}
  Files <- OneFile
  ClientTrees <- SomeTrees
  Trimmed <- SameLine
  MaxEdits = 3
  MaxRuns = 2
INVARIANTS
  TypeOK
  LocalKnown
PROPERTIES
  
  TreeCatchesUp
CHECK_DEADLOCK FALSE
