SPECIFICATION Spec
CONSTANTS
  c1 = c1
  c2 = c2
  c3 = c3
  i1 = i1
  i2 = i2
  i3 = i3
  Client <- MCClient
  LineId <- MCLineId
  Kind <- Posting
  NoLine = NoLine
  Line <- MCLine
  Moves <- DocumentMoves
  SyncMoves <- DocumentSyncMoves
  Reported <- StockEntries
  Policy <- DocumentRules
  CreateStatus <- Draft
  RacingEdits = TRUE
SYMMETRY Symmetry
CHECK_DEADLOCK FALSE
PROPERTY EditsOnlyDrafts
