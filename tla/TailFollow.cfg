SPECIFICATION FairSpec
CONSTANTS
  Modes = {"lines", "bytes"}
  Windows = {"finite", "none"}
  LastN = {1}
  Byte = {"cr", "nl", "hi", "lo"}
  Initial <- MCInitial
  Chunks <- MCChunks
  MaxLen = 3
  MaxRewrites = 1
INVARIANT RowsMatchFile
INVARIANT BytesContiguous
PROPERTY RestartNeedsRewrite
PROPERTY Terminates
PROPERTY CatchesUp
