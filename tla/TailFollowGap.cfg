SPECIFICATION Spec
CONSTANTS
  Modes = {"bytes"}
  Windows = {"finite"}
  LastN = {2}
  Byte = {"a", "nl"}
  Initial <- FewBytes
  Chunks <- Singles
  MaxLen = 5
  MaxRewrites = 0
INVARIANT NoBytesSkipped
