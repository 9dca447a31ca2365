SPECIFICATION Spec
CONSTANTS
  Kinds = {"Scan", "Filter", "BasicJoin"}
  MaxItems = 3
  MaxRows = 2
  Limit = 0
  WideRows = FALSE
  BufferSz = 2
  OutBuf = 2
  Pipe = 1
INVARIANTS ReadsWhatWasSent
