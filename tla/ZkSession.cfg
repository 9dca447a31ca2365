SPECIFICATION Spec
CONSTANTS
  Kinds = {"Scan", "Filter", "GroupBy", "ScalarAggregate", "Sort", "FkPkJoin", "PkFkJoin"}
  MaxItems = 3
  MaxRows = 3
  Limit = 2
  WideRows = TRUE
  BufferSz = 1
  OutBuf = 2
  Pipe = 1
INVARIANTS TypeOK ReadsWhatWasSent ChallengesAgree TablesAgree AcceptedIsComplete
PROPERTIES SessionEnds
