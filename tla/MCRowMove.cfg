SPECIFICATION FairSpec
CONSTANTS
  Source <- MCSource
  FirstLen <- MCFirstLen
  Requests <- MCRequests
  FrameRows = 2
  ExportCap = 1
  ImportCap = 2
  Word = 16
  MaxAdds = 2
INVARIANTS TypeOK FailsOnlyOnFaults
PROPERTIES WholeOrNothing TransferEnds
CHECK_DEADLOCK FALSE
