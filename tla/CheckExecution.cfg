SPECIFICATION FairSpec
CONSTANTS
  k1 = k1
  Kids <- Descendants
  MayEscape = TRUE
  MayChangeUser = TRUE
  MaxLogBytes = 1
  MaxWritten = 2
INVARIANTS TypeOK LogsComplete LimitDecides NoSurvivor FilesSettled
PROPERTIES ContractSpec DeadlineMet CancellationMet
