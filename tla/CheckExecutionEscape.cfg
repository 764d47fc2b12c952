SPECIFICATION FairSpec
CONSTANTS
  k1 = k1
  Kids <- Descendants
  MayEscape = TRUE
  MayChangeUser = FALSE
  MaxLogBytes = 1
  MaxWritten = 2
PROPERTIES DeadlineEnforced
