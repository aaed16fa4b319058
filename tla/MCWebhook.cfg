SPECIFICATION FairSpec
CONSTANTS
  MaxJobs = 3
  MaxAttempts = 3
  MaxFaults = 2
INVARIANTS TypeOK DeliveriesCounted OutcomesEarned NoneStranded FirstComeFirstTried
PROPERTY JobsSettle
CHECK_DEADLOCK FALSE
