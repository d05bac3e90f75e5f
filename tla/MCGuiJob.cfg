SPECIFICATION FairSpec
CONSTANTS
  MaxJobs = 2
  MaxRows = 2
INVARIANTS StopIsHonoured SummaryIsOwnRow OnlySuccessOpens
PROPERTIES ResultsArePresented
