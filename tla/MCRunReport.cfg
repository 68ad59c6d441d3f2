SPECIFICATION FairSpec
CONSTANTS
  None = None
  ConfiguredPackages <- MCConfiguredPackages
  Suites <- MCSuites
  Filters <- MCFilters
  Summaries <- MCSummaries
  MaxExecutions = 2
INVARIANTS TypeOK FailuresStand ReportSound
PROPERTY ExecutionEnds
CHECK_DEADLOCK FALSE
