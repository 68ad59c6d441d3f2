SPECIFICATION Spec
CONSTANTS
  None = None
  Unit = 100
  MaxReplays = 2
  Assignments <- MCAssignments
  Versions <- MCVersions
  Setups <- MCSetups
  Outcomes <- MCOutcomes
  Publications <- MCPublications
  Posts <- MCPosts
  OtherUploads <- MCOtherUploads
INVARIANTS TypeOK ReportComplete FailuresEnforced
PROPERTY ReplayKeepsFacts
CHECK_DEADLOCK FALSE
