SPECIFICATION Spec
CONSTANTS
  None = None
  q1 = q1
  q2 = q2
  q3 = q3
  a = a
  b = b
  Producers = {a, b}
  Runs <- MCRuns
  ReportIds <- MCReportIds
  Requests = {q1, q2}
  Payloads <- MCSpecialized
INVARIANT RunShowsSelectedTests
