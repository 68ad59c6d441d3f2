SPECIFICATION FairPanelsSpec
CONSTANTS
  Null = Null
  p1 = p1
  p2 = p2
  a = a
  b = b
  Panels = {p1, p2}
  ResourceUrls = {a, b}
  Shows <- MCShows
  Prefetched = {a}
  Retried = {p1, p2}
INVARIANT PanelsTypeOK
PROPERTIES ShowsOwnData LoadingEnds
