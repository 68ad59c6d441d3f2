SPECIFICATION BenchmarksSpec
CONSTANTS
    Submissions <- MCSubmissions
    Words <- MCWords
    OverriddenGroups = {1}
    Limit = 3
    VisibleSeries = 1
    Timeframes = {15}
    Null = Null
INVARIANTS BenchmarksTypeOK ChangesAgree
PROPERTY EffectsFit
