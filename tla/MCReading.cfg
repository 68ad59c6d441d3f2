SPECIFICATION FairSpec
CONSTANTS
    None = None
    All = All
    Runs = {1, 2, 3}
    Projects = {"p", "q"}
    Scopes = {"p", All}
    RunProject <- MCRunProject
    Contents = {1, 2, 3, 4, 5}
    Content <- MCContent
    Legacy = {1}
    Lists <- MCLists
    PageSize = 1
    MaxCoverageChanges = 1
    BadgeLimit = 1
    Collation <- MCCollation
    BatchSize = 1
    MaxCrashes = 1
    MaxChanges = 2
    MaxListChanges = 1
INVARIANTS TypeOK NothingSkipped AnswersSound
 
