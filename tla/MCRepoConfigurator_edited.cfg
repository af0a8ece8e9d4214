SPECIFICATION MCEditedSpec
CONSTANTS
    r1 = r1
    r2 = r2
    r3 = r3
    Runners <- MCThreeRunners
    Mode <- MCPlanAndApply
    Manifests <- MCWholeOrSmall
    Fields <- MCFields
    Values <- MCValues
    Edits <- MCEdits
    Private = FALSE
    PageSize = 3
    MaxRulesets = 6
    MaxEdits = 1
    Failing = TRUE
INVARIANTS
    TypeOK
    IInv
    ApplyConverges
    PlanMeansDrift
    AmbiguityStopsRuns
PROPERTIES
    LeavesTheRestAlone
    SoleRunsMakeNoDuplicate
