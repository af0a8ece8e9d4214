SPECIFICATION MCFairSpec
CONSTANTS
    r1 = r1
    r2 = r2
    r3 = r3
    Runners <- MCRunners
    Mode <- MCBothApply
    Manifests <- MCVaried
    Fields <- MCFields
    Values <- MCValues
    Edits <- MCEdits
    Private = TRUE
    PageSize = 3
    MaxRulesets = 6
    MaxEdits = 0
    Failing = FALSE
INVARIANTS
    ApplyConverges
    PlanMeansDrift
PROPERTIES
    OwnWritesOnlyRepair
    UndisturbedRunSucceeds
