SPECIFICATION MCSpec
CONSTANTS
    r1 = r1
    r2 = r2
    r3 = r3
    Runners <- MCRunners
    Mode <- MCBothApply
    Manifests <- MCSlugManifests
    Fields <- MCFields
    Values <- MCValues
    Edits <- MCEdits
    Private = FALSE
    PageSize = 3
    MaxRulesets = 6
    MaxEdits = 0
    Failing = FALSE
PROPERTIES
    SlugFormApplies
