SPECIFICATION FairSpec
CONSTANTS
    Polls = 6
    Failing = TRUE
    MaxReruns = 3
INVARIANTS
    TypeOK
    PublishedIsComplete
    VerifiedDownloadIsAttested
PROPERTIES
    DraftInTimePublishes
    WaitForDraftEnds
