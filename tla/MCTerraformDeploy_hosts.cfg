SPECIFICATION Spec
CONSTANTS
    Null = Null
    Hosts = {"laptop", "ci"}
    Versions = {"v1", "v2"}
    Repositories = {"meigma", "fork"}
    Zips = {"a.zip", "b.zip"}
    Contents = {"old", "new"}
    Objects = {"object"}
    Damaging = FALSE
    MaxChanges = 4
INVARIANTS
    AppliedMeansDeployed
