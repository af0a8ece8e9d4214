SPECIFICATION DeploymentSpec
CONSTANTS
    Null = Null
    Hosts = {"laptop"}
    Versions = {"v1", "v2"}
    Repositories = {"meigma", "fork"}
    Zips = {"a.zip"}
    Contents = {"old", "new"}
    Objects = {}
    Damaging = TRUE
    MaxChanges = 2
    Environments <- MCEnvironments
    Blank = Blank
    Malformed = Malformed
    Refused = Refused
INVARIANTS
    DamagedNeverRuns
    ValidatedDeploymentLoads
