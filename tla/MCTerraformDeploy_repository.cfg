SPECIFICATION Spec
CONSTANTS
    Null = Null
    Hosts = {"laptop"}
    Versions = {"v1", "v2"}
    Repositories = {"meigma", "fork"}
    Zips = {}
    Contents = {}
    Objects = {}
    Damaging = FALSE
    MaxChanges = 2
INVARIANTS
    LambdaRunsTheCachedCopy
