-------------------------- MODULE TerraformDeploy --------------------------
(***************************************************************************)
(* terraform/: where the function's code comes from over a sequence of     *)
(* applies, from hosts that each have a cache of their own (.terraform)    *)
(* and share the state.  One apply runs at a time (the state is locked);   *)
(* variables change between applies, a download may be damaged or fail, a  *)
(* local zip may be replaced, a cache removed and the function deleted.     *)
(***************************************************************************)
EXTENDS Naturals, FiniteSets

CONSTANTS
    Hosts,          \* machines that run terraform apply
    Versions,       \* values of lambda_artifact.release_version
    Repositories,   \* values of release_repository
    Zips,           \* values of lambda_artifact.lambda_zip_path
    Contents,       \* what such a zip may hold
    Objects,        \* values of lambda_artifact.lambda_source_s3
    Null,           \* the null of Terraform
    Damaging,       \* a failed download may leave a damaged zip behind
    MaxChanges      \* bound on changes between applies

ASSUME DeployAssumption == Damaging \in BOOLEAN /\ MaxChanges \in Nat /\ Hosts # {}

VARIABLES
    artifact,       \* var.lambda_artifact
    repository,     \* var.release_repository
    content,        \* what the local zips hold
    phase,          \* the apply: "idle", "fetch" or "function"
    host,           \* where it runs
    result,         \* of the last apply: "ok", "error" or "invalid" (it could not
                    \* be evaluated); "none" once something has changed
    cache,          \* host -> version -> the zip in the release cache
    fetched,        \* state of null_resource.fetch_release, Null if there is none
    function,       \* state of aws_lambda_function.broker, Null if there is none
    code,           \* what the function runs
    asked,          \* all code that applies have asked for (a history variable)
    changes         \* changes so far

apply == <<phase, host, result>>
resources == <<fetched, function, code>>
vars == <<artifact, repository, content, apply, cache, resources, asked, changes>>

----------------------------------------------------------------------------
(* variables.tf and locals.tf                                              *)

\* Exactly one source.
Artifacts ==
    [release_version : Versions \cup {Null},
     lambda_zip_path : Zips \cup {Null},
     lambda_source_s3 : Objects \cup {Null}]

Accepted(a) == Cardinality({source \in DOMAIN a : a[source] # Null}) = 1

use_release_asset == artifact.release_version # Null
use_local_zip == artifact.lambda_zip_path # Null

\* coalesce has an error, not null, for an answer when all of it is null.
FilenameFails == ~use_release_asset /\ ~use_local_zip

\* The path in the release cache, which is the same on every host, or the zip's.
lambda_filename ==
    IF use_release_asset THEN <<"cached", artifact.release_version>>
    ELSE <<"local", artifact.lambda_zip_path>>

lambda_source_code_hash == artifact.release_version

\* Code by where it comes from: a release's zip is as it was published or damaged.
LocalZip(z) == <<"local", z, content[z]>>
ReleaseZip(r, v) == <<"release", v, r>>
Damaged == <<"damaged">>
Absent == <<"absent">>

FileContent(h) ==
    IF use_release_asset THEN cache[h][artifact.release_version]
    ELSE LocalZip(artifact.lambda_zip_path)

\* What the variables ask for.
Wanted ==
    IF use_release_asset THEN ReleaseZip(repository, artifact.release_version)
    ELSE IF use_local_zip THEN LocalZip(artifact.lambda_zip_path)
    ELSE <<"s3", artifact.lambda_source_s3>>

----------------------------------------------------------------------------
(* terraform apply                                                         *)

Triggers == [release_version |-> artifact.release_version, release_repository |-> repository]

\* Mutant of FetchNeeded: a tainted download counts as done.
FetchUnlessRecorded ==
    use_release_asset /\ (IF fetched = Null THEN TRUE ELSE fetched.triggers # Triggers)

FetchNeeded ==
    use_release_asset /\ (IF fetched = Null THEN TRUE
                          ELSE fetched.tainted \/ fetched.triggers # Triggers)

\* Evaluation comes before anything is done.  A fetch nobody needs is forgotten
\* (it is destroyed after the function is updated, which nothing can tell).
StartApply(h) ==
    /\ phase = "idle"
    /\ host' = h
    /\ IF FilenameFails
       THEN phase' = "idle" /\ result' = "invalid" /\ UNCHANGED fetched
       ELSE /\ phase' = IF FetchNeeded THEN "fetch" ELSE "function"
            /\ result' = "none"
            /\ fetched' = IF use_release_asset THEN fetched ELSE Null
    /\ asked' = asked \cup {Wanted}
    /\ UNCHANGED <<artifact, repository, content, cache, function, code, changes>>

Cached(zip) == cache' = [cache EXCEPT ![host][artifact.release_version] = zip]

FetchRelease ==
    /\ phase = "fetch"
    /\ Cached(ReleaseZip(repository, artifact.release_version))
    /\ fetched' = [triggers |-> Triggers, tainted |-> FALSE]
    /\ phase' = "function"
    /\ UNCHANGED <<artifact, repository, content, host, result, function, code, asked, changes>>

\* The download fails, or its zip is damaged and sha256sum finds it: the
\* provisioner leaves the zip where it is and the resource tainted.
FetchFails ==
    /\ phase = "fetch"
    /\ (Damaging /\ Cached(Damaged)) \/ UNCHANGED cache
    /\ fetched' = [triggers |-> Triggers, tainted |-> TRUE]
    /\ phase' = "idle"
    /\ result' = "error"
    /\ UNCHANGED <<artifact, repository, content, host, function, code, asked, changes>>

\* Mutant of CodeChanges: the file name is not watched.
OnlyHashWatched ==
    IF function = Null THEN TRUE ELSE function.source_code_hash # lambda_source_code_hash

CodeChanges ==
    IF function = Null THEN TRUE
    ELSE \/ function.filename # lambda_filename
         \/ function.source_code_hash # lambda_source_code_hash

\* The provider's versions differ in whether they read the hash back, which
\* makes them upload the code without a change of the variables.
UpdateFunction ==
    /\ phase = "function"
    /\ FileContent(host) # Absent
    /\ code' = FileContent(host)
    /\ function' = [filename |-> lambda_filename,
                    source_code_hash |-> lambda_source_code_hash]
    /\ phase' = "idle"
    /\ result' = "ok"
    /\ UNCHANGED <<artifact, repository, content, host, cache, fetched, asked, changes>>

KeepFunction ==
    /\ phase = "function"
    /\ ~CodeChanges
    /\ phase' = "idle"
    /\ result' = "ok"
    /\ UNCHANGED <<artifact, repository, content, host, cache, resources, asked, changes>>

\* The zip was downloaded on another host, or is gone from this one.
FileMissing ==
    /\ phase = "function"
    /\ FileContent(host) = Absent
    /\ phase' = "idle"
    /\ result' = "error"
    /\ UNCHANGED <<artifact, repository, content, host, cache, resources, asked, changes>>

----------------------------------------------------------------------------
(* Between applies                                                         *)

Change ==
    /\ phase = "idle"
    /\ changes < MaxChanges
    /\ changes' = changes + 1
    /\ result' = "none"
    /\ UNCHANGED <<phase, host, fetched, asked>>

Configure ==
    /\ Change
    /\ artifact' \in Artifacts /\ Accepted(artifact')
    /\ repository' \in Repositories
    /\ UNCHANGED <<content, cache, function, code>>

ReplaceZip(z) ==
    /\ Change
    /\ \E c \in Contents \ {content[z]} : content' = [content EXCEPT ![z] = c]
    /\ UNCHANGED <<artifact, repository, cache, function, code>>

FunctionDeleted ==
    /\ Change
    /\ function' = Null
    /\ code' = Absent
    /\ UNCHANGED <<artifact, repository, content, cache>>

\* The host's .terraform is removed, as in a fresh checkout; the state is not.
CacheRemoved(h) ==
    /\ Change
    /\ cache' = [cache EXCEPT ![h] = [v \in Versions |-> Absent]]
    /\ UNCHANGED <<artifact, repository, content, function, code>>

Init ==
    /\ artifact \in Artifacts /\ Accepted(artifact)
    /\ repository \in Repositories
    /\ content \in [Zips -> Contents]
    /\ phase = "idle"
    /\ host \in Hosts
    /\ result = "none"
    /\ cache = [h \in Hosts |-> [v \in Versions |-> Absent]]
    /\ fetched = Null
    /\ function = Null
    /\ code = Absent
    /\ asked = {}
    /\ changes = 0

Next ==
    \/ \E h \in Hosts : StartApply(h)
    \/ FetchRelease \/ FetchFails
    \/ UpdateFunction \/ KeepFunction \/ FileMissing
    \/ Configure \/ FunctionDeleted
    \/ \E z \in Zips : ReplaceZip(z)
    \/ \E h \in Hosts : CacheRemoved(h)

Spec == Init /\ [][Next]_vars

----------------------------------------------------------------------------
(* Properties                                                              *)

\* Code that is told apart by neither of the file name and the hash, which is
\* all an apply compares: zips of one version, or of one path.
SameName(c, d) == c[1] = d[1] /\ c[2] = d[2]

\* After an apply that succeeds the function runs code of the version or the path
\* the variables ask for, and code that an apply has asked for as it is, whatever
\* failed, was replaced, removed or fetched from another repository before, and
\* on whichever host.
AppliedMeansDeployed ==
    result = "ok" => code \in {c \in asked : SameName(c, Wanted)}

\* What the description of lambda_artifact says of a release: its zip is verified
\* and the function pointed at the copy in the cache.
LambdaRunsTheCachedCopy ==
    result = "ok" /\ use_release_asset /\ FileContent(host) # Absent =>
        code = FileContent(host)

\* The function never runs a zip whose checksum did not match.
DamagedNeverRuns == code # Damaged
=============================================================================
