-------------------------- MODULE ReleasePipeline --------------------------
(***************************************************************************)
(* The release of one tag: release-please makes the tag and a draft, the   *)
(* tag's workflow (.github/workflows/release.yml) waits for the draft,     *)
(* builds, attests, uploads and publishes, a person may rerun the workflow *)
(* or parts of it, and a consumer downloads what is published.             *)
(*                                                                         *)
(* No step takes back what an earlier one did, and any step may fail.      *)
(***************************************************************************)
EXTENDS Naturals, FiniteSets

CONSTANTS
    Polls,          \* attempt_max of wait-for-draft-release.sh
    Failing,        \* steps may fail, answers may be lost
    MaxReruns       \* bound on reruns by a person

ASSUME PipelineAssumption ==
    /\ Polls \in Nat \ {0} /\ MaxReruns \in Nat
    /\ Failing \in BOOLEAN

VARIABLES
    setting,        \* "immutable" if published assets cannot be changed
    tag,            \* the tag is pushed
    release,        \* the release of the tag: "none", "draft" or "published"
    assets,         \* asset -> the build it is of
    attested,       \* builds with a provenance attestation
    builds,         \* builds so far
    step,           \* where the workflow run is
    polls,          \* attempts of wait-for-draft-release.sh
    replacing,      \* assets gh release upload has still to delete
    missing,        \* assets it has still to upload
    succeeded,      \* jobs of the run that succeeded in their latest attempt
    reruns,         \* reruns so far
    got             \* asset -> the build of the consumer's copy

onGitHub == <<setting, tag, release, assets>>
uploading == <<replacing, missing>>
vars == <<onGitHub, attested, builds, step, polls, uploading, succeeded, reruns, got>>

Asset == {"zip", "checksums"}
None == 0
Jobs == {"verify-draft-release", "release", "publish-draft-release"}
JobOf == [wait |-> "verify-draft-release", build |-> "release", attest |-> "release",
          upload |-> "release", publish |-> "publish-draft-release"]

\* The workflow may end a run itself, or one of its steps may break.
Ended == {"ok", "failed", "broken"}
Idle == step \in {"none"} \cup Ended

----------------------------------------------------------------------------
(* release-please: the tag and the draft, in either order; its run may be  *)
(* cancelled by the next push and then makes only one of them              *)

PushTag ==
    /\ ~tag
    /\ tag' = TRUE
    /\ step' = "wait"
    /\ UNCHANGED <<setting, release, assets, attested, builds, polls, uploading, succeeded, reruns, got>>

CreateDraft ==
    /\ release = "none"
    /\ release' = "draft"
    /\ UNCHANGED <<setting, tag, assets, attested, builds, step, polls, uploading, succeeded, reruns, got>>

----------------------------------------------------------------------------
(* The workflow run                                                        *)

Succeed(job) == succeeded' = succeeded \cup {job}

\* Mutant of WaitForDraft: the last attempt is counted like the others.
WaitOnceMore ==
    /\ step = "wait"
    /\ release = "none"
    /\ polls' = polls + 1
    /\ step' = IF polls = Polls THEN "failed" ELSE "wait"
    /\ UNCHANGED <<onGitHub, attested, builds, uploading, succeeded, reruns, got>>

\* Mutant of WaitForDraft: the test of isDraft is the wrong way round.
WaitForPublished ==
    /\ step = "wait"
    /\ release # "none"
    /\ step' = IF release = "published" THEN "build" ELSE "failed"
    /\ succeeded' = succeeded \cup {"verify-draft-release"}
    /\ UNCHANGED <<onGitHub, attested, builds, polls, uploading, reruns, got>>

\* Mutant of WaitForDraft: the attempts are not counted.
WaitForEver ==
    /\ step = "wait"
    /\ step' = CASE release = "draft" -> "build" [] release = "published" -> "failed"
                 [] release = "none" -> "wait"
    /\ succeeded' = IF release = "draft" THEN succeeded \cup {"verify-draft-release"} ELSE succeeded
    /\ UNCHANGED <<onGitHub, attested, builds, polls, uploading, reruns, got>>

\* wait-for-draft-release.sh: six attempts, and a release that is no draft any
\* more is an error.
WaitForDraft ==
    /\ step = "wait"
    /\ \/ /\ release = "draft"
          /\ step' = "build"
          /\ Succeed("verify-draft-release")
          /\ UNCHANGED polls
       \/ /\ release = "published"
          /\ step' = "failed"
          /\ UNCHANGED <<polls, succeeded>>
       \/ /\ release = "none"
          /\ polls' = polls + 1
          /\ step' = IF polls' = Polls THEN "failed" ELSE "wait"
          /\ UNCHANGED succeeded
    /\ UNCHANGED <<onGitHub, attested, builds, uploading, reruns, got>>

\* A zip holds the time of its build: two builds differ.
Build ==
    /\ step = "build"
    /\ builds' = builds + 1
    /\ step' = "attest"
    /\ UNCHANGED <<onGitHub, attested, polls, uploading, succeeded, reruns, got>>

\* gh release upload --clobber looks up what it has to delete.
LookUpAssets ==
    /\ replacing' = {a \in Asset : assets[a] # None}
    /\ missing' = Asset

\* Mutant of Attest: the attestation is left for after the upload.
AttestLater ==
    /\ step = "attest"
    /\ LookUpAssets
    /\ step' = "upload"
    /\ UNCHANGED <<onGitHub, attested, builds, polls, succeeded, reruns, got>>

Attest ==
    /\ step = "attest"
    /\ attested' = attested \cup {builds}
    /\ LookUpAssets
    /\ step' = "upload"
    /\ UNCHANGED <<onGitHub, builds, polls, succeeded, reruns, got>>

Changeable == release = "draft" \/ (release = "published" /\ setting = "mutable")

DeleteAsset(a) ==
    /\ step = "upload"
    /\ a \in replacing
    /\ Changeable
    /\ assets' = [assets EXCEPT ![a] = None]
    /\ replacing' = replacing \ {a}
    /\ UNCHANGED <<setting, tag, release, attested, builds, step, polls, missing, succeeded, reruns, got>>

\* The last asset ends the job.
UploadAsset(a) ==
    /\ step = "upload"
    /\ a \in missing \ replacing
    /\ Changeable
    /\ assets' = [assets EXCEPT ![a] = builds]
    /\ missing' = missing \ {a}
    /\ IF missing' = {}
       THEN step' = "publish" /\ Succeed("release")
       ELSE UNCHANGED <<step, succeeded>>
    /\ UNCHANGED <<setting, tag, release, attested, builds, polls, replacing, reruns, got>>

UploadRefused ==
    /\ step = "upload"
    /\ ~Changeable
    /\ step' = "failed"
    /\ UNCHANGED <<onGitHub, attested, builds, polls, uploading, succeeded, reruns, got>>

Flip ==
    /\ step = "publish"
    /\ release # "none"
    /\ release' = "published"

\* publish-draft-release.sh.
Publish ==
    /\ Flip
    /\ step' = "ok"
    /\ Succeed("publish-draft-release")
    /\ UNCHANGED <<setting, tag, assets, attested, builds, polls, uploading, reruns, got>>

PublishAnswerLost ==
    /\ Failing
    /\ Flip
    /\ step' = "broken"
    /\ UNCHANGED <<setting, tag, assets, attested, builds, polls, uploading, succeeded, reruns, got>>

StepFails ==
    /\ Failing
    /\ ~Idle
    /\ step' = "broken"
    /\ UNCHANGED <<onGitHub, attested, builds, polls, uploading, succeeded, reruns, got>>

\* Mutant of Rerun: a job runs again without those before it.
RerunAnyJob(first) ==
    /\ step \in Ended /\ reruns < MaxReruns
    /\ reruns' = reruns + 1
    /\ step' = first
    /\ polls' = 0
    /\ UNCHANGED <<onGitHub, attested, builds, uploading, succeeded, got>>

\* A person reruns all jobs, the failed ones, or one and those that need it:
\* the jobs before the first to run have succeeded.
Rerun(first) ==
    LET redone == {JobOf[s] : s \in CASE first = "wait" -> {"wait", "build", "publish"}
                                      [] first = "build" -> {"build", "publish"}
                                      [] first = "publish" -> {"publish"}}
    IN  /\ step \in Ended /\ reruns < MaxReruns
        /\ Jobs \ redone \subseteq succeeded
        /\ reruns' = reruns + 1
        /\ step' = first
        /\ polls' = 0
        /\ succeeded' = succeeded \ redone
        /\ UNCHANGED <<onGitHub, attested, builds, uploading, got>>

----------------------------------------------------------------------------
(* A consumer: gh release download --clobber of terraform/main.tf          *)

Download(a) ==
    /\ release = "published"
    /\ assets[a] # None
    /\ got' = [got EXCEPT ![a] = assets[a]]
    /\ UNCHANGED <<onGitHub, attested, builds, step, polls, uploading, succeeded, reruns>>

\* sha256sum --check.
ChecksumsMatch == got["zip"] # None /\ got["zip"] = got["checksums"]

----------------------------------------------------------------------------
(* The specification                                                       *)

Init ==
    /\ setting \in {"immutable", "mutable"}
    /\ tag = FALSE
    /\ release = "none"
    /\ assets = [a \in Asset |-> None]
    /\ attested = {}
    /\ builds = 0
    /\ step = "none"
    /\ polls = 0
    /\ replacing = {} /\ missing = {}
    /\ succeeded = {}
    /\ reruns = 0
    /\ got = [a \in Asset |-> None]

RunStep ==
    \/ WaitForDraft \/ Build \/ Attest
    \/ \E a \in Asset : DeleteAsset(a) \/ UploadAsset(a)
    \/ UploadRefused \/ Publish

Rest == Idle /\ UNCHANGED vars

Next ==
    \/ PushTag \/ CreateDraft
    \/ RunStep
    \/ PublishAnswerLost \/ StepFails
    \/ \E first \in {"wait", "build", "publish"} : Rerun(first)
    \/ \E a \in Asset : Download(a)
    \/ Rest

Spec == Init /\ [][Next]_vars

\* A runner goes on with its run.
FairSpec == Spec /\ WF_vars(RunStep)

----------------------------------------------------------------------------
(* Properties                                                              *)

TypeOK ==
    /\ setting \in {"immutable", "mutable"}
    /\ tag \in BOOLEAN
    /\ release \in {"none", "draft", "published"}
    /\ assets \in [Asset -> 0..builds]
    /\ attested \subseteq 1..builds
    /\ builds \in Nat
    /\ step \in DOMAIN JobOf \cup {"none"} \cup Ended
    /\ polls \in 0..Polls
    /\ replacing \subseteq Asset /\ missing \subseteq Asset
    /\ succeeded \subseteq Jobs
    /\ reruns \in 0..MaxReruns
    /\ got \in [Asset -> 0..builds]

\* Where published releases are immutable, what consumers can see is complete:
\* both assets of one attested build, through failed uploads, lost answers and
\* reruns of any job.
PublishedIsComplete ==
    setting = "immutable" /\ release = "published" =>
        /\ assets["zip"] # None
        /\ assets["zip"] = assets["checksums"]
        /\ assets["zip"] \in attested

\* A download that passes the checksums is the zip of one attested build, also
\* when a rerun replaces the assets between the consumer's two requests.
VerifiedDownloadIsAttested == ChecksumsMatch => got["zip"] \in attested

\* Once the draft is there before the last attempt, the run publishes it unless
\* one of its steps breaks, and it does not go on for ever.
DraftInTimePublishes ==
    (step = "wait" /\ release = "draft")
        ~> ((release = "published" /\ step = "ok") \/ step = "broken")

\* A run does not wait for ever for a draft that never comes, as when release-please
\* was cancelled between the tag and the draft: it gives up and fails.
WaitForDraftEnds ==
    (step = "wait" /\ release = "none") ~> (release # "none" \/ step \in {"failed", "broken"})
=============================================================================
