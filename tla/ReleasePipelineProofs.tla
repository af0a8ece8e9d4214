----------------------- MODULE ReleasePipelineProofs -----------------------
(***************************************************************************)
(* What every release has, for any number of attempts, failures, reruns    *)
(* and downloads.                                                          *)
(***************************************************************************)
EXTENDS ReleasePipeline, TLAPS

\* The attempts of a run that waits are not used up.
AttemptsLeft ==
    /\ ~tag => polls = 0 /\ step = "none"
    /\ step = "wait" => polls < Polls

\* A step knows what the steps before it have done.
StepsInOrder ==
    /\ step = "attest" => builds \in Nat \ {0}
    /\ step = "upload" => builds \in attested /\ replacing \subseteq missing

\* Whatever anybody can download has been attested.
EverythingAttested ==
    \A a \in Asset : /\ assets[a] \in attested \cup {None}
                     /\ got[a] \in attested \cup {None}

Sound == TypeOK /\ AttemptsLeft /\ StepsInOrder /\ EverythingAttested

Complete ==
    /\ assets["zip"] # None
    /\ assets["zip"] = assets["checksums"]
    /\ assets["zip"] \in attested

\* What is uploaded to a draft is of the last build, and complete once the job
\* has succeeded; a rerun of it forgets the success before it touches an asset.
UploadsAreOfOneBuild ==
    step = "upload" => \A a \in Asset \ missing : release = "draft" => assets[a] = builds

SuccessMeansComplete ==
    /\ "release" \in succeeded => Complete /\ step \in {"publish"} \cup Ended
    /\ step = "publish" => "release" \in succeeded

\* The draft a run has seen does not go away.
DraftSeen ==
    /\ "verify-draft-release" \in succeeded => release # "none"
    /\ step \in {"build", "attest", "upload"} => release # "none"

Kept ==
    /\ Sound
    /\ UploadsAreOfOneBuild
    /\ SuccessMeansComplete
    /\ DraftSeen
    /\ PublishedIsComplete

----------------------------------------------------------------------------
LEMMA AttestedBuilds ==
    ASSUME TypeOK
    PROVE  None \notin attested
BY DEF TypeOK, None

LEMMA RunSteps == DOMAIN JobOf = {"wait", "build", "attest", "upload", "publish"}
BY DEF JobOf

LEMMA SoundInductive == Sound /\ [Next]_vars => Sound'
<1> SUFFICES ASSUME Sound, [Next]_vars
             PROVE  Sound'
    OBVIOUS
<1> USE PipelineAssumption, RunSteps DEF Sound
<1> USE DEF TypeOK, AttemptsLeft, StepsInOrder, EverythingAttested, onGitHub, uploading, Jobs, Ended
<1>1. CASE PushTag
    BY <1>1 DEF PushTag
<1>2. CASE CreateDraft
    BY <1>2 DEF CreateDraft
<1>3. CASE WaitForDraft
    <2>1. /\ step = "wait" /\ tag
          /\ UNCHANGED <<setting, tag, release, assets, attested, builds, replacing, missing, reruns, got>>
        BY <1>3 DEF WaitForDraft
    <2>2. CASE step' = "build" /\ Succeed("verify-draft-release") /\ UNCHANGED polls
        BY <2>1, <2>2 DEF Succeed
    <2>3. CASE step' = "failed" /\ UNCHANGED <<polls, succeeded>>
        BY <2>1, <2>3
    <2>4. CASE /\ polls' = polls + 1
               /\ step' = IF polls' = Polls THEN "failed" ELSE "wait"
               /\ UNCHANGED succeeded
        <3>1. polls' \in 0..Polls /\ polls' # Polls => polls' < Polls
            BY <2>1, <2>4
        <3>2. CASE polls' = Polls
            BY <2>1, <2>4, <3>1, <3>2
        <3>3. CASE polls' # Polls
            BY <2>1, <2>4, <3>1, <3>3
        <3> QED
            BY <3>2, <3>3
    <2> QED
        BY <1>3, <2>2, <2>3, <2>4 DEF WaitForDraft
<1>4. CASE Build
    <2>1. /\ step = "build" /\ builds' = builds + 1 /\ step' = "attest"
          /\ UNCHANGED <<setting, tag, release, assets, attested, polls, replacing, missing, succeeded,
                         reruns, got>>
        BY <1>4 DEF Build
    <2>2. 0..builds \subseteq 0..builds' /\ 1..builds \subseteq 1..builds'
        BY <2>1
    <2> QED
        BY <2>1, <2>2
<1>5. CASE Attest
    BY <1>5 DEF Attest, LookUpAssets, None
<1>6. ASSUME NEW a \in Asset, DeleteAsset(a)
      PROVE  Sound'
    BY <1>6 DEF DeleteAsset, None
<1>7. ASSUME NEW a \in Asset, UploadAsset(a)
      PROVE  Sound'
    <2>1. /\ assets' = [assets EXCEPT ![a] = builds]
          /\ missing' \subseteq missing /\ a \notin replacing /\ missing' = missing \ {a}
          /\ step = "upload" /\ step' \in {"upload", "publish"}
          /\ succeeded' \subseteq Jobs
          /\ UNCHANGED <<setting, tag, release, attested, builds, polls, replacing, reruns, got>>
        BY <1>7 DEF UploadAsset, Succeed
    <2>2. assets' \in [Asset -> 0..builds]
        BY <2>1
    <2>3. TypeOK' /\ AttemptsLeft' /\ StepsInOrder'
        BY <2>1, <2>2
    <2>4. EverythingAttested'
        BY <2>1
    <2> QED
        BY <2>3, <2>4
<1>8. CASE UploadRefused
    BY <1>8 DEF UploadRefused
<1>9. CASE Publish \/ PublishAnswerLost
    BY <1>9 DEF Publish, PublishAnswerLost, Flip, Succeed
<1>10. CASE StepFails
    BY <1>10 DEF StepFails, Idle
<1>11. ASSUME NEW first \in {"wait", "build", "publish"}, Rerun(first)
       PROVE  Sound'
    <2>1. /\ reruns < MaxReruns /\ reruns' = reruns + 1
          /\ step' = first /\ polls' = 0 /\ succeeded' \subseteq succeeded
          /\ step \in Ended
          /\ UNCHANGED <<setting, tag, release, assets, attested, builds, replacing, missing, got>>
        BY <1>11 DEF Rerun
    <2> QED
        BY <2>1
<1>12. ASSUME NEW a \in Asset, Download(a)
       PROVE  Sound'
    BY <1>12 DEF Download, None
<1>13. CASE UNCHANGED vars
    BY <1>13 DEF vars
<1> QED
    BY <1>1, <1>2, <1>3, <1>4, <1>5, <1>6, <1>7, <1>8, <1>9, <1>10, <1>11, <1>12, <1>13
    DEF Next, RunStep, Rest

LEMMA SoundInitially == Init => Sound
<1> SUFFICES ASSUME Init
             PROVE  Sound
    OBVIOUS
<1>1. /\ tag \in BOOLEAN
      /\ release \in {"none", "draft", "published"}
      /\ setting \in {"immutable", "mutable"}
      /\ step \in DOMAIN JobOf \cup {"none"} \cup Ended
      /\ replacing \subseteq Asset /\ missing \subseteq Asset
      /\ succeeded \subseteq Jobs
    BY DEF Init
<1>2. /\ builds \in Nat
      /\ attested \subseteq 1..builds
      /\ assets \in [Asset -> 0..builds] /\ got \in [Asset -> 0..builds]
    BY DEF Init, None
<1>3. polls \in 0..Polls /\ reruns \in 0..MaxReruns
    BY PipelineAssumption DEF Init
<1>4. AttemptsLeft /\ StepsInOrder /\ EverythingAttested
    BY DEF Init, AttemptsLeft, StepsInOrder, EverythingAttested
<1> QED
    BY <1>1, <1>2, <1>3, <1>4 DEF Sound, TypeOK

\* The variables keep their types.
THEOREM PipelineTypes == Spec => []TypeOK
<1>1. Sound => TypeOK
    BY DEF Sound
<1> QED
    BY <1>1, SoundInitially, SoundInductive, PTL DEF Spec

\* A download whose checksums match is the zip of one attested build, also where
\* published assets can be replaced between the consumer's requests.
THEOREM VerifiedDownloads == Spec => []VerifiedDownloadIsAttested
<1>1. Sound => VerifiedDownloadIsAttested
    BY DEF Sound, EverythingAttested, VerifiedDownloadIsAttested, ChecksumsMatch, Asset
<1> QED
    BY <1>1, SoundInitially, SoundInductive, PTL DEF Spec

----------------------------------------------------------------------------
(* Where published releases are immutable                                  *)

\* Attestations are only added.
LEMMA CompleteKept ==
    ASSUME Complete, UNCHANGED assets, attested \subseteq attested'
    PROVE  Complete'
BY DEF Complete

\* What a rerun forgets.
LEMMA RerunForgets ==
    ASSUME NEW first \in {"wait", "build", "publish"}, Rerun(first)
    PROVE  /\ step' = first /\ succeeded' \subseteq succeeded
           /\ UNCHANGED <<release, assets, attested>>
           /\ first # "publish" => "release" \notin succeeded'
           /\ first = "build" => "verify-draft-release" \in succeeded
           /\ first = "publish" => "release" \in succeeded'
<1>1. CASE first = "wait"
    BY <1>1 DEF Rerun, JobOf, Jobs, onGitHub
<1>2. CASE first = "build"
    BY <1>2 DEF Rerun, JobOf, Jobs, onGitHub
<1>3. CASE first = "publish"
    BY <1>3 DEF Rerun, JobOf, Jobs, onGitHub
<1> QED
    BY <1>1, <1>2, <1>3

\* The setting is the repository's, no step of the release changes it.
LEMMA SettingKept == [Next]_vars => setting' = setting
<1> SUFFICES ASSUME [Next]_vars
             PROVE  setting' = setting
    OBVIOUS
<1>1. CASE RunStep
    BY <1>1 DEF RunStep, WaitForDraft, Build, Attest, DeleteAsset, UploadAsset, UploadRefused,
                Publish, onGitHub
<1>2. CASE ~RunStep
    BY <1>2 DEF Next, PushTag, CreateDraft, PublishAnswerLost, StepFails, Rerun, Download, Rest,
                vars, onGitHub
<1> QED
    BY <1>1, <1>2

LEMMA KeptInductive ==
    ASSUME setting = "immutable"
    PROVE  Kept /\ [Next]_vars => Kept'
<1> SUFFICES ASSUME Kept, [Next]_vars
             PROVE  Kept'
    OBVIOUS
<1> USE DEF Kept, onGitHub, uploading, Ended
<1>0. setting' = "immutable"
    BY SettingKept
<1>1. Sound /\ Sound'
    BY SoundInductive
<1>2. PublishedIsComplete <=> (release = "published" => Complete)
    BY DEF PublishedIsComplete, Complete
<1>3. PublishedIsComplete' <=> (release' = "published" => Complete')
    BY <1>0 DEF PublishedIsComplete, Complete
<1>4. CASE PushTag
    <2>1. step = "none" /\ step' = "wait" /\ UNCHANGED <<release, assets, attested, succeeded>>
        BY <1>1, <1>4 DEF PushTag, Sound, AttemptsLeft
    <2> QED
        BY <1>1, <1>2, <1>3, <2>1, CompleteKept
        DEF UploadsAreOfOneBuild, SuccessMeansComplete, DraftSeen
<1>5. CASE CreateDraft
    BY <1>1, <1>2, <1>3, <1>5, CompleteKept
    DEF CreateDraft, UploadsAreOfOneBuild, SuccessMeansComplete, DraftSeen
<1>6. CASE WaitForDraft
    <2>1. /\ step = "wait" /\ step' \in {"wait", "build", "failed"}
          /\ succeeded' \subseteq succeeded \cup {"verify-draft-release"}
          /\ release # "draft" => succeeded' = succeeded /\ step' # "build"
          /\ UNCHANGED <<release, assets, attested>>
        <3>1. CASE release = "draft"
            BY <1>6, <3>1 DEF WaitForDraft, Succeed
        <3>2. CASE release = "published"
            BY <1>6, <3>2 DEF WaitForDraft
        <3>3. CASE release = "none"
            <4>1. step' \in {"wait", "failed"}
                BY <1>6, <3>3 DEF WaitForDraft
            <4> QED
                BY <1>6, <3>3, <4>1 DEF WaitForDraft
        <3> QED
            BY <1>1, <3>1, <3>2, <3>3 DEF Sound, TypeOK
    <2> QED
        BY <1>1, <1>2, <1>3, <2>1, CompleteKept
        DEF UploadsAreOfOneBuild, SuccessMeansComplete, DraftSeen
<1>7. CASE Build
    BY <1>1, <1>2, <1>3, <1>7, CompleteKept
    DEF Build, UploadsAreOfOneBuild, SuccessMeansComplete, DraftSeen
<1>8. CASE Attest
    BY <1>1, <1>2, <1>3, <1>8, CompleteKept
    DEF Attest, LookUpAssets, UploadsAreOfOneBuild, SuccessMeansComplete, DraftSeen
<1>9. ASSUME NEW a \in Asset, DeleteAsset(a)
      PROVE  Kept'
    <2>1. /\ release = "draft" /\ step = "upload" /\ a \in missing
          /\ assets' = [assets EXCEPT ![a] = None]
          /\ UNCHANGED <<release, attested, builds, step, missing, succeeded>>
        BY <1>1, <1>9 DEF DeleteAsset, Changeable, Sound, StepsInOrder
    <2>2. UploadsAreOfOneBuild'
        BY <1>1, <2>1 DEF UploadsAreOfOneBuild, Sound, TypeOK
    <2> QED
        BY <1>1, <1>3, <2>1, <2>2 DEF SuccessMeansComplete, DraftSeen
<1>10. ASSUME NEW a \in Asset, UploadAsset(a)
       PROVE  Kept'
    <2>1. /\ release = "draft" /\ step = "upload" /\ a \in missing
          /\ assets' = [assets EXCEPT ![a] = builds]
          /\ missing' = missing \ {a}
          /\ UNCHANGED <<release, attested, builds>>
        BY <1>10 DEF UploadAsset, Changeable
    <2>2. \A b \in Asset \ missing' : assets'[b] = builds
        BY <1>1, <2>1 DEF UploadsAreOfOneBuild, Sound, TypeOK
    <2>3. CASE missing' = {}
        <3>1. step' = "publish" /\ succeeded' = succeeded \cup {"release"}
            BY <1>10, <2>3 DEF UploadAsset, Succeed
        <3>2. builds \in attested /\ builds # None
            BY <1>1, <2>1, AttestedBuilds DEF Sound, StepsInOrder
        <3>3. Complete'
            BY <2>1, <2>2, <2>3, <3>2 DEF Complete, Asset, None
        <3> QED
            BY <1>1, <1>3, <2>1, <3>1, <3>3
            DEF UploadsAreOfOneBuild, SuccessMeansComplete, DraftSeen
    <2>4. CASE missing' # {}
        <3>1. UNCHANGED <<step, succeeded>>
            BY <1>10, <2>4 DEF UploadAsset
        <3> QED
            BY <1>1, <1>3, <2>1, <2>2, <3>1
            DEF UploadsAreOfOneBuild, SuccessMeansComplete, DraftSeen
    <2> QED
        BY <2>3, <2>4
<1>11. CASE UploadRefused \/ StepFails
    <2>1. step' \in Ended /\ UNCHANGED <<release, assets, attested, succeeded>>
        BY <1>11 DEF UploadRefused, StepFails
    <2>2. "release" \in succeeded => Complete'
        BY <2>1, CompleteKept DEF SuccessMeansComplete
    <2> QED
        BY <1>1, <1>2, <1>3, <2>1, <2>2, CompleteKept
        DEF UploadsAreOfOneBuild, SuccessMeansComplete, DraftSeen
<1>12. CASE Publish \/ PublishAnswerLost
    <2>1. /\ step = "publish" /\ step' \in Ended /\ release' = "published"
          /\ UNCHANGED <<assets, attested>>
        BY <1>12 DEF Publish, PublishAnswerLost, Flip
    <2>2. Complete'
        BY <2>1, CompleteKept DEF SuccessMeansComplete
    <2> QED
        BY <1>1, <1>3, <2>1, <2>2 DEF UploadsAreOfOneBuild, SuccessMeansComplete, DraftSeen
<1>13. ASSUME NEW first \in {"wait", "build", "publish"}, Rerun(first)
       PROVE  Kept'
    <2>1. /\ step' = first /\ succeeded' \subseteq succeeded
          /\ UNCHANGED <<release, assets, attested>>
          /\ first # "publish" => "release" \notin succeeded'
          /\ first = "build" => "verify-draft-release" \in succeeded
          /\ first = "publish" => "release" \in succeeded'
        BY <1>13, RerunForgets
    <2>2. "release" \in succeeded' => Complete'
        BY <2>1, CompleteKept DEF SuccessMeansComplete
    <2> QED
        BY <1>1, <1>2, <1>3, <2>1, <2>2, CompleteKept
        DEF UploadsAreOfOneBuild, SuccessMeansComplete, DraftSeen
<1>14. ASSUME UNCHANGED <<release, assets, attested, builds, step, missing, succeeded>>
       PROVE  Kept'
    <2>1. Complete => Complete'
        BY <1>14 DEF Complete
    <2> QED
        BY <1>1, <1>2, <1>3, <1>14, <2>1
        DEF UploadsAreOfOneBuild, SuccessMeansComplete, DraftSeen
<1>15. ASSUME NEW a \in Asset, Download(a)
       PROVE  Kept'
    BY <1>14, <1>15 DEF Download
<1>16. CASE UNCHANGED vars
    BY <1>14, <1>16 DEF vars
<1> QED
    BY <1>4, <1>5, <1>6, <1>7, <1>8, <1>9, <1>10, <1>11, <1>12, <1>13, <1>15, <1>16
    DEF Next, RunStep, Rest

\* Where published releases are immutable, what consumers can see is both
\* assets of one attested build, through any failures, lost answers and reruns.
THEOREM PublishedStaysComplete == Spec => []PublishedIsComplete
<1> DEFINE Preserved == setting = "immutable" => Kept
<1>1. Init => Preserved
    BY SoundInitially
    DEF Init, Kept, UploadsAreOfOneBuild, SuccessMeansComplete, DraftSeen, PublishedIsComplete
<1>2. Preserved /\ [Next]_vars => Preserved'
    <2> SUFFICES ASSUME Preserved, [Next]_vars, setting' = "immutable"
                 PROVE  Kept'
        OBVIOUS
    <2>1. setting = "immutable"
        BY SettingKept
    <2> QED
        BY <2>1, KeptInductive
<1>3. Preserved => PublishedIsComplete
    BY DEF Kept, PublishedIsComplete
<1> QED
    <2> HIDE DEF Preserved
    <2> QED
        BY <1>1, <1>2, <1>3, PTL DEF Spec
=============================================================================
