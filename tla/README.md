# Verification of github-token-broker

A TLA+ development of [meigma/github-token-broker](https://github.com/meigma/github-token-broker):
specifications of the Lambda token broker, of the rotation of its App's key, of
the repository configurator, of the release pipeline and of the Terraform module
that deploys a release; TLC configurations that check them on small instances;
and proofs, checked by TLAPS, that hold for all instances.

## Inventory

### Components

| Component | Code | State | Operations | Modelled by |
|---|---|---|---|---|
| Handler | `internal/handler/handler.go` | none | `Handle` | `TokenBroker` |
| Mint service | `internal/broker/service.go` | the target, fixed at start | `Mint` | `TokenBroker`, promise in `MintService` |
| SSM parameter client | `internal/params/ssm.go` | none | `LoadAppConfig` | `TokenBroker` |
| GitHub App client | `internal/githubapp/client.go` | none | `CreateInstallationToken` (JWT, preflight, exchange), `NewClient` | `TokenBroker`, `JwtClock`; `NewClient` in `BrokerConfig` |
| Start and logger | `cmd/github-token-broker/main.go` | log threshold | `main`, `newLogger` | `BrokerConfig`, `TokenBroker` |
| Environment configuration | `internal/config/config.go` | none | `Load` | `BrokerConfig`, `Deployment` |
| Key rotation | the runbook `docs/docs/how-to/rotate-github-app-private-key.md` | how far the operator is | its steps, rollback | `KeyRotation` |
| Repository configurator | `scripts/configure_github_repo.py` | one run: manifest, plan and progress | `plan`, `apply` | `RepositoryManifest`, `RepoConfigurator` |
| Release pipeline | `.github/workflows/release*.yml`, `reusable-release.yml`, `scripts/*.sh` | tag, draft, assets, attestations, the workflow run | wait, build, attest, upload, publish, rerun | `ReleasePipeline` |
| Terraform module | `terraform/` | the deployment, a release cache per host | apply | `TerraformDeploy`; environment in `Deployment`, `TokenBroker` |
| Integration harness, CI, build tasks, docs site | | | | not modelled |

### Interactions

Lambda calls `Handle`; any number of invocations run at once, each in an
instance started with the environment of its time. An invocation calls SSM once,
then GitHub twice over HTTPS, in this order and with nothing kept afterwards:

    Handle -> GetParameters -> sign JWT -> GET  /repos/O/R/installation
                                        -> POST /app/installations/N/access_tokens
           -> log line -> answer

Operators write SSM parameters, create and delete keys of the App, select the
repositories of an installation and redeploy the function, between any two of
these steps. The configurator is a separate program: it talks to GitHub's
repository API only, with other runs and administrators changing the same
repository. A release goes from release-please (tag and draft) through the tag's
workflow to the release's assets, which an apply of the Terraform module downloads
and hands to Lambda together with the environment the broker starts with.

### What is hard here

- The preflight and the token request are two requests. The second names the
  repository *without its owner*; that the token is for the right repository
  rests on what the first found, while the world moves on.
- Requests are served though their answers are lost, or though Lambda has killed
  whoever asked. A retry would cost a second token.
- The answer to a caller repeats the configuration and not what GitHub said.
- The key is read, used to sign, and verified at three different times.
- One JWT is verified twice by another clock than the one it was made by.
- The configurator works without locks or transactions and has to cope with its
  own half-done work, with calls that were served though their answer was lost, with
  plans made from old reads, and with runs that race.
- A release is assembled by steps that fail, are rerun one by one or all together,
  and take nothing back; consumers download its two assets one after the other.
- What Terraform's state says was downloaded is on the disk of one host, and
  whether the code changed is decided by a name.

What makes the components correct: tokens in scope, at most one each, truthful
and final answers, errors without side effects, fresh parameters, progress
(broker); no failing invocation and a working key afterwards (rotation); reruns
that converge, honest previews, nothing else touched, no write that undoes what
the manifest asks (configurator); published means complete and attested
(pipeline); applied means that something asked for runs under the name asked for,
and never a damaged zip (Terraform); an environment that the broker loads, after
every apply (start). Every
hazard is in `PROJECT.json` at its line, with the properties that watch it.

## Modules

    MintService          what callers are promised (abstract)
    TokenBroker          the broker, concurrent invocations, SSM, GitHub, operators
      TokenBrokerInvariant   the inductive invariant
        TokenBrokerProofs      types, safety, steady success    (TLAPS)
          RefinementProofs     TokenBroker implements MintService (TLAPS)
      KeyRotation        TokenBroker composed with the rotation runbook
        KeyRotationProofs      a working key and no downtime    (TLAPS)
    JwtClock             the JWT's claims and the two clocks
      JwtClockProofs       the margins suffice                  (TLAPS)
    RepositoryManifest   what a manifest asks for, payloads and their normal form
      RepoConfigurator     runs of the configurator and everybody else
        RepoConfiguratorInvariant  the inductive invariant
          RepoConfiguratorProofs   repairs, convergence, no duplicates (TLAPS)
    ReleasePipeline      the release of one tag, and a consumer
      ReleasePipelineProofs  complete, attested, verified       (TLAPS)
    TerraformDeploy      artifacts, caches and applies
    BrokerConfig         the start: environment, validation, exits (operators only)
      Deployment         TerraformDeploy with the environment it gives the broker
        TerraformDeployProofs  what runs was asked for, and is clean;
                               the environment loads         (TLAPS)
    MC*.tla, MC*_*.cfg   instances for TLC

An operator named in a comment "Mutant of ..." is a faulty version of the
definition that follows it. It is used in no specification: replacing the
definition by it must make the property it is meant for fail.

### TokenBroker

One invocation is a program counter; each state is what happens between two
points at which the world can change.

| `pc` | step | code |
|---|---|---|
| `idle` | `Handle`: payload check, or a WARN line and an error | `handler.go` 45-69 |
| `load` | `LoadAppConfig`, `LoadAppConfigFails` | `ssm.go` 48-103 |
| `sign` | `SignJWT`: the PEM parses or not | `client.go` 267-334 |
| `validate` | `ValidateRepositoryInstallation`, `ValidateFails` | `client.go` 209-252 |
| `exchange` | `GrantToken`, `RefuseToken`, `ExchangeFails` | `client.go` 147-185 |
| `decode` | `DecodeToken` (reply complete, mint line logged), `ExchangeFails` | `client.go` 187-206, `handler.go` 57 |
| `respond` | `Respond`: Mint's response reaches the caller | `service.go` 66-71 |
| any of these | `Timeout` | `terraform/main.tf` 57 |

`posted` holds the invocations whose token request is on the wire. It is
independent of `pc`: after `ExchangeFails` or `Timeout` GitHub may still serve
it. `issued` is GitHub's record of tokens, `ssm` all versions of the parameters
(the broker sees the latest), so that "fresh" and "not torn" can be said.
`steady` and `since` are history variables: whether an invocation began in a
healthy world that nobody touched since, and the version of the parameters then.

GitHub is modelled as the code relies on it: a JWT is good if its App accepts the
key; the preflight finds the App's installation on that owner if it covers the
repository; the token request is granted by the installation with the configured
ID if it belongs to the App, covers a repository *of its own account* with that
name, and has the permissions asked for. An App has at most one installation per
account (`WorldAssumption`).

A fault is one of "ssm", "network" (any unusable answer: connection, body,
malformed JSON, missing field) and "timeout"; `Faults` says which may happen.

### KeyRotation

Extends `TokenBroker` and replaces its operators by one who follows the runbook:
generate, overwrite (perhaps with a damaged copy or another App's key), invoke
once, look at the result, delete the old key or restore the old PEM. With `Drain`
the operator waits, before deleting, until no invocation is left that began
before the overwrite. The runbook has no such step.

### JwtClock

One invocation, whole seconds. The JWT is signed at any time of the invocation,
and both requests arrive at any time after; GitHub's clock differs by any of
`Skews`, possibly a different one for each request.

### RepositoryManifest and RepoConfigurator

`RepositoryManifest` has no state. A TOML table is a function from the keys that
are present, so that a missing key, a default and an unknown key are what they
are in the code: `Loads` is `load_manifest`, `SettingsPatch` and `DesiredToggles`
the desired settings, `Payload` is `build_ruleset_payload`, `Normalized` the form
in which rulesets are compared.

A run of `configure_github_repo.py` is, one step for each point at which the world
can change:

| `pc` | step | code |
|---|---|---|
| `idle` | `LoadManifest`: any of `Manifests`, unknown keys end the run | `main`, 340-444 |
| `loaded` | `ResolveToken` | 447-464 |
| `authenticated` | `GetRepository`: patch, Advanced Security, contradictory keys | 476-543 |
| `toggles` | `GetToggleState` for each toggle asked for, then `BuildRulesets` | 545-601 |
| `listing` | `ListRulesets`: one page, ambiguity | 868-888 |
| `rulesets` | `GetRuleset` for each, then `PlanRulesets` | 889-929 |
| `planned` | `ApplyChange` for each operation, `ApplyRefused`, `Report` | 1014-1079 |
| any | `CallFails`; while applying also `AnswerLost` | 245-297 |

`Edit` is an administrator. What GitHub makes of a payload differs from it
(`Stored`): an update rule comes back without its default, a pull-request rule
with a parameter more. `Complete` is what every answer about a ruleset holds,
also about one made by hand: the parts of a payload, the methods and the count of
reviews of a pull-request rule, an integration, if only none, for each check.
Advanced Security is modelled as one more toggle, since patching it has the same
effect; a public repository always has it. GitHub may accept or refuse a second ruleset of
the same name: the script guards against finding two, so both are allowed.
A bypass App named by its slug is an error of `BuildRulesets`: `ResolvesApps` says
what `_paginate` makes of GitHub's answer to `/user/installations`, an object, when
no key is named (lines 178, 224-229). What `resolve_app_actor_id` would do with a
page it had read is not modelled, since it never reads one.
`AsAsked` says what a manifest asks of a ruleset without using the comparison the
script makes, so that `PlanMeansDrift` and `ApplyConverges` compare two
definitions.

### ReleasePipeline

One tag. `step` is where the workflow run is, `succeeded` the jobs that succeeded
in their latest attempt, from which GitHub decides which jobs may be rerun alone,
`setting` whether the repository makes published releases immutable.
`gh release upload --clobber` looks up what exists, deletes and uploads, asset by
asset (`DeleteAsset`, `UploadAsset`). A build is its number: zips hold timestamps,
so two builds differ. release-please's two effects come in either order, and one
of them may never come (its run is cancelled by the next push).

### TerraformDeploy

Applies follow each other (the state is locked) and are three steps: evaluate,
`FetchRelease` or `FetchFails`, `UpdateFunction`, `KeepFunction` or `FileMissing`.
Between them variables change, a local zip is replaced, the function is deleted or
a host's cache is removed, while Terraform's state stays.
Code is named by where it comes from, `asked` keeps all code that an apply was asked
for, and `SameName` says of which code the file name and the hash, which is all that
is compared, do not tell the difference: releases of one version from two
repositories, and what a path has held over time. The provider may upload without need, since
its versions differ in whether they read the hash back.

### BrokerConfig and Deployment

The start is a function of the environment, so `BrokerConfig` has operators only.
`Load` is the configuration or `Refused`, `Serves` says whether `main` may reach
`lambda.Start` (the AWS configuration can still fail). `Environments` are those
considered. A text is what regular expressions of both programs tell apart: the class of its
first character, those of the others, and white space around it. `NameIsLiteral`,
`PathIsLiteral` and `PermissionsNamed` are the conditions of `variables.tf`,
`githubLiteralNamePattern`, `ssmParameterPathPattern` and `PermissionsUsable` those of
`Load`, which trims names and paths first and permissions not at all, where Terraform
trims permissions only. `Deployed` are the environments that `terraform/` makes of
variables that pass.

`Deployment` extends it and `TerraformDeploy`. `inputs` is the environment the
variables make, `environment` the one the function has: a successful apply sets
the second to the first, whether the code changes or not (`ApplyOrChange`), and
between applies the variables change (`ConfigureBroker`) or somebody edits the
function (`EditEnvironment`). `ValidatedDeploymentLoads` says that an apply always ends
with an environment that loads, and that the broker serves with it where the base
URL, which `variables.tf` does not validate, is the default.

## Runs

| Run | World | Checks | Result |
|---|---|---|---|
| `broker_invocations` | 2 invocations, 2 accounts with a repository of the same name, 2 keys, 3 targets, 2 operator changes, all faults | scope, truth, cost, freshness, orphans, needless refusals, mint line, finality, the inductive invariant; `ImplementsMintService`; `EveryInvocationAnswered`, `SteadyInvocationMints` | hold, 257 271 states |
| `rotation_drained` | 2 callers and the operator's probe, timeouts, 3 uploads | `NoDowntime`, `RotationLeavesAWorkingKey` | hold |
| `rotation_undrained` | the runbook as written | `NoDowntime` | violated, see findings |
| `jwt_margins` | timeout 475 s, steps of 5 s, skew up to a minute | `ClockNeverRefuses` and its invariant | hold |
| `configurator_edited` | a previewing and an applying run of the whole manifest with 1 edit; 2 applying runs of a small one on a fresh repository, one with an outdated ruleset, and one with two copies of it; calls that fail or lose their answer, a public repository, a page of 3 rulesets | `ApplyConverges`, `PlanMeansDrift`, `LeavesTheRestAlone`, `AmbiguityStopsRuns`, `SoleRunsMakeNoDuplicate`, the inductive invariant | hold, 155 146 states |
| `configurator_undisturbed` | 2 applying runs, each with any of 11 manifests, calls that answer, a private repository that is fresh, as asked, or has its ruleset switched off | `ApplyConverges`, `PlanMeansDrift`, `OwnWritesOnlyRepair`, `UndisturbedRunSucceeds` | hold, 31 454 states |
| `configurator_followup` | an initial ruleset with status checks made by hand | `ManualFollowUpSurvives` | violated, see findings |
| `configurator_slug` | a manifest with a bypass App by its slug | `SlugFormApplies` | violated, see findings |
| `release_reruns` | 6 attempts, any step breaking, 3 reruns, published assets that can be replaced or not | `PublishedIsComplete`, `VerifiedDownloadIsAttested`, `DraftInTimePublishes`, `WaitForDraftEnds` | hold, 10 217 states |
| `terraform_hosts` | 2 hosts, 2 versions, 2 repositories, 2 zips with 2 contents, an S3 object, failing downloads, 4 changes | `AppliedMeansDeployed` | holds, 2 190 368 states |
| `deployment_sources` | 1 host, 2 versions, 2 repositories, a zip that is replaced, damaged downloads; a plain environment and those that differ from it in one variable; 2 changes | `DamagedNeverRuns`, `ValidatedDeploymentLoads` | hold, 999 056 states |
| `terraform_repository` | 1 host, 2 repositories, 2 changes | `LambdaRunsTheCachedCopy` | violated, see findings |

**Bounds.** `MaxChanges`: two operator changes are the least with which both the
preflight and the token request of an invocation can be overtaken, and the least
that moves a broker (parameter and redeploy). Two invocations are the least that
can take each other's tokens; the invariants talk about at most two. Two accounts
with a repository of one name are what the owner-less token request could
confuse. `MaxChanges = 4` in the rotation exceeds the runbook's three writes.
`MaxRulesets = 6` is two that exist and two for each of two runs: it never binds.
Two applying runs are the least that can race to a duplicate, or of which one meets
what the other left when it lost the answer to its creation; what a third would meet
after a race is a repository with two copies of a ruleset, from which they start as
well. In `configurator_edited` the runs start where they have loaded the manifest,
which no other run can see.
`MaxEdits` is one: an edit spoils a run's premise or prepares its start. The
manifests have three settings, all toggles and rules with and without parameters;
`MCVaried` adds a manifest for each way of being refused. In
`deployment_sources` every variable takes every kind of value while the others
are plain, since `Load` checks each for itself; its two changes are what it takes to
leave a version whose download was damaged and come back to it. Three reruns are the
least that can rerun each job after the others, the six attempts are the script's.
Two versions, two repositories and two hosts are the least that can be taken for one
another; the four changes of `terraform_hosts` reach a version, leave it, delete the function and come back.
Invocations are finite in number, so the broker's runs stutter when all are
answered (`Finished`, `RunsEnded`, `Rest`); deadlock is checked everywhere.

**Fairness.** The broker's `LiveSpec` assumes `TimeoutFairness` *or*
`ServeFairness`: that Lambda ends an invocation at its timeout, which is its
documented duty, or that an invocation keeps running and SSM and GitHub answer.
Both liveness properties therefore hold under each of the two alone, and the
safety properties of the same run need neither. Under the timeout,
`SteadyInvocationMints` is kept by breaking steadiness; under the other it says
that the token arrives. No operator and no caller is ever obliged to act.
`RepoConfigurator`'s `Fairness` assumes that a run goes on and its calls return.
`ReleasePipeline`'s `FairSpec` assumes that a runner goes on with the run it has;
nobody has to push a tag, make a draft, rerun or download, and a step that breaks
(`broken`, where a run that ends by itself is `failed`) is left out of the promise.

## Proofs

Proofs are for any number of invocations, Apps, installations, keys, runs, hosts
and changes. Every safety invariant and action
property that a passing run checks is also a theorem, of a specification that
leaves the initial world open where the runs choose one. The assumptions:

- Broker (`WorldAssumption`): texts, keys and IDs are what they are called,
  `FormatInt` is injective, an App has one installation per account, and a target
  has a repository and at least one permission (which `config.Load` enforces).
- Configurator (`ConfiguratorAssumption`): values a manifest gives to settings are
  values of settings, and flags are flags.
- Deployment: `Null` is no environment, an error is no configuration, and the URL of
  the public API parses.

| Module | Theorems |
|---|---|
| `TokenBrokerProofs` | `TypeCorrect`; `Inductive` (`IInv`); from it `TokensStayInScope`, `NoSecondToken`, `ResponsesAreTruthful`, `OnlyTransportOrphans`, `ConfigStaysFresh`, `SteadyInvocationsSucceed`, `MintLinesMeanTokens` |
| `RefinementProofs` | `AnswersStayFinal`, an action property; `BrokerImplementsMintService`, the refinement: `Handle` is `Accept` or `Reject`, `GrantToken` is `Issue`, `Respond` is `Give`, every failure is `Refuse`, and all else stutters |
| `KeyRotationProofs` | `RotationEndsHealthy`, `DrainedRotationHasNoDowntime` |
| `JwtClockProofs` | `ClockInvariant`; `MarginsSuffice`: no request fails for the clock if the clocks agree to a minute and `Timeout + 60 < 540` |
| `RepoConfiguratorProofs` | `Typed`, `ConfiguratorInvariant` (`IInv`); from it `RunsConverge`, `PlansMeanDrift`, `RestLeftAlone`, `NoDuplicates`, `DuplicatesStopRuns`; `WritesOnlyRepair` |
| `ReleasePipelineProofs` | `PipelineTypes`, `VerifiedDownloads`; `PublishedStaysComplete`, where published releases are immutable |
| `TerraformDeployProofs` | `OneHostStaysClean`, `AppliedWasAsked`; `AppliesLoad` |

Premises that some of them have beyond the assumptions, and why:

- `RotationEndsHealthy` assumes that nothing uploaded for the new key is another
  text of the old one (`OldKeyNotUploaded`). The runbook's probe cannot tell which
  of two accepted keys has signed: with such an upload it would succeed, and
  deleting the old key would strand the broker.
- `DrainedRotationHasNoDowntime` assumes `Drain`, without which the property is
  refuted (`rotation_undrained`), and that SSM answers: a failing SSM gives the same
  answer as a missing parameter, and is not the rotation's doing. Timeouts and lost
  requests may happen.
- `OneHostStaysClean` and `AppliedWasAsked` assume that damage can happen only where
  there is one host (`OneHostIfDamaging`); the remarks below say what happens
  otherwise.

### The invariants

**Broker** (`TokenBrokerInvariant`). `TokenScope` is not inductive: in a state where
a request is on the wire, nothing in it says that the request will be served in
scope. `Preflighted` does: for every request on the wire, the configured
installation is on the target's account. That holds when it is sent, because the
preflight compared IDs and `FormatInt` is injective; and it keeps holding because
neither the invocation's copy of the parameters nor its target changes. The
account of an installation never changes either, so that later operator changes
can make GitHub refuse the request, but not serve it out of scope.
`OneTokenPerInvocation` needs that a request on the wire has no token yet and
that nothing is sent twice (`NothingSent`, `Preflighted`). `ResponseTruthful`
needs `TokenHeld` and `IssuedInScope`: the response repeats the target, and so
did the token. `AnsweredWhenDone` ties `answer` to `pc`. `Served` is for the two
that say what an invocation must do rather than what it must not: while it is
steady, the world is as healthy as when it began and the parameters it holds are
the latest, so that no step can fail; and the lines it has logged tell how far it
came.

**Rotation**. The operator's steps are changes the broker's `IInv` allows, so it
holds throughout. `Procedure` adds what has been written and which keys are
accepted at each stage, that the probe began after the overwrite, and that a token
is proof that its invocation's PEM holds one of the two keys. A probe that
succeeded therefore read a PEM of the new key (`Verified`). For `NoDowntime`,
`DrainedBefore` says that nobody is left in flight, after the deletion, who began
before the overwrite: everybody else holds the new key, or ran while
something else was in SSM.

**Configurator** (`RepoConfiguratorInvariant`). `AllHonest` is what holds whoever
interferes: every operation in a plan is a repair of the runner's manifest — a patch
or toggle of a value it asks for, a ruleset made of its payload — which holds when
the plan is made and cannot be undone, since nobody writes another run's plan.
What `WritesOnlyRepair` needs besides is that an update of a ruleset by its ID never
hits one that serves the manifest's other target: `Slots` ties an ID to its target
for ever, because GitHub keeps a ruleset's target and never reuses an ID.

Convergence is about a run that nobody disturbed. `Covered` is its heart: all that
is wrong with the repository and not left to a person is either yet to be read
(`Unseen`) or put right by an operation that is yet to be applied (`Outstanding`). A
read moves a part from the first to the second or finds it in order; a write
puts its part right and, as one plan has at most one operation for a ruleset
(`Staged`), spoils no other. At the end of an applying run neither is left. `Needed`
is the converse, for `PlanMeansDrift`: before anything is applied, every operation has
something to put right. `Faithful` says that what was listed and fetched is still
what GitHub has, so that what is not found is not there; `Pending` keeps that true
of the plan while it is applied, and gives `NoDuplicates`. `Sourced` says that an
update in a plan has its ID from a listed ruleset of the name and target it is for,
which `RestLeftAlone` needs: it holds however old the list is. `DuplicatesStopRuns`
rests on `AmbiguityStopsRuns` itself, which is inductive with the rest: a run that is
alone has seen what there is when it planned, and none of its own writes makes a
second ruleset of a name.

The step from a read to the plan needs the lemma `ComparedIsAsked`: for an answer
that is `Complete`, the script's comparison of normal forms over the managed rule
types finds no difference exactly if the ruleset is as the manifest asks
(`AsAsked`), whatever else GitHub keeps in it. It is what the two forms of `Stored`
parameters, rules nobody asked for and checks without an integration test.

**Pipeline**. `PublishedIsComplete` is not inductive, since it says nothing of how a
release got there. `Kept` adds that what is uploaded to a draft is of the last
build, that a job that counts as succeeded left the assets complete, and that a
rerun forgets the success before an asset is touched; immutability covers what
happens after publication. `Sound` alone, without immutability, gives
`VerifiedDownloads`: anything anybody can download was attested first.

**Terraform**. `Clean` says that a download recorded as done left an undamaged zip in
every cache there is, which is why it needs one host. `Faithful` says what a recorded
file name is worth: the function runs one of the codes the name may stand for
(`Cover`), and both that and every zip in a cache have been asked for by an apply.
It says nothing of which of these codes it is, because the file name and the hash
do not. `Provisioned` ties the environment to the function and, after a successful
apply, to the variables.

### Only model-checked

- Liveness: `EveryInvocationAnswered`, `SteadyInvocationMints`,
  `UndisturbedRunSucceeds`, `DraftInTimePublishes`, `WaitForDraftEnds`. Fairness and `ENABLED` are out of
  TLAPS's reach.
- The properties of the findings, which do not hold.
- The configurator's `IInv` was proved for all manifests, and is checked in
  `configurator_edited` only: TLC cannot write down the payload of a manifest that
  cannot be built (a bypass App by its slug), which `Repairs` mentions.

## Findings

1. **Rotation can fail an invocation in flight** (`rotation_undrained`). It reads
   the old PEM, the operator overwrites, verifies and deletes the old key, GitHub
   answers 401. The how-to promises no downtime (line 4). With the default timeout
   of ten seconds the window is small; waiting one timeout closes it
   (`rotation_drained`).
2. **The configurator removes status checks it leaves to a manual follow-up**
   (`configurator_followup`). With checks enabled and no contexts, as in
   `.github/repository-settings.toml`, the rule is not compared (line 768) but an
   update for any other difference replaces all rules (line 926).
3. **A bypass App cannot be named by its slug** (`configurator_slug`).
   `resolve_app_actor_id` pages through `/user/installations` without naming the key
   of the list (line 178), GitHub answers with an object, and `_paginate` raises
   (line 229). `.github/repository-settings.toml:92` says that the slug form needs
   access to the user's installations; with it, every run still fails, before it
   has changed anything.
4. **Another `release_repository` with the same version is not deployed**
   (`terraform_repository`). The download is done again and replaces the zip in the
   cache; path and hash name the version only (`locals.tf:28-39`), so the function
   keeps the code of the old repository, and the apply succeeds.
   `variables.tf:38` says that the function is pointed at the cached copy. Providers that read
   the hash back upload it, but only because the hash is never that of the zip.

Remarks without a run of their own. The models show each with the constants named;
they are where a premise of the properties above comes from.

- An artifact in S3 cannot be evaluated: `coalesce` of two nulls is an error
  (`locals.tf:34`), so that `StartApply` ends as "invalid" with any of `Objects`, where
  `variables.tf:33-41` accepts `lambda_source_s3` and `terraform/README.md:29` says "The
  module references S3 directly; no local download."
- The probe of the rotation says that a key works, not that the new one does (the
  how-to, step 3: "A successful mint with the new key means the rotation worked"):
  `RotationLeavesAWorkingKey` with an upload that is another text of `OldPem`'s key.
- A damaged download can be deployed later: `DamagedNeverRuns` with two hosts and
  `Damaging`. It stays in the cache of its host, and only the shared state knows;
  a successful download on another host clears that (`main.tf:39`).
- A local zip that was replaced is not deployed, for the same reason as finding 4:
  `code = Wanted` with two `Contents`. `AppliedMeansDeployed` therefore says that the
  code was asked for at some time under its name, and not that it is the latest.
- A run that fails may have published: with `Failing`, `PublishAnswerLost` leaves a
  published release behind a failed job, where `release-architecture.md:97` says
  that it stays in draft.
- A rejected payload is logged as WARN (`Handle`, `handler.go:47`), where
  `docs/docs/reference/errors.md:32` says every failure logs an `ERROR` line.
- The margins of the JWT hold for timeouts under eight minutes.
  `terraform/variables.tf` accepts up to fifteen (default: ten seconds).

## Not modelled, and why

- Redirects of a renamed or transferred repository, accounts that are renamed,
  SSM's eventual consistency: outside the repository, no code refers to them.
- `CreateInstallationToken`'s checks of empty and non-literal names (lines
  114-136): `config.Load` and `LoadAppConfig` have made them already.
- IAM and KMS: a denial is an "ssm" fault.
- A redeploy is atomic, and instances of the old deployment serve only
  invocations that began before it.
- White space in a stored parameter; an installation ID with a leading zero is one
  of the texts in the broker's runs.
- The types of values in a manifest (tables, arrays, numbers in quotes) and entries
  listed twice: errors that end a run before it calls GitHub, or mistakes that
  the comparison of sorted lists reports as drift for ever.
- The wording of reports, and whether GitHub accepts PATCH for a ruleset (line
  171): it is taken to. `Link` headers are ignored for rulesets as in the code
  (`PageSize`).
- `resolve_app_actor_id` beyond its first page, its cache, and the links to further
  pages: the program never gets there (finding 3).
- How release-please finds the next version; the SBOM; what happens to a tag that
  is moved or deleted. The AWS provider's own failures: an update that fails leaves
  state and function as they were, which is an apply that was not made.
- `terraform/iam.tf`, log group, tags and alarms: declared once, without order.
- CI, code scanning, dependency updates, build tasks and the documentation site
  keep no state of their own; the integration harness is test code, read for what
  the broker expects of SSM and GitHub.

## Plan

Done: all modules above, their runs and their proofs. What could follow:

1. An abstract specification of a release (none, draft, published with one build,
   attested before) and the proof that `ReleasePipeline` implements it.
2. The same for the configurator: an undisturbed apply as one step from drift to
   none.
3. The configuration that `Load` returns as the source of the targets in
   `WorldAssumption`, by composing `Deployment` with `TokenBroker`.
4. `resolve_app_actor_id` as a module, once its first call names the key of its list.
