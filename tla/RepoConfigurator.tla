-------------------------- MODULE RepoConfigurator --------------------------
(***************************************************************************)
(* scripts/configure_github_repo.py: runners that read a repository's      *)
(* settings from GitHub, plan the changes their manifest calls for and, in *)
(* mode "apply", make them one call after the other.                       *)
(*                                                                         *)
(* A run holds no lock and takes no snapshot: every read and every write   *)
(* is an API call of its own, between which other runs and people with     *)
(* admin rights change the same repository, and any call may fail, a write *)
(* also after GitHub has carried it out.                                   *)
(***************************************************************************)
EXTENDS RepositoryManifest

CONSTANTS
    Runners,        \* runs of the script
    Mode,           \* runner -> "plan" or "apply"
    Manifests,      \* the manifests they may be given
    Values,         \* values of a setting
    Private,        \* the repository is private
    PageSize,       \* rulesets GitHub lists in one answer (per_page=100)
    MaxRulesets,    \* bound on rulesets ever created
    MaxEdits,       \* bound on changes made by others
    Failing,        \* tokens may be missing, API calls and reports may fail
    Edits(_)        \* ruleset -> what others may turn it into

\* Settings that are on or off.  Advanced Security comes with the repository,
\* each of the others has a resource of its own, read in this order.
ToggleOrder == <<"vulnerability_alerts", "immutable_releases",
                 "private_vulnerability_reporting", "automated_security_fixes">>
Toggles == ToSet(ToggleOrder) \cup {"advanced_security"}

ASSUME ConfiguratorAssumption ==
    /\ Mode \in [Runners -> {"plan", "apply"}]
    /\ PageSize \in Nat \ {0}
    /\ MaxEdits \in Nat /\ MaxRulesets \in Nat
    /\ Private \in BOOLEAN /\ Failing \in BOOLEAN
    /\ \A m \in Manifests, t \in RulesetTargets :
          Get(RulesetTable(m, t), "update_allows_fetch_and_merge", FALSE) \in BOOLEAN
    /\ \A m \in Manifests :
          /\ \A f \in Fields \cap DOMAIN Repository(m) : Repository(m)[f] \in Values
          /\ \A key \in DOMAIN Security(m) : Security(m)[key] \in BOOLEAN
          /\ Get(Repository(m), "immutable_releases", FALSE) \in BOOLEAN

VARIABLES
    settings,       \* field -> value, on GitHub
    toggles,        \* toggle -> enabled, on GitHub
    rulesets,       \* ID -> ruleset, on GitHub
    nextId,         \* the ID of the next ruleset
    edits,          \* changes made by others so far
    pc,             \* where each run is
    manifest,       \* what load_manifest returned
    unread,         \* toggles it has still to read
    listed,         \* managed rulesets it has still to fetch: ID and key
    managed,        \* rulesets it has fetched, under the key of the list
    plan,           \* PlanResult.changes, as operations
    applied,        \* how many of them it has applied
    alone           \* history: nobody else wrote since the run began

github == <<settings, toggles, rulesets, nextId>>
runner == <<manifest, unread, listed, managed, plan, applied>>
vars == <<github, edits, pc, runner, alone>>

Ended == {"ok", "failed"}
Started(r) == pc[r] \notin {"idle", "loaded", "authenticated"} \cup Ended

----------------------------------------------------------------------------
(* GitHub                                                                  *)

\* GET /rulesets?per_page=100 answers with one page, lowest IDs first, and the
\* script asks for no other.
FirstPage ==
    {n \in DOMAIN rulesets :
        Cardinality({m \in DOMAIN rulesets : m < n}) < PageSize}

\* A ruleset has what a payload has.
RulesetParts == {"name", "target", "enforcement", "bypass_actors", "refs", "rules"}

\* GitHub always answers with the methods and the count of reviews, and with an
\* integration, if only none, for a check.
Complete(ruleset) ==
    /\ DOMAIN ruleset = RulesetParts
    /\ "pull_request" \in DOMAIN ruleset.rules =>
          {"allowed_merge_methods", "required_approving_review_count"}
              \subseteq DOMAIN ruleset.rules["pull_request"]
    /\ "required_status_checks" \in DOMAIN ruleset.rules =>
          LET parameters == ruleset.rules["required_status_checks"] IN
          /\ "required_status_checks" \in DOMAIN parameters
          /\ \A check \in parameters["required_status_checks"] : NormalizedCheck(check) = check

\* What GitHub keeps of a payload: an update rule without its default, a pull
\* request rule with a parameter of GitHub's own.
StoredParameters(type, parameters) ==
    CASE type = "update" -> Restrict(parameters, {p \in DOMAIN parameters : parameters[p]})
      [] type = "pull_request" -> Over(parameters, [automatic_review |-> FALSE])
      [] OTHER -> parameters

Stored(payload) ==
    [payload EXCEPT !.rules = [type \in DOMAIN @ |-> StoredParameters(type, @[type])]]

\* Private vulnerability reporting is for public repositories (422 otherwise).
Available(toggle) == toggle # "private_vulnerability_reporting" \/ ~Private

\* Mutant of PatchSettings: a patch that replaces.
PutSettings(patch) ==
    /\ settings' = patch
    /\ UNCHANGED <<toggles, rulesets, nextId>>

PatchSettings(patch) ==
    /\ settings' = Over(patch, settings)
    /\ UNCHANGED <<toggles, rulesets, nextId>>

\* Mutant of SetToggle: the call flips what is there.
FlipToggle(toggle, enabled) ==
    /\ toggles' = [toggles EXCEPT ![toggle] = ~@]
    /\ UNCHANGED <<settings, rulesets, nextId>>

SetToggle(toggle, enabled) ==
    /\ toggles' = [toggles EXCEPT ![toggle] = enabled]
    /\ UNCHANGED <<settings, rulesets, nextId>>

CreateRuleset(payload) ==
    /\ nextId <= MaxRulesets
    /\ rulesets' = Over([n \in {nextId} |-> Stored(payload)], rulesets)
    /\ nextId' = nextId + 1
    /\ UNCHANGED <<settings, toggles>>

\* The payload replaces the ruleset, all of its rules included.
UpdateRuleset(n, payload) ==
    /\ n \in DOMAIN rulesets
    /\ rulesets' = [rulesets EXCEPT ![n] = Stored(payload)]
    /\ UNCHANGED <<settings, toggles, nextId>>

DeleteRuleset(n) ==
    /\ rulesets' = Restrict(rulesets, DOMAIN rulesets \ {n})
    /\ UNCHANGED <<settings, toggles, nextId>>

\* A write takes from every other run its claim to be alone.
WrittenBy(writers) == alone' = [r \in Runners |-> alone[r] /\ r \in writers]

----------------------------------------------------------------------------
(* main and build_plan: the reads, in the order of the code                *)

Goto(r, state) == pc' = [pc EXCEPT ![r] = state]
Planned(r, operations) == plan' = [plan EXCEPT ![r] = @ \o operations]

\* load_manifest: a key the script does not know ends the run.
LoadManifest(r) ==
    /\ pc[r] = "idle"
    /\ \E m \in Manifests :
          /\ manifest' = [manifest EXCEPT ![r] = m]
          /\ Goto(r, IF Loads(m) THEN "loaded" ELSE "failed")
    /\ UNCHANGED <<github, edits, unread, listed, managed, plan, applied, alone>>

\* resolve_token: from the environment or from gh; without one, CallFails.
ResolveToken(r) ==
    /\ pc[r] = "loaded"
    /\ Goto(r, "authenticated")
    /\ UNCHANGED <<github, edits, runner, alone>>

\* The operation that corrects a toggle, if it has to be corrected.  Advanced
\* Security is switched by a patch of the repository, which comes to the same.
ToggleChange(asked, toggle) ==
    IF toggle \in DOMAIN asked /\ toggles[toggle] # asked[toggle]
    THEN <<[kind |-> "toggle", toggle |-> toggle, enabled |-> asked[toggle]]>>
    ELSE <<>>

SettingsChange(m) ==
    LET patch == SettingsPatch(m, settings)
    IN  IF DOMAIN patch = {} THEN <<>>
        ELSE <<[kind |-> "patch_repository", payload |-> patch]>>

\* Two keys of the manifest that contradict each other are found only here.
GetRepository(r) ==
    LET m == manifest[r]
    IN  /\ pc[r] = "authenticated"
        /\ Planned(r, SettingsChange(m)
                      \o ToggleChange(AdvancedSecurity(m, Private), "advanced_security"))
        /\ unread' = [unread EXCEPT ![r] = DOMAIN DesiredToggles(m)]
        /\ alone' = [alone EXCEPT ![r] = TRUE]
        /\ Goto(r, IF Contradictory(m) THEN "failed" ELSE "toggles")
        /\ UNCHANGED <<github, edits, manifest, listed, managed, applied>>

Position(toggle) == CHOOSE n \in DOMAIN ToggleOrder : ToggleOrder[n] = toggle

\* A toggle the repository cannot have ends the run.
GetToggleState(r) ==
    /\ pc[r] = "toggles"
    /\ \E toggle \in unread[r] :
          /\ \A other \in unread[r] : Position(toggle) <= Position(other)
          /\ unread' = [unread EXCEPT ![r] = @ \ {toggle}]
          /\ IF Available(toggle)
             THEN Planned(r, ToggleChange(DesiredToggles(manifest[r]), toggle)) /\ UNCHANGED pc
             ELSE Goto(r, "failed") /\ UNCHANGED plan
    /\ UNCHANGED <<github, edits, manifest, listed, managed, applied, alone>>

\* build_ruleset_payload for both targets.
BuildRulesets(r) ==
    /\ pc[r] = "toggles"
    /\ unread[r] = {}
    /\ Goto(r, IF Unbuildable(manifest[r]) THEN "failed" ELSE "listing")
    /\ UNCHANGED <<github, edits, runner, alone>>

\* Mutant of Matching: the last ruleset of a key replaces the ones before it.
LastMatching(m) ==
    {[id |-> n, key |-> Key(rulesets[n])] :
        n \in {k \in FirstPage : /\ Key(rulesets[k]) \in ManagedKeys(m)
                                 /\ \A l \in FirstPage : Key(rulesets[l]) = Key(rulesets[k]) => l <= k}}

\* Mutant of Matching: rulesets are matched by their target alone.
TargetMatching(m) ==
    {[id |-> n, key |-> Key(Payload(m, rulesets[n].target))] : n \in FirstPage}

\* get_managed_rulesets: the managed rulesets of a list answer, under the key
\* they are listed with.
Matching(m) ==
    {[id |-> n, key |-> Key(rulesets[n])] :
        n \in {k \in FirstPage : Key(rulesets[k]) \in ManagedKeys(m)}}

Ambiguous(entries) == \E e, f \in entries : e # f /\ e.key = f.key

ListRulesets(r) ==
    /\ pc[r] = "listing"
    /\ LET entries == Matching(manifest[r]) IN
       /\ listed' = [listed EXCEPT ![r] = entries]
       /\ Goto(r, IF Ambiguous(entries) THEN "failed" ELSE "rulesets")
    /\ UNCHANGED <<github, edits, manifest, unread, managed, plan, applied, alone>>

\* A ruleset that is gone since it was listed is an ApiError.
GetRuleset(r) ==
    /\ pc[r] = "rulesets"
    /\ \E e \in listed[r] :
          /\ \A f \in listed[r] : e.id <= f.id
          /\ \/ /\ e.id \in DOMAIN rulesets
                /\ managed' = [managed EXCEPT ![r] =
                      @ \cup {[id |-> e.id, key |-> e.key, content |-> rulesets[e.id]]}]
                /\ listed' = [listed EXCEPT ![r] = @ \ {e}]
                /\ UNCHANGED pc
             \/ /\ e.id \notin DOMAIN rulesets
                /\ Goto(r, "failed")
                /\ UNCHANGED <<managed, listed>>
    /\ UNCHANGED <<github, edits, manifest, unread, plan, applied, alone>>

\* Mutant of RulesetChange: rulesets already there are not found.
AlwaysCreate(found, m, t) == <<[kind |-> "create_ruleset", payload |-> Payload(m, t)]>>

\* plan_ruleset_changes, for one of the two targets.
RulesetChange(found, m, t) ==
    LET current == {f \in found : f.key = Key(Payload(m, t))}
        types == ManagedRuleTypes(m, t)
        Same(f) == Normalized(f.content, types) = Normalized(Payload(m, t), types)
        outdated == CHOOSE f \in current : ~Same(f)
    IN  CASE current = {} -> <<[kind |-> "create_ruleset", payload |-> Payload(m, t)]>>
          [] \E f \in current : ~Same(f) ->
                <<[kind |-> "update_ruleset", id |-> outdated.id, payload |-> Payload(m, t)]>>
          [] OTHER -> <<>>

PlanRulesets(r) ==
    LET m == manifest[r] IN
    /\ pc[r] = "rulesets"
    /\ listed[r] = {}
    /\ Planned(r, RulesetChange(managed[r], m, "branch") \o RulesetChange(managed[r], m, "tag"))
    /\ Goto(r, "planned")
    /\ UNCHANGED <<github, edits, manifest, unread, listed, managed, applied, alone>>

----------------------------------------------------------------------------
(* apply_plan                                                              *)

Operation(r) == plan[r][applied[r] + 1]

Perform(operation) ==
    \/ /\ operation.kind = "patch_repository"
       /\ PatchSettings(operation.payload)
    \/ /\ operation.kind = "toggle"
       /\ SetToggle(operation.toggle, operation.enabled)
    \/ /\ operation.kind = "create_ruleset"
       /\ CreateRuleset(operation.payload)
    \/ /\ operation.kind = "update_ruleset"
       /\ UpdateRuleset(operation.id, operation.payload)

Remaining(r) == pc[r] = "planned" /\ Mode[r] = "apply" /\ applied[r] < Len(plan[r])

ApplyChange(r) ==
    /\ Remaining(r)
    /\ Perform(Operation(r))
    /\ applied' = [applied EXCEPT ![r] = @ + 1]
    /\ WrittenBy({r})
    /\ UNCHANGED <<edits, pc, manifest, unread, listed, managed, plan>>

\* The ruleset to update is gone, or GitHub minds a second one of that name.
Refusable(operation) ==
    \/ /\ operation.kind = "update_ruleset"
       /\ operation.id \notin DOMAIN rulesets
    \/ /\ operation.kind = "create_ruleset"
       /\ \E n \in DOMAIN rulesets : Key(rulesets[n]) = Key(operation.payload)

ApplyRefused(r) ==
    /\ Remaining(r)
    /\ Refusable(Operation(r))
    /\ Goto(r, "failed")
    /\ UNCHANGED <<github, edits, runner, alone>>

\* print_report and write_json_report: a run in mode "plan" only reports.
Report(r) ==
    /\ pc[r] = "planned"
    /\ ~Remaining(r)
    /\ Goto(r, "ok")
    /\ UNCHANGED <<github, edits, runner, alone>>

\* Mutant of CallFails: a call that fails is skipped.
SkipFailedCall(r) ==
    /\ Failing
    /\ Remaining(r)
    /\ applied' = [applied EXCEPT ![r] = @ + 1]
    /\ UNCHANGED <<github, edits, pc, manifest, unread, listed, managed, plan, alone>>

\* The first error ends a run, with nothing reported of what it applied.
CallFails(r) ==
    /\ Failing
    /\ pc[r] \notin Ended
    /\ Goto(r, "failed")
    /\ UNCHANGED <<github, edits, runner, alone>>

\* Mutant of AnswerLost: the call is made again.
RetryLostCall(r) ==
    /\ Failing
    /\ Remaining(r)
    /\ Perform(Operation(r))
    /\ WrittenBy({r})
    /\ UNCHANGED <<edits, pc, runner>>

\* GitHub made the change, the answer was lost.
AnswerLost(r) ==
    /\ Failing
    /\ Remaining(r)
    /\ Perform(Operation(r))
    /\ Goto(r, "failed")
    /\ WrittenBy({r})
    /\ UNCHANGED <<edits, runner>>

----------------------------------------------------------------------------
(* Others with admin rights                                                *)

\* A ruleset keeps its target, a public repository its Advanced Security.
Edit ==
    /\ edits < MaxEdits
    /\ edits' = edits + 1
    /\ WrittenBy({})
    /\ UNCHANGED <<pc, runner>>
    /\ \/ \E f \in Fields, v \in Values : PatchSettings([field \in {f} |-> v])
       \/ \E t \in Toggles, b \in BOOLEAN :
             (t = "advanced_security" => Private) /\ SetToggle(t, b)
       \/ \E n \in DOMAIN rulesets :
             \/ DeleteRuleset(n)
             \/ \E edited \in Edits(rulesets[n]) :
                   /\ Complete(edited)
                   /\ edited.target = rulesets[n].target
                   /\ UpdateRuleset(n, edited)

----------------------------------------------------------------------------
(* The specification                                                       *)

InitRuns ==
    /\ edits = 0
    /\ pc = [r \in Runners |-> "idle"]
    /\ manifest = [r \in Runners |-> NoTable]
    /\ unread = [r \in Runners |-> {}]
    /\ listed = [r \in Runners |-> {}]
    /\ managed = [r \in Runners |-> {}]
    /\ plan = [r \in Runners |-> <<>>]
    /\ applied = [r \in Runners |-> 0]
    /\ alone = [r \in Runners |-> FALSE]

Init ==
    /\ InitRuns
    /\ settings \in [Fields -> Values]
    /\ toggles \in [Toggles -> BOOLEAN]
    /\ Private \/ toggles["advanced_security"]
    /\ nextId \in Nat \ {0}
    /\ DOMAIN rulesets \subseteq 1..(nextId - 1)
    /\ \A n \in DOMAIN rulesets : Complete(rulesets[n])

Run(r) ==
    \/ LoadManifest(r)
    \/ ResolveToken(r)
    \/ GetRepository(r)
    \/ GetToggleState(r)
    \/ BuildRulesets(r)
    \/ ListRulesets(r)
    \/ GetRuleset(r)
    \/ PlanRulesets(r)
    \/ ApplyChange(r)
    \/ ApplyRefused(r)
    \/ Report(r)

RunsEnded ==
    /\ \A r \in Runners : pc[r] \in Ended
    /\ UNCHANGED vars

Next ==
    \/ \E r \in Runners : Run(r) \/ CallFails(r) \/ AnswerLost(r)
    \/ Edit
    \/ RunsEnded

Spec == Init /\ [][Next]_vars

Fairness == \A r \in Runners : WF_vars(Run(r))

----------------------------------------------------------------------------
(* Properties                                                              *)

\* A ruleset is as the manifest asks, said without the comparison the script
\* makes: every rule asked for is there with every parameter asked for, and no
\* rule of a type the manifest has a key for is there that it does not ask for.
HasParameters(rule, asked) == \A p \in DOMAIN asked : Get(rule, p, FALSE) = asked[p]

AsAsked(ruleset, m, t) ==
    LET asked == Payload(m, t) IN
    /\ \A part \in DOMAIN asked \ {"rules"} : ruleset[part] = asked[part]
    /\ \A type \in DOMAIN asked.rules :
          /\ type \in DOMAIN ruleset.rules
          /\ HasParameters(ruleset.rules[type], asked.rules[type])
    /\ \A type \in DOMAIN ruleset.rules \ DOMAIN asked.rules :
          /\ type \notin DOMAIN RuleFlag
          /\ type = "pull_request" => t # "branch"
          /\ type = "required_status_checks" => ChecksEnabled(m, t)

\* The parts of a manifest the repository differs from.
AskedSettings(m) == Keep(Repository(m), Fields)
AskedToggles(m) == Over(DesiredToggles(m), Keep(Security(m), {"advanced_security"}))

Drift(m) ==
    {<<"setting", f>> : f \in {g \in DOMAIN AskedSettings(m) : settings[g] # AskedSettings(m)[g]}}
    \cup {<<"toggle", t>> : t \in {u \in DOMAIN AskedToggles(m) : toggles[u] # AskedToggles(m)[u]}}
    \cup {<<"ruleset", t>> : t \in {u \in RulesetTargets :
              ~\E n \in DOMAIN rulesets : AsAsked(rulesets[n], m, u)}}

\* All of it is done that the report does not leave to a person.
Satisfied(m) == Drift(m) \subseteq FollowUps(m, Private)

\* Every ruleset GitHub has fits on the page the script reads.
OnePage == Cardinality(DOMAIN rulesets) <= PageSize

Ambiguity(m) ==
    Ambiguous({[id |-> n, key |-> Key(rulesets[n])] :
                  n \in {k \in DOMAIN rulesets : Key(rulesets[k]) \in ManagedKeys(m)}})

\* Types of the variables.
TypeOK ==
    /\ settings \in [Fields -> Values]
    /\ toggles \in [Toggles -> BOOLEAN]
    /\ DOMAIN rulesets \subseteq 1..(nextId - 1)
    /\ nextId \in Nat \ {0}
    /\ edits \in 0..MaxEdits
    /\ pc \in [Runners -> {"idle", "loaded", "authenticated", "toggles", "listing",
                           "rulesets", "planned"} \cup Ended]
    /\ manifest \in [Runners -> Manifests \cup {NoTable}]
    /\ unread \in [Runners -> SUBSET Toggles]
    /\ \A r \in Runners : applied[r] \in 0..Len(plan[r])
    /\ alone \in [Runners -> BOOLEAN]

\* A run that exits 0 in mode "apply", and that nobody interfered with, leaves
\* the repository as the manifest asks, whatever partial work of earlier runs
\* it found, up to what it reports as left to do: so a rerun repairs what a
\* failed run left half done, and nothing asked for is dropped in silence.
ApplyConverges ==
    \A r \in Runners :
        pc[r] = "ok" /\ Mode[r] = "apply" /\ alone[r] /\ OnePage => Satisfied(manifest[r])

\* The plan of a run that nobody interfered with, whether it is only shown or
\* about to be applied, is empty exactly when nothing is left to do: what
\* GitHub makes of an applied payload compares equal to it.
PlanMeansDrift ==
    \A r \in Runners :
        /\ alone[r] /\ OnePage
        /\ IF Mode[r] = "plan" THEN pc[r] = "ok" ELSE pc[r] = "planned" /\ applied[r] = 0
        => (plan[r] = <<>> <=> Satisfied(manifest[r]))

\* A write of a run never takes away what its manifest asks for, however stale
\* the reads its plan was made from and whoever wrote since.
Writes(r) == github' # github /\ (applied'[r] # applied[r] \/ pc'[r] # pc[r])

OwnWritesOnlyRepair ==
    [][\A r \in Runners : Writes(r) => Drift(manifest[r])' \subseteq Drift(manifest[r])]_vars

\* Runs never touch a setting, a toggle or a ruleset no manifest names, and delete
\* nothing.  The one exception is a ruleset that was renamed after the list: what
\* is written over it is the update of a run that others wrote behind the back
\* of, and that was shown the ruleset under a name its own manifest has.
LeavesTheRestAlone ==
    [][edits' = edits =>
          /\ \A f \in Fields : settings'[f] # settings[f] =>
                \E m \in Manifests : f \in DOMAIN AskedSettings(m)
          /\ \A t \in Toggles : toggles'[t] # toggles[t] =>
                /\ \E m \in Manifests : t \in DOMAIN AskedToggles(m)
                /\ t = "advanced_security" => Private
          /\ \A n \in DOMAIN rulesets :
                /\ n \in DOMAIN rulesets'
                /\ \/ rulesets'[n] = rulesets[n]
                   \/ \E m \in Manifests : Key(rulesets[n]) \in ManagedKeys(m)
                   \/ \E r \in Runners :
                         /\ Writes(r) /\ ~alone[r]
                         /\ \E e \in managed[r] :
                               e.id = n /\ e.key \in ManagedKeys(manifest[r])]_vars

\* Two managed rulesets of the same name and target come only from a page that
\* was not read, from others, or from a run that somebody wrote behind the back
\* of: a rerun finds what a call whose answer was lost has created, and does not
\* create it again, whatever other runs are doing.
SoleRunsMakeNoDuplicate ==
    [][\A r \in Runners : Writes(r) /\ alone[r] /\ OnePage =>
          \A m \in Manifests : Ambiguity(m)' => Ambiguity(m)]_vars

\* Once two runs that raced have both created a ruleset, every later run that
\* nobody interferes with stops before it writes anything: none goes on, or
\* claims success, with one of the two.
AmbiguityStopsRuns ==
    \A r \in Runners :
        alone[r] /\ OnePage /\ pc[r] \in {"planned", "ok"} => ~Ambiguity(manifest[r])

\* An App may be named by its slug, given access to the user's installations:
\* the rulesets of a manifest fail to be built only for another reason.
SlugFormApplies ==
    [][\A r \in Runners : BuildRulesets(r) /\ pc'[r] = "failed" =>
          \/ NoMergeMethod(manifest[r])
          \/ \E actor \in Unresolved(manifest[r]) : ~BySlug(actor)]_vars

\* Status checks the manifest leaves to a manual follow-up stay as they were
\* configured by hand: no run takes them out of a ruleset it updates.
ManualFollowUpSurvives ==
    [][edits' = edits =>
          \A n \in DOMAIN rulesets, m \in Manifests, t \in RulesetTargets :
              /\ Key(rulesets[n]) = Key(Payload(m, t))
              /\ ChecksLeftToFollowUp(m, t)
              /\ "required_status_checks" \in DOMAIN rulesets[n].rules
              => /\ n \in DOMAIN rulesets'
                 /\ "required_status_checks" \in DOMAIN rulesets'[n].rules]_vars

\* If the API answers, a run that nobody interferes with ends, and succeeds
\* unless its manifest cannot be applied to the repository or the managed
\* rulesets are ambiguous.
Applicable(m) ==
    /\ ~Contradictory(m) /\ ~Unbuildable(m)
    /\ \A toggle \in DOMAIN DesiredToggles(m) : Available(toggle)

UndisturbedRunSucceeds ==
    \A r \in Runners :
        alone[r] ~> \/ pc[r] = "ok" \/ ~alone[r] \/ ~OnePage
                    \/ /\ pc[r] = "failed"
                       /\ ~Applicable(manifest[r]) \/ Ambiguity(manifest[r])
=============================================================================
