------------------------- MODULE RepositoryManifest -------------------------
(***************************************************************************)
(* What scripts/configure_github_repo.py makes of a manifest: the checks   *)
(* of load_manifest, the settings and toggles asked for, the two ruleset   *)
(* payloads, and the normal form in which a ruleset is compared.           *)
(*                                                                         *)
(* A TOML table is a function from the keys that are present.  Tables are  *)
(* taken to be tables and arrays to list an entry once.                    *)
(***************************************************************************)
EXTENDS Integers, FiniteSets, SequencesExt

CONSTANT
    Fields          \* SUPPORTED_REPOSITORY_FIELDS

ASSUME ManifestAssumption == "immutable_releases" \notin Fields

NoTable == [key \in {} |-> TRUE]
Get(table, key, default) == IF key \in DOMAIN table THEN table[key] ELSE default
Keep(table, keys) == Restrict(table, DOMAIN table \cap keys)

\* The keys of both, the first with priority: @@, which provers do not know.
Over(table, other) ==
    [key \in DOMAIN table \cup DOMAIN other |->
        IF key \in DOMAIN table THEN table[key] ELSE other[key]]

Repository(m) == Get(m, "repository", NoTable)
Security(m) == Get(m, "security", NoTable)
Unsupported(m) == Get(m, "unsupported", NoTable)

RulesetTargets == {"branch", "tag"}
TableName == [branch |-> "branch_default", tag |-> "tags_default"]
RulesetTable(m, t) == Get(Get(m, "rulesets", NoTable), TableName[t], NoTable)
PullRequestTable(m) == Get(RulesetTable(m, "branch"), "pull_request", NoTable)
StatusChecksTable(m, t) == Get(RulesetTable(m, t), "status_checks", NoTable)

----------------------------------------------------------------------------
(* load_manifest                                                           *)

\* Rule types that have no parameters to speak of, by the key that asks for them.
RuleFlag == [creation |-> "restrict_creations",
             update |-> "restrict_updates",
             deletion |-> "restrict_deletions",
             required_linear_history |-> "require_linear_history",
             required_signatures |-> "require_signed_commits",
             non_fast_forward |-> "block_force_pushes"]

PullRequestFlags == {"dismiss_stale_reviews_on_push", "require_code_owner_review",
                     "require_last_push_approval", "required_review_thread_resolution"}
StatusCheckFlags == {"strict_required_status_checks_policy", "do_not_enforce_on_create"}
AlertKeys == {"dependency_graph", "vulnerability_alerts"}
SecurityToggles == {"private_vulnerability_reporting", "automated_security_fixes"}

RulesetKeys(t) ==
    {"name", "enforcement", "bypass", "update_allows_fetch_and_merge", "status_checks"}
    \cup {RuleFlag[type] : type \in DOMAIN RuleFlag}
    \cup (IF t = "branch" THEN {"require_pull_request", "pull_request"} ELSE {})

\* Every key of the manifest is one the script knows.
Loads(m) ==
    /\ DOMAIN m \subseteq {"repository", "security", "rulesets", "unsupported"}
    /\ DOMAIN Repository(m) \subseteq Fields \cup {"immutable_releases"}
    /\ DOMAIN Security(m) \subseteq AlertKeys \cup SecurityToggles \cup {"advanced_security"}
    /\ DOMAIN Get(m, "rulesets", NoTable) \subseteq {TableName[t] : t \in RulesetTargets}
    /\ \A t \in RulesetTargets :
          /\ DOMAIN RulesetTable(m, t) \subseteq RulesetKeys(t)
          /\ DOMAIN StatusChecksTable(m, t) \subseteq StatusCheckFlags \cup {"enabled", "contexts"}
    /\ DOMAIN PullRequestTable(m) \subseteq
          PullRequestFlags \cup {"allowed_merge_methods", "required_approving_review_count"}

----------------------------------------------------------------------------
(* Settings and toggles                                                    *)

\* Mutant of SettingsPatch: what the manifest leaves out is patched as false.
PatchOmittedFields(m, current) ==
    Over(Keep(Repository(m), Fields), [f \in Fields |-> FALSE])

SettingsPatch(m, current) ==
    Restrict(Repository(m),
             {f \in DOMAIN Repository(m) \cap Fields : current[f] # Repository(m)[f]})

\* coerce_dependency_graph_setting: two keys for one toggle, which must agree.
AlertsAsked(m) == {Security(m)[key] : key \in AlertKeys \cap DOMAIN Security(m)}
Contradictory(m) == Cardinality(AlertsAsked(m)) > 1

DesiredToggles(m) ==
    LET alerts == IF AlertsAsked(m) = {} THEN NoTable
                  ELSE [vulnerability_alerts |-> CHOOSE asked \in AlertsAsked(m) : TRUE]
    IN  Over(Keep(Repository(m), {"immutable_releases"}),
             Over(Keep(Security(m), SecurityToggles), alerts))

\* Advanced Security is a toggle of private repositories only.
AdvancedSecurity(m, private) ==
    IF private THEN Keep(Security(m), {"advanced_security"}) ELSE NoTable

----------------------------------------------------------------------------
(* build_ruleset_payload                                                   *)

ActorTypes == {"repository_admin_role", "organization_admin", "app", "integration"}
AdminRepositoryRoleId == 5

\* _paginate takes an answer that is a list, or the list an object has under the
\* key that the caller names.
Paginates(answer, names_key) == names_key \/ answer = "list"

\* resolve_app_actor_id asks for /user/installations, which GitHub answers with
\* an object, and names no key: the first page is an ApiError, whatever the slug.
ResolvesApps == Paginates("object", FALSE)

BySlug(actor) == Get(actor, "type", "") = "app" /\ "slug" \in DOMAIN actor

Unresolvable(actor) ==
    \/ Get(actor, "type", "") \notin ActorTypes
    \/ actor.type = "app" /\ ~(BySlug(actor) /\ ResolvesApps)
    \/ actor.type = "integration" /\ "actor_id" \notin DOMAIN actor

\* Of an actor that can be resolved, which an App named by its slug is not.
BypassActor(actor) ==
    LET as(type, id) == [actor_type |-> type, actor_id |-> id,
                         bypass_mode |-> Get(actor, "mode", "always")]
    IN  CASE actor.type = "repository_admin_role" -> as("RepositoryRole", AdminRepositoryRoleId)
          [] actor.type = "organization_admin" -> as("OrganizationAdmin", 1)
          [] actor.type = "integration" -> as("Integration", actor.actor_id)

Bypass(m, t) == Get(RulesetTable(m, t), "bypass", {})

MethodOf == [allow_merge_commit |-> "merge", allow_squash_merge |-> "squash",
             allow_rebase_merge |-> "rebase"]

DerivedMergeMethods(m) ==
    {MethodOf[f] : f \in {g \in DOMAIN MethodOf : Get(Repository(m), g, FALSE)}}

AllowedMergeMethods(m) ==
    LET given == Get(PullRequestTable(m), "allowed_merge_methods", {})
    IN  IF given # {} THEN given ELSE DerivedMergeMethods(m)

AsksForReviews(m, t) ==
    t = "branch" /\ Get(RulesetTable(m, t), "require_pull_request", FALSE)

\* The errors of building the two payloads.
Unresolved(m) == {actor \in Bypass(m, "branch") \cup Bypass(m, "tag") : Unresolvable(actor)}
NoMergeMethod(m) == AsksForReviews(m, "branch") /\ AllowedMergeMethods(m) = {}
Unbuildable(m) == Unresolved(m) # {} \/ NoMergeMethod(m)

\* The parameters of a rule with their defaults, from a manifest's table or
\* from a rule of GitHub's.
Flags(table, flags) == [flag \in flags |-> Get(table, flag, FALSE)]

PullRequestParameters(table, methods) ==
    Over([allowed_merge_methods |-> methods,
          required_approving_review_count |-> Get(table, "required_approving_review_count", 0)],
         Flags(table, PullRequestFlags))

NoIntegration == -1
NormalizedCheck(check) ==
    [context |-> check.context, integration_id |-> Get(check, "integration_id", NoIntegration)]

StatusCheckParameters(table, checks) ==
    Over([required_status_checks |-> {NormalizedCheck(check) : check \in checks}],
         Flags(table, StatusCheckFlags))

UpdateParameters(table) == Flags(table, {"update_allows_fetch_and_merge"})

\* Enabled status checks without contexts are left to a manual follow-up.
ChecksEnabled(m, t) == Get(StatusChecksTable(m, t), "enabled", FALSE)
Contexts(m, t) == Get(StatusChecksTable(m, t), "contexts", {})
ChecksLeftToFollowUp(m, t) == ChecksEnabled(m, t) /\ Contexts(m, t) = {}

RuleTypesAsked(m, t) ==
    {type \in DOMAIN RuleFlag : Get(RulesetTable(m, t), RuleFlag[type], FALSE)}
    \cup (IF AsksForReviews(m, t) THEN {"pull_request"} ELSE {})
    \cup (IF ChecksEnabled(m, t) /\ Contexts(m, t) # {} THEN {"required_status_checks"} ELSE {})

Rules(m, t) ==
    [type \in RuleTypesAsked(m, t) |->
        CASE type = "update" -> UpdateParameters(RulesetTable(m, t))
          [] type = "pull_request" ->
                PullRequestParameters(PullRequestTable(m), AllowedMergeMethods(m))
          [] type = "required_status_checks" ->
                StatusCheckParameters(StatusChecksTable(m, t), Contexts(m, t))
          [] OTHER -> NoTable]

DefaultName == [branch |-> "Default branch", tag |-> "Default tags"]
TargetRefs == [branch |-> "~DEFAULT_BRANCH", tag |-> "~ALL"]

\* A table the manifest leaves out is an empty one: a ruleset without rules.
Payload(m, t) ==
    LET table == RulesetTable(m, t) IN
    [name |-> Get(table, "name", DefaultName[t]),
     target |-> t,
     enforcement |-> Get(table, "enforcement", "active"),
     bypass_actors |-> {BypassActor(actor) : actor \in Bypass(m, t)},
     refs |-> [include |-> {TargetRefs[t]}, exclude |-> {}],
     rules |-> Rules(m, t)]

\* Mutant of ManagedRuleTypes: status checks are always compared.
AlwaysCompareChecks(m, t) ==
    DOMAIN RuleFlag \cup {"required_status_checks"}
    \cup (IF t = "branch" THEN {"pull_request"} ELSE {})

\* The rule types that are compared.
ManagedRuleTypes(m, t) ==
    DOMAIN RuleFlag
    \cup (IF t = "branch" THEN {"pull_request"} ELSE {})
    \cup (IF ChecksLeftToFollowUp(m, t) THEN {} ELSE {"required_status_checks"})

\* What the report lists as unsupported or left to a person.
FollowUps(m, private) ==
    {<<"unsupported", key>> : key \in DOMAIN Unsupported(m)}
    \cup {<<"status_checks", t>> : t \in {u \in RulesetTargets : ChecksLeftToFollowUp(m, u)}}
    \cup (IF ~private /\ ~Get(Security(m), "advanced_security", TRUE)
          THEN {<<"toggle", "advanced_security">>} ELSE {})

----------------------------------------------------------------------------
(* normalize_ruleset_payload                                               *)

NormalizedRule(type, parameters) ==
    CASE type = "update" -> UpdateParameters(parameters)
      [] type = "pull_request" ->
            PullRequestParameters(parameters, Get(parameters, "allowed_merge_methods", {}))
      [] type = "required_status_checks" ->
            StatusCheckParameters(parameters, Get(parameters, "required_status_checks", {}))
      [] OTHER -> NoTable

\* Mutant of Normalized: enforcement is not compared.
NormalizedWithoutEnforcement(ruleset, types) ==
    [ruleset EXCEPT
        !.enforcement = "active",
        !.rules = [type \in DOMAIN @ \cap types |-> NormalizedRule(type, @[type])]]

Normalized(ruleset, types) ==
    [ruleset EXCEPT
        !.rules = [type \in DOMAIN @ \cap types |-> NormalizedRule(type, @[type])]]

Key(ruleset) == <<ruleset.name, ruleset.target>>
ManagedKeys(m) == {Key(Payload(m, t)) : t \in RulesetTargets}
=============================================================================
