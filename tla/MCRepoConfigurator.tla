------------------------- MODULE MCRepoConfigurator -------------------------
(***************************************************************************)
(* Small manifests after .github/repository-settings.toml: the branch      *)
(* ruleset's status checks are enabled without contexts, the tags may be   *)
(* pushed by an App.                                                       *)
(***************************************************************************)
EXTENDS RepoConfiguratorInvariant

CONSTANTS r1, r2, r3

MCRunners == {r1, r2}
MCThreeRunners == {r1, r2, r3}
MCBothApply == [r \in Runners |-> "apply"]
MCPlanAndApply == [r \in Runners |-> IF r = r1 THEN "plan" ELSE "apply"]
MCFields == {"has_wiki", "has_issues", "allow_squash_merge"}
MCValues == BOOLEAN

Admin == [type |-> "repository_admin_role", mode |-> "always"]
App == [type |-> "integration", actor_id |-> 3342783]
AppBySlug == [type |-> "app", slug |-> "release_please"]

MCBranchTable ==
    [name |-> "Default branch",
     restrict_deletions |-> TRUE,
     restrict_updates |-> FALSE,
     require_pull_request |-> TRUE,
     pull_request |-> [allowed_merge_methods |-> {"squash"},
                       required_approving_review_count |-> 1],
     bypass |-> {Admin},
     status_checks |-> [enabled |-> TRUE]]

MCTagTable ==
    [name |-> "Default tags",
     enforcement |-> "active",
     restrict_creations |-> TRUE,
     restrict_updates |-> TRUE,
     bypass |-> {Admin, App},
     status_checks |-> [enabled |-> TRUE, contexts |-> {[context |-> "verify"]}]]

MCManifest ==
    [repository |-> [has_wiki |-> FALSE, immutable_releases |-> TRUE],
     security |-> [dependency_graph |-> TRUE, vulnerability_alerts |-> TRUE,
                   advanced_security |-> TRUE],
     rulesets |-> [branch_default |-> MCBranchTable, tags_default |-> MCTagTable],
     unsupported |-> [preserve_repository |-> TRUE]]

MCOneManifest == {MCManifest}

\* The same with other contents: what it asks for contradicts the first.
MCRival ==
    [repository |-> [has_wiki |-> TRUE, has_issues |-> FALSE],
     security |-> [vulnerability_alerts |-> FALSE],
     rulesets |-> [branch_default |-> [name |-> "Default branch", block_force_pushes |-> TRUE],
                   tags_default |-> [MCTagTable EXCEPT !.bypass = {Admin}]]]

MCRivals == {MCManifest, MCRival}

\* Manifests that are refused or ask for less usual things.
With(sections) == sections @@ MCManifest
WithRuleset(key, table) == With([rulesets |-> (key :> table)])
MCVaried ==
    {NoTable,
     MCManifest,
     MCRival,
     With([labels |-> NoTable]),
     With([repository |-> [has_wikis |-> FALSE]]),
     With([security |-> [dependency_graph |-> TRUE, vulnerability_alerts |-> FALSE]]),
     With([security |-> [private_vulnerability_reporting |-> TRUE]]),
     WithRuleset("tags_default", [require_pull_request |-> TRUE]),
     WithRuleset("branch_default", [require_pull_request |-> TRUE]),
     WithRuleset("tags_default", [bypass |-> {AppBySlug}]),
     With([repository |-> [allow_squash_merge |-> TRUE],
           security |-> [automated_security_fixes |-> TRUE, advanced_security |-> FALSE],
           rulesets |-> [branch_default |->
                [require_pull_request |-> TRUE, restrict_updates |-> TRUE,
                 update_allows_fetch_and_merge |-> TRUE, enforcement |-> "evaluate",
                 bypass |-> {[type |-> "organization_admin"]},
                 status_checks |->
                    [enabled |-> TRUE, strict_required_status_checks_policy |-> TRUE,
                     contexts |-> {[context |-> "ci"],
                                   [context |-> "lint", integration_id |-> 15368]}]]]])}

MCSlugManifests == {WithRuleset("tags_default", [bypass |-> {AppBySlug}])}

\* A manifest that asks for a setting, a toggle and one rule of one ruleset, and
\* empties the other.
MCSmallManifest ==
    [repository |-> [has_wiki |-> FALSE],
     security |-> [vulnerability_alerts |-> TRUE],
     rulesets |-> [tags_default |-> [restrict_updates |-> TRUE]]]
MCSmall == {MCSmallManifest}
MCWholeOrSmall == MCOneManifest \cup MCSmall

\* By hand: the follow-up is done, a rule the script does not know is added, the
\* ruleset is switched off, a rule is lifted or loses its parameter, the ruleset
\* is renamed.
HandMadeChecks == [required_status_checks |->
                      [required_status_checks |->
                          {[context |-> "ci", integration_id |-> NoIntegration]}]]
MCEdits(ruleset) ==
    {[ruleset EXCEPT !.rules = HandMadeChecks @@ @],
     [ruleset EXCEPT !.rules = [merge_queue |-> NoTable] @@ @],
     [ruleset EXCEPT !.enforcement = "disabled"],
     [ruleset EXCEPT !.rules = Restrict(@, DOMAIN @ \ {"deletion", "creation"})],
     [ruleset EXCEPT !.rules = [type \in DOMAIN @ |->
                                   IF type = "pull_request"
                                   THEN [require_last_push_approval |-> TRUE] @@ @[type]
                                   ELSE @[type]]],
     [ruleset EXCEPT !.name = "Renamed"]}

\* A fresh repository, or one whose branch ruleset was configured by hand
\* next to a ruleset the manifest does not name, or one set up by the script.
HandMade == [Stored(Payload(MCManifest, "branch")) EXCEPT
                !.bypass_actors = {},
                !.rules = HandMadeChecks @@ [deletion |-> NoTable]]

Unrelated == [Stored(Payload(MCManifest, "branch")) EXCEPT !.name = "Releases"]

MCRepository ==
    /\ settings = [f \in Fields |-> TRUE]
    /\ toggles = [t \in Toggles |-> \/ t = "immutable_releases"
                                    \/ t = "advanced_security" /\ ~Private]
    /\ \/ rulesets = <<>> /\ nextId = 1
       \/ rulesets = <<Unrelated, HandMade>> /\ nextId = 3
       \/ /\ rulesets = <<Stored(Payload(MCManifest, "branch")), Stored(Payload(MCManifest, "tag"))>>
          /\ nextId = 3

MCInit == MCRepository /\ InitRuns

\* The repository is already as the first manifest asks, but for a branch
\* ruleset that may be switched off.
MCConfigured ==
    /\ InitRuns
    /\ settings = [f \in Fields |-> f # "has_wiki"]
    /\ toggles = [t \in Toggles |-> t \in DOMAIN AskedToggles(MCManifest)]
    /\ \E enforcement \in {"active", "disabled"} :
          rulesets = <<[Stored(Payload(MCManifest, "branch")) EXCEPT !.enforcement = enforcement],
                       Stored(Payload(MCManifest, "tag"))>>
    /\ nextId = 3

\* Runs that have loaded m; the others have failed before.
Loading(runs, m) ==
    /\ pc = [r \in Runners |-> IF r \in runs THEN "loaded" ELSE "failed"]
    /\ manifest = [r \in Runners |-> IF r \in runs THEN m ELSE NoTable]
    /\ unread = [r \in Runners |-> {}]
    /\ listed = [r \in Runners |-> {}]
    /\ managed = [r \in Runners |-> {}]
    /\ plan = [r \in Runners |-> <<>>]
    /\ applied = [r \in Runners |-> 0]
    /\ alone = [r \in Runners |-> FALSE]

\* A plan and an apply, and somebody who edits what there is.
MCEdited ==
    /\ MCRepository /\ rulesets # <<>>
    /\ Loading({r1, r2}, MCManifest)
    /\ edits = 0

\* Two applies, all edits made: of a fresh repository, of one with an outdated
\* ruleset, or with the two that earlier runs made at once.
MCRerun ==
    /\ settings = [f \in Fields |-> TRUE]
    /\ toggles = [t \in Toggles |-> t = "advanced_security"]
    /\ \E n \in 0..2 :
          /\ rulesets = [k \in 1..n |-> Stored(Payload(MCManifest, "tag"))]
          /\ nextId = n + 1
    /\ Loading({r2, r3}, MCSmallManifest)
    /\ edits = MaxEdits

MCSpec == MCInit /\ [][Next]_vars
MCEditedSpec == (MCEdited \/ MCRerun) /\ [][Next]_vars

MCFairInit == MCConfigured \/ (MCInit /\ rulesets = <<>>)
MCFairSpec == MCFairInit /\ [][Next]_vars /\ Fairness

RunnerSymmetry == Permutations(MCRunners)
=============================================================================
