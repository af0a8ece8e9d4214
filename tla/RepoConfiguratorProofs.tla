----------------------- MODULE RepoConfiguratorProofs -----------------------
(***************************************************************************)
(* Whatever others do meanwhile, and however stale a plan is, a run's own  *)
(* writes only bring the repository nearer to its manifest.  A run that    *)
(* nobody disturbs plans exactly what is missing and leaves nothing        *)
(* undone, makes no ruleset twice and touches nothing else.                *)
(***************************************************************************)
EXTENDS RepoConfiguratorInvariant, FiniteSetTheorems, TLAPS

----------------------------------------------------------------------------
(* Tables                                                                  *)

LEMMA OverKeys ==
    ASSUME NEW f, NEW g
    PROVE  /\ DOMAIN Over(f, g) = DOMAIN f \cup DOMAIN g
           /\ \A x \in DOMAIN f : Over(f, g)[x] = f[x]
           /\ \A x \in DOMAIN g \ DOMAIN f : Over(f, g)[x] = g[x]
BY DEF Over

LEMMA KeepKeys ==
    ASSUME NEW f, NEW S
    PROVE  /\ DOMAIN Keep(f, S) = DOMAIN f \cap S
           /\ \A x \in DOMAIN f \cap S : Keep(f, S)[x] = f[x]
BY DEF Keep, Restrict

\* The patch sets fields to what the manifest asks.
LEMMA PatchAsks ==
    ASSUME NEW m
    PROVE  /\ DOMAIN SettingsPatch(m, settings) \subseteq DOMAIN AskedSettings(m)
           /\ \A f \in DOMAIN SettingsPatch(m, settings) :
                 SettingsPatch(m, settings)[f] = AskedSettings(m)[f]
           /\ DOMAIN AskedSettings(m) \subseteq Fields
<1>1. /\ DOMAIN AskedSettings(m) = DOMAIN Repository(m) \cap Fields
      /\ \A f \in DOMAIN Repository(m) \cap Fields : AskedSettings(m)[f] = Repository(m)[f]
    BY KeepKeys DEF AskedSettings
<1> QED
    BY <1>1 DEF SettingsPatch, Restrict

\* Toggles of their own and Advanced Security do not get in each other's way.
LEMMA TogglesAsked ==
    ASSUME NEW m
    PROVE  /\ DOMAIN AskedToggles(m) \subseteq Toggles
           /\ \A t \in DOMAIN DesiredToggles(m) :
                 /\ t \in DOMAIN AskedToggles(m)
                 /\ t # "advanced_security"
                 /\ AskedToggles(m)[t] = DesiredToggles(m)[t]
           /\ \A t \in DOMAIN AdvancedSecurity(m, Private) :
                 /\ t \in DOMAIN AskedToggles(m) /\ t = "advanced_security" /\ Private
                 /\ AskedToggles(m)[t] = AdvancedSecurity(m, Private)[t]
<1> DEFINE own == Keep(Repository(m), {"immutable_releases"})
           security == Keep(Security(m), SecurityToggles)
           alerts == IF AlertsAsked(m) = {} THEN NoTable
                     ELSE [vulnerability_alerts |-> CHOOSE asked \in AlertsAsked(m) : TRUE]
           advanced == Keep(Security(m), {"advanced_security"})
<1>1. /\ DOMAIN own \subseteq {"immutable_releases"}
      /\ DOMAIN security \subseteq SecurityToggles
      /\ DOMAIN advanced \subseteq {"advanced_security"}
    <2>1. DOMAIN own = DOMAIN Repository(m) \cap {"immutable_releases"}
        BY KeepKeys
    <2>2. DOMAIN security = DOMAIN Security(m) \cap SecurityToggles
        BY KeepKeys
    <2>3. DOMAIN advanced = DOMAIN Security(m) \cap {"advanced_security"}
        BY KeepKeys
    <2> HIDE DEF own, security, advanced
    <2> QED
        BY <2>1, <2>2, <2>3
<1>2. DOMAIN alerts \subseteq {"vulnerability_alerts"}
    BY DEF NoTable
<1>3. DesiredToggles(m) = Over(own, Over(security, alerts))
    BY DEF DesiredToggles
<1>4. AskedToggles(m) = Over(DesiredToggles(m), advanced)
    BY DEF AskedToggles
<1> HIDE DEF own, security, alerts, advanced
<1>5. DOMAIN DesiredToggles(m) \subseteq
          {"immutable_releases", "vulnerability_alerts"} \cup SecurityToggles
    <2>1. DOMAIN Over(security, alerts) = DOMAIN security \cup DOMAIN alerts
        BY OverKeys
    <2>2. DOMAIN DesiredToggles(m) = DOMAIN own \cup DOMAIN Over(security, alerts)
        BY <1>3, OverKeys
    <2> QED
        BY <1>1, <1>2, <2>1, <2>2
<1>6. "advanced_security" \notin DOMAIN DesiredToggles(m)
    BY <1>5 DEF SecurityToggles
<1>7. Toggles = {"vulnerability_alerts", "immutable_releases", "private_vulnerability_reporting",
                 "automated_security_fixes", "advanced_security"}
    <2>1. DOMAIN ToggleOrder = 1..4
        BY DEF ToggleOrder
    <2>2. 1..4 = {1, 2, 3, 4}
        OBVIOUS
    <2> QED
        BY <2>1, <2>2 DEF Toggles, ToSet, ToggleOrder
<1>8. \A t \in DOMAIN AdvancedSecurity(m, Private) :
          t \in DOMAIN advanced /\ Private /\ AdvancedSecurity(m, Private)[t] = advanced[t]
    BY DEF AdvancedSecurity, NoTable, advanced
<1>9. /\ DOMAIN AskedToggles(m) = DOMAIN DesiredToggles(m) \cup DOMAIN advanced
      /\ \A t \in DOMAIN DesiredToggles(m) : AskedToggles(m)[t] = DesiredToggles(m)[t]
      /\ \A t \in DOMAIN advanced \ DOMAIN DesiredToggles(m) : AskedToggles(m)[t] = advanced[t]
    BY <1>4 DEF Over
<1>10. DOMAIN AskedToggles(m) \subseteq Toggles
    BY <1>1, <1>5, <1>7, <1>9 DEF SecurityToggles
<1> QED
    BY <1>1, <1>6, <1>8, <1>9, <1>10

----------------------------------------------------------------------------
(* Rulesets                                                                *)

LEMMA PayloadParts ==
    ASSUME NEW m, NEW t
    PROVE  /\ DOMAIN Payload(m, t) = RulesetParts
           /\ Payload(m, t).target = t
           /\ Payload(m, t).rules = Rules(m, t)
BY DEF Payload, RulesetParts

LEMMA StoredParts ==
    ASSUME NEW payload, DOMAIN payload = RulesetParts
    PROVE  /\ DOMAIN Stored(payload) = RulesetParts
           /\ \A part \in RulesetParts \ {"rules"} : Stored(payload)[part] = payload[part]
           /\ Stored(payload).rules =
                 [type \in DOMAIN payload.rules |-> StoredParameters(type, payload.rules[type])]
BY DEF Stored, RulesetParts

\* Checks are normalized once and for all.
LEMMA NormalizedOnce ==
    ASSUME NEW check
    PROVE  NormalizedCheck(NormalizedCheck(check)) = NormalizedCheck(check)
BY DEF NormalizedCheck, Get

LEMMA PullRequestKeys ==
    ASSUME NEW table, NEW methods, NEW asked, asked = PullRequestParameters(table, methods)
    PROVE  /\ DOMAIN asked = {"allowed_merge_methods", "required_approving_review_count"}
                                 \cup PullRequestFlags
           /\ asked["allowed_merge_methods"] = methods
           /\ asked["required_approving_review_count"] =
                 Get(table, "required_approving_review_count", 0)
           /\ \A flag \in PullRequestFlags : asked[flag] = Get(table, flag, FALSE)
BY DEF PullRequestParameters, Over, Flags, PullRequestFlags

LEMMA StatusCheckKeys ==
    ASSUME NEW table, NEW checks, NEW asked, asked = StatusCheckParameters(table, checks)
    PROVE  /\ DOMAIN asked = {"required_status_checks"} \cup StatusCheckFlags
           /\ asked["required_status_checks"] = {NormalizedCheck(check) : check \in checks}
           /\ \A flag \in StatusCheckFlags : asked[flag] = Get(table, flag, FALSE)
BY DEF StatusCheckParameters, Over, Flags, StatusCheckFlags

\* The rules of a payload, by their types.
LEMMA RulesAsked ==
    ASSUME NEW m, NEW t
    PROVE  /\ DOMAIN Rules(m, t) = RuleTypesAsked(m, t)
           /\ RuleTypesAsked(m, t) \subseteq
                 DOMAIN RuleFlag \cup {"pull_request", "required_status_checks"}
           /\ \A type \in RuleTypesAsked(m, t) :
                 /\ type = "update" =>
                       Rules(m, t)[type] = UpdateParameters(RulesetTable(m, t))
                 /\ type = "pull_request" =>
                       Rules(m, t)[type] =
                          PullRequestParameters(PullRequestTable(m), AllowedMergeMethods(m))
                 /\ type = "required_status_checks" =>
                       Rules(m, t)[type] =
                          StatusCheckParameters(StatusChecksTable(m, t), Contexts(m, t))
                 /\ type \notin {"update", "pull_request", "required_status_checks"} =>
                       Rules(m, t)[type] = NoTable
<1>1. DOMAIN Rules(m, t) = RuleTypesAsked(m, t)
    BY DEF Rules
<1>2. RuleTypesAsked(m, t) \subseteq
         DOMAIN RuleFlag \cup {"pull_request", "required_status_checks"}
    BY DEF RuleTypesAsked
<1> QED
    BY <1>1, <1>2 DEF Rules

\* A payload has all that GitHub answers with.
LEMMA PayloadComplete ==
    ASSUME NEW m, NEW t
    PROVE  Complete(Payload(m, t))
<1> DEFINE rules == Payload(m, t).rules
<1>1. DOMAIN Payload(m, t) = RulesetParts /\ rules = Rules(m, t)
    BY PayloadParts
<1> HIDE DEF rules
<1>2. ASSUME "pull_request" \in DOMAIN rules
      PROVE  {"allowed_merge_methods", "required_approving_review_count"}
                 \subseteq DOMAIN rules["pull_request"]
    <2>1. PICK asked : asked = rules["pull_request"]
        OBVIOUS
    <2>2. asked = PullRequestParameters(PullRequestTable(m), AllowedMergeMethods(m))
        BY <1>1, <1>2, <2>1, RulesAsked
    <2>3. {"allowed_merge_methods", "required_approving_review_count"} \subseteq DOMAIN asked
        BY <2>2, PullRequestKeys
    <2> QED
        BY <2>1, <2>3
<1>3. ASSUME "required_status_checks" \in DOMAIN rules
      PROVE  /\ "required_status_checks" \in DOMAIN rules["required_status_checks"]
             /\ \A check \in rules["required_status_checks"]["required_status_checks"] :
                   NormalizedCheck(check) = check
    <2>1. PICK asked : asked = rules["required_status_checks"]
        OBVIOUS
    <2>2. asked = StatusCheckParameters(StatusChecksTable(m, t), Contexts(m, t))
        BY <1>1, <1>3, <2>1, RulesAsked
    <2>3. /\ "required_status_checks" \in DOMAIN asked
          /\ asked["required_status_checks"] = {NormalizedCheck(check) : check \in Contexts(m, t)}
        BY <2>2, StatusCheckKeys
    <2> QED
        BY <2>1, <2>3, NormalizedOnce
<1> QED
    BY <1>1, <1>2, <1>3 DEF Complete, rules

\* GitHub drops nothing from it.
LEMMA StoredComplete ==
    ASSUME NEW ruleset, Complete(ruleset)
    PROVE  Complete(Stored(ruleset))
<1> DEFINE stored == Stored(ruleset)
<1>1. /\ DOMAIN ruleset = RulesetParts /\ DOMAIN stored = RulesetParts
      /\ stored.rules = [type \in DOMAIN ruleset.rules |->
                             StoredParameters(type, ruleset.rules[type])]
    BY StoredParts DEF Complete
<1> HIDE DEF stored
<1>2. ASSUME "pull_request" \in DOMAIN stored.rules
      PROVE  {"allowed_merge_methods", "required_approving_review_count"}
                 \subseteq DOMAIN stored.rules["pull_request"]
    <2>1. "pull_request" \in DOMAIN ruleset.rules
        BY <1>1, <1>2
    <2>2. stored.rules["pull_request"] =
             Over(ruleset.rules["pull_request"], [automatic_review |-> FALSE])
        BY <1>1, <2>1 DEF StoredParameters
    <2>3. PICK parameters : parameters = ruleset.rules["pull_request"]
        OBVIOUS
    <2>4. DOMAIN parameters \subseteq DOMAIN stored.rules["pull_request"]
        BY <2>2, <2>3 DEF Over
    <2> QED
        BY <2>1, <2>3, <2>4 DEF Complete
<1>3. ASSUME "required_status_checks" \in DOMAIN stored.rules
      PROVE  /\ "required_status_checks" \in DOMAIN ruleset.rules
             /\ stored.rules["required_status_checks"] = ruleset.rules["required_status_checks"]
    BY <1>1, <1>3 DEF StoredParameters
<1> QED
    BY <1>1, <1>2, <1>3 DEF Complete, stored

\* What GitHub leaves out of a rule reads as what was asked for.
LEMMA StoredParametersKept ==
    ASSUME NEW type, NEW parameters,
           type = "update" => \A p \in DOMAIN parameters : parameters[p] \in BOOLEAN
    PROVE  HasParameters(StoredParameters(type, parameters), parameters)
<1>1. CASE type = "update"
    BY <1>1 DEF HasParameters, StoredParameters, Get, Restrict
<1>2. CASE type = "pull_request"
    <2>1. StoredParameters(type, parameters) = Over(parameters, [automatic_review |-> FALSE])
        BY <1>2 DEF StoredParameters
    <2> QED
        BY <2>1 DEF Over, HasParameters, Get
<1>3. CASE type \notin {"update", "pull_request"}
    BY <1>3 DEF HasParameters, StoredParameters, Get
<1> QED
    BY <1>1, <1>2, <1>3

\* What GitHub makes of a payload is as the manifest asks.
LEMMA StoredIsAsAsked ==
    ASSUME NEW m \in Manifests, NEW t \in RulesetTargets
    PROVE  AsAsked(Stored(Payload(m, t)), m, t)
<1> DEFINE asked == Payload(m, t)
           stored == Stored(asked)
<1>1. /\ DOMAIN asked = RulesetParts
      /\ \A part \in RulesetParts \ {"rules"} : stored[part] = asked[part]
      /\ stored.rules = [type \in DOMAIN asked.rules |-> StoredParameters(type, asked.rules[type])]
    BY PayloadParts, StoredParts
<1>2. ASSUME NEW p \in DOMAIN UpdateParameters(RulesetTable(m, t))
      PROVE  UpdateParameters(RulesetTable(m, t))[p] \in BOOLEAN
    BY ConfiguratorAssumption DEF UpdateParameters, Flags
<1>3. ASSUME NEW type \in DOMAIN asked.rules
      PROVE  HasParameters(stored.rules[type], asked.rules[type])
    <2>1. asked.rules = Rules(m, t)
        BY PayloadParts
    <2>2. type = "update" => asked.rules[type] = UpdateParameters(RulesetTable(m, t))
        BY <2>1 DEF Rules
    <2>3. type = "update" => \A p \in DOMAIN asked.rules[type] : asked.rules[type][p] \in BOOLEAN
        BY <1>2, <2>2
    <2>4. stored.rules[type] = StoredParameters(type, asked.rules[type])
        BY <1>1
    <2> QED
        BY <2>3, <2>4, StoredParametersKept
<1> HIDE DEF asked, stored
<1> QED
    BY <1>1, <1>3 DEF AsAsked, asked, stored

----------------------------------------------------------------------------
(* Writes                                                                  *)

SlotsStay == \A t : Slots(t) \subseteq Slots(t)'

\* Parts that were right stay right if every setting and every toggle is kept or
\* set to what is asked, and every ruleset that is as asked stays or is replaced.
LEMMA DriftShrinks ==
    ASSUME NEW m,
           \A f \in DOMAIN AskedSettings(m) :
              settings'[f] = settings[f] \/ settings'[f] = AskedSettings(m)[f],
           \A t \in DOMAIN AskedToggles(m) :
              toggles'[t] = toggles[t] \/ toggles'[t] = AskedToggles(m)[t],
           \A t \in RulesetTargets :
              (\E n \in DOMAIN rulesets : AsAsked(rulesets[n], m, t)) =>
                  \E n \in DOMAIN rulesets' : AsAsked(rulesets'[n], m, t)
    PROVE  Drift(m)' \subseteq Drift(m)
BY DEF Drift

LEMMA PatchRepairs ==
    ASSUME NEW m, OnGitHub, NEW S \in SUBSET DOMAIN AskedSettings(m),
           PatchSettings(Restrict(AskedSettings(m), S))
    PROVE  OnGitHub' /\ SlotsStay /\ Drift(m)' \subseteq Drift(m)
<1>1. UNCHANGED <<toggles, rulesets, nextId>>
    BY DEF PatchSettings
<1>2. /\ DOMAIN settings' = Fields
      /\ \A f \in Fields : settings'[f] = IF f \in S THEN AskedSettings(m)[f] ELSE settings[f]
    BY PatchAsks DEF PatchSettings, Over, Restrict, OnGitHub
<1>3. Drift(m)' \subseteq Drift(m)
    BY <1>1, <1>2, PatchAsks, DriftShrinks
<1> QED
    BY <1>1, <1>2, <1>3 DEF OnGitHub, SlotsStay, Slots

LEMMA SwitchRepairs ==
    ASSUME NEW m, OnGitHub, NEW t \in DOMAIN AskedToggles(m), t = "advanced_security" => Private,
           SetToggle(t, AskedToggles(m)[t])
    PROVE  OnGitHub' /\ SlotsStay /\ Drift(m)' \subseteq Drift(m)
<1>1. UNCHANGED <<settings, rulesets, nextId>>
    BY DEF SetToggle
<1>2. toggles' = [toggles EXCEPT ![t] = AskedToggles(m)[t]]
    BY DEF SetToggle
<1>3. DOMAIN toggles' = Toggles /\ (Private \/ toggles'["advanced_security"])
    BY <1>2 DEF OnGitHub, Toggles
<1>4. \A u \in DOMAIN AskedToggles(m) :
          toggles'[u] = toggles[u] \/ toggles'[u] = AskedToggles(m)[u]
    BY <1>2, TogglesAsked DEF OnGitHub
<1>5. Drift(m)' \subseteq Drift(m)
    BY <1>1, <1>4, DriftShrinks
<1> QED
    BY <1>1, <1>3, <1>5 DEF OnGitHub, SlotsStay, Slots

\* A new ruleset gets a new ID.
LEMMA CreationRepairs ==
    ASSUME NEW m \in Manifests, OnGitHub, NEW t \in RulesetTargets,
           CreateRuleset(Payload(m, t))
    PROVE  OnGitHub' /\ SlotsStay /\ Drift(m)' \subseteq Drift(m)
<1> DEFINE stored == Stored(Payload(m, t))
<1>1. /\ UNCHANGED <<settings, toggles>> /\ nextId' = nextId + 1
      /\ rulesets' = Over([n \in {nextId} |-> stored], rulesets)
    BY DEF CreateRuleset
<1>2. Complete(stored)
    BY PayloadComplete, StoredComplete
<1> HIDE DEF stored
<1>3. nextId \notin DOMAIN rulesets
    BY DEF OnGitHub
<1>4. /\ DOMAIN rulesets' = {nextId} \cup DOMAIN rulesets
      /\ rulesets'[nextId] = stored
      /\ \A n \in DOMAIN rulesets : rulesets'[n] = rulesets[n]
    BY <1>1, <1>3 DEF Over
<1>5. OnGitHub'
    BY <1>1, <1>2, <1>4 DEF OnGitHub
<1>6. SlotsStay
    BY <1>1, <1>4 DEF SlotsStay, Slots, OnGitHub
<1>7. Drift(m)' \subseteq Drift(m)
    BY <1>1, <1>4, DriftShrinks
<1> QED
    BY <1>5, <1>6, <1>7

\* A ruleset that is replaced by one of its own target.
LEMMA ReplacedInPlace ==
    ASSUME OnGitHub, NEW n, NEW payload, UpdateRuleset(n, payload),
           Complete(payload), payload.target = rulesets[n].target
    PROVE  /\ OnGitHub' /\ SlotsStay
           /\ n \in DOMAIN rulesets /\ DOMAIN rulesets' = DOMAIN rulesets
           /\ rulesets'[n] = Stored(payload)
           /\ \A k \in DOMAIN rulesets \ {n} : rulesets'[k] = rulesets[k]
           /\ UNCHANGED <<settings, toggles>>
<1>1. /\ n \in DOMAIN rulesets
      /\ rulesets' = [rulesets EXCEPT ![n] = Stored(payload)]
      /\ UNCHANGED <<settings, toggles, nextId>>
    BY DEF UpdateRuleset
<1>2. Complete(Stored(payload)) /\ Stored(payload).target = payload.target
    BY StoredParts, StoredComplete DEF Complete, RulesetParts
<1>3. /\ DOMAIN rulesets' = DOMAIN rulesets
      /\ rulesets'[n] = Stored(payload)
      /\ \A k \in DOMAIN rulesets \ {n} : rulesets'[k] = rulesets[k]
    BY <1>1
<1>4. OnGitHub'
    BY <1>1, <1>2, <1>3 DEF OnGitHub
<1>5. SlotsStay
    BY <1>1, <1>2, <1>3 DEF SlotsStay, Slots
<1> QED
    BY <1>1, <1>3, <1>4, <1>5

\* A ruleset of another target is not what is replaced.
LEMMA UpdateRepairs ==
    ASSUME NEW m \in Manifests, OnGitHub, NEW t \in RulesetTargets, NEW n \in Slots(t),
           UpdateRuleset(n, Payload(m, t))
    PROVE  OnGitHub' /\ SlotsStay /\ Drift(m)' \subseteq Drift(m)
<1>1. n \in DOMAIN rulesets /\ rulesets[n].target = t
    BY DEF UpdateRuleset, Slots
<1>2. Complete(Payload(m, t)) /\ Payload(m, t).target = t
    BY PayloadParts, PayloadComplete
<1>3. /\ OnGitHub' /\ SlotsStay
      /\ DOMAIN rulesets' = DOMAIN rulesets
      /\ rulesets'[n] = Stored(Payload(m, t))
      /\ \A k \in DOMAIN rulesets \ {n} : rulesets'[k] = rulesets[k]
      /\ UNCHANGED <<settings, toggles>>
    BY <1>1, <1>2, ReplacedInPlace
<1>4. AsAsked(rulesets'[n], m, t)
    BY <1>3, StoredIsAsAsked
<1>5. ASSUME NEW u \in RulesetTargets, AsAsked(rulesets[n], m, u)
      PROVE  u = t
    <2>1. DOMAIN Payload(m, u) = RulesetParts /\ Payload(m, u).target = u
        BY PayloadParts
    <2>2. rulesets[n].target = Payload(m, u).target
        BY <1>5, <2>1 DEF AsAsked, RulesetParts
    <2> QED
        BY <1>1, <2>1, <2>2
<1>6. ASSUME NEW u \in RulesetTargets, NEW k \in DOMAIN rulesets, AsAsked(rulesets[k], m, u)
      PROVE  \E j \in DOMAIN rulesets' : AsAsked(rulesets'[j], m, u)
    <2>1. CASE k = n
        BY <1>1, <1>3, <1>4, <1>5, <1>6, <2>1
    <2>2. CASE k # n
        BY <1>3, <1>6, <2>2
    <2> QED
        BY <2>1, <2>2
<1>7. Drift(m)' \subseteq Drift(m)
    BY <1>3, <1>6, DriftShrinks
<1> QED
    BY <1>3, <1>7

LEMMA PerformRepairs ==
    ASSUME NEW m \in Manifests, OnGitHub, NEW operation \in Repairs(m), Perform(operation)
    PROVE  OnGitHub' /\ SlotsStay /\ Drift(m)' \subseteq Drift(m)
<1>1. CASE operation \in Patches(m)
    <2>1. PICK S \in SUBSET DOMAIN AskedSettings(m) :
             operation = [kind |-> "patch_repository", payload |-> Restrict(AskedSettings(m), S)]
        BY <1>1 DEF Patches
    <2>2. PatchSettings(Restrict(AskedSettings(m), S))
        BY <2>1 DEF Perform
    <2> QED
        BY <2>2, PatchRepairs
<1>2. CASE operation \in Switches(m)
    <2>1. PICK t \in DOMAIN AskedToggles(m) :
             /\ t = "advanced_security" => Private
             /\ operation = [kind |-> "toggle", toggle |-> t, enabled |-> AskedToggles(m)[t]]
        BY <1>2 DEF Switches
    <2>2. SetToggle(t, AskedToggles(m)[t])
        BY <2>1 DEF Perform
    <2> QED
        BY <2>1, <2>2, SwitchRepairs
<1>3. CASE operation \in Creations(m)
    <2>1. PICK t \in RulesetTargets :
             operation = [kind |-> "create_ruleset", payload |-> Payload(m, t)]
        BY <1>3 DEF Creations
    <2>2. CreateRuleset(Payload(m, t))
        BY <2>1 DEF Perform
    <2> QED
        BY <2>2, CreationRepairs
<1>4. CASE operation \in Updates(m)
    <2>1. PICK t \in RulesetTargets : \E n \in Slots(t) :
             operation = [kind |-> "update_ruleset", id |-> n, payload |-> Payload(m, t)]
        BY <1>4 DEF Updates
    <2>2. PICK n \in Slots(t) :
             operation = [kind |-> "update_ruleset", id |-> n, payload |-> Payload(m, t)]
        BY <2>1
    <2>3. UpdateRuleset(n, Payload(m, t))
        BY <2>2 DEF Perform
    <2> QED
        BY <2>3, UpdateRepairs
<1> QED
    BY <1>1, <1>2, <1>3, <1>4 DEF Repairs

\* What others do leaves IDs and targets alone.
LEMMA EditStays ==
    ASSUME OnGitHub, Edit
    PROVE  OnGitHub' /\ SlotsStay
<1>1. ASSUME NEW f \in Fields, NEW v \in Values, PatchSettings([field \in {f} |-> v])
      PROVE  OnGitHub' /\ SlotsStay
    BY <1>1 DEF PatchSettings, Over, OnGitHub, SlotsStay, Slots
<1>2. ASSUME NEW t \in Toggles, NEW b \in BOOLEAN, t = "advanced_security" => Private,
             SetToggle(t, b)
      PROVE  OnGitHub' /\ SlotsStay
    BY <1>2 DEF SetToggle, OnGitHub, SlotsStay, Slots
<1>3. ASSUME NEW n \in DOMAIN rulesets, DeleteRuleset(n)
      PROVE  OnGitHub' /\ SlotsStay
    BY <1>3 DEF DeleteRuleset, Restrict, OnGitHub, SlotsStay, Slots
<1>4. ASSUME NEW n \in DOMAIN rulesets, NEW edited \in Edits(rulesets[n]),
             Complete(edited), edited.target = rulesets[n].target,
             UpdateRuleset(n, edited)
      PROVE  OnGitHub' /\ SlotsStay
    BY <1>4, ReplacedInPlace
<1> QED
    BY <1>1, <1>2, <1>3, <1>4 DEF Edit

----------------------------------------------------------------------------
(* Reads                                                                   *)

\* Repairs stay repairs, and entries of lists stay what they are.
LEMMA RepairsStay ==
    ASSUME SlotsStay, NEW m
    PROVE  Repairs(m) \subseteq Repairs(m)'
<1>1. Updates(m) \subseteq Updates(m)'
    BY DEF Updates, SlotsStay
<1> QED
    BY <1>1 DEF Repairs, Patches, Switches, Creations

LEMMA SequenceOfMore ==
    ASSUME NEW S, NEW T, S \subseteq T, NEW s \in Seq(S)
    PROVE  s \in Seq(T)
OBVIOUS

LEMMA HonestKept ==
    ASSUME NEW r, Honest(r), SlotsStay,
           pc'[r] = pc[r] \/ pc'[r] \in Ended, applied'[r] \in Nat,
           manifest'[r] = manifest[r], plan'[r] = plan[r],
           listed'[r] = listed[r], managed'[r] = managed[r]
    PROVE  Honest(r)'
<1>1. PICK m : m = manifest[r]
    OBVIOUS
<1>2. plan[r] \in Seq(Repairs(m))
    BY <1>1 DEF Honest
<1>3. plan[r] \in Seq(Repairs(m)')
    BY <1>2, RepairsStay, SequenceOfMore
<1>4. (plan[r] \in Seq(Repairs(manifest[r])))'
    BY <1>1, <1>3
<1>5. \A e \in listed[r] \cup managed[r] : e.id \in Slots(e.key[2])'
    BY DEF Honest, SlotsStay
<1> QED
    BY <1>4, <1>5 DEF Honest, Ended

LEMMA OneOrNone ==
    ASSUME NEW S, NEW x \in S
    PROVE  <<x>> \in Seq(S)
OBVIOUS

LEMMA SettingsChangeRepairs ==
    ASSUME NEW m
    PROVE  SettingsChange(m) \in Seq(Repairs(m))
<1> DEFINE patch == SettingsPatch(m, settings)
           S == DOMAIN patch
           operation == [kind |-> "patch_repository", payload |-> patch]
<1>1. S \in SUBSET DOMAIN AskedSettings(m) /\ \A f \in S : patch[f] = AskedSettings(m)[f]
    BY PatchAsks
<1>2. patch = [f \in S |-> patch[f]]
    BY DEF SettingsPatch, Restrict
<1>3. patch = Restrict(AskedSettings(m), S)
    BY <1>1, <1>2 DEF Restrict
<1>4. operation \in Repairs(m)
    BY <1>1, <1>3 DEF Patches, Repairs
<1>5. SettingsChange(m) = IF S = {} THEN <<>> ELSE <<operation>>
    BY DEF SettingsChange
<1> HIDE DEF operation
<1> QED
    BY <1>4, <1>5, OneOrNone

LEMMA ToggleChangeRepairs ==
    ASSUME NEW m, NEW asked, NEW t,
           t \in DOMAIN asked => /\ t \in DOMAIN AskedToggles(m)
                                 /\ AskedToggles(m)[t] = asked[t]
                                 /\ t = "advanced_security" => Private
    PROVE  ToggleChange(asked, t) \in Seq(Repairs(m))
<1> DEFINE operation == [kind |-> "toggle", toggle |-> t, enabled |-> asked[t]]
<1>1. t \in DOMAIN asked => operation \in Repairs(m)
    BY DEF Repairs, Switches
<1>2. ToggleChange(asked, t) =
         IF t \in DOMAIN asked /\ toggles[t] # asked[t] THEN <<operation>> ELSE <<>>
    BY DEF ToggleChange
<1> HIDE DEF operation
<1> QED
    BY <1>1, <1>2, OneOrNone

\* Rulesets are updated under the ID of one of the same target.
LEMMA RulesetChangeRepairs ==
    ASSUME NEW m, NEW t \in RulesetTargets, NEW found, \A e \in found : e.id \in Slots(e.key[2])
    PROVE  RulesetChange(found, m, t) \in Seq(Repairs(m))
<1> DEFINE payload == Payload(m, t)
           current == {f \in found : f.key = Key(payload)}
           types == ManagedRuleTypes(m, t)
           Same(f) == Normalized(f.content, types) = Normalized(payload, types)
           outdated == CHOOSE f \in current : ~Same(f)
           create == [kind |-> "create_ruleset", payload |-> payload]
           update == [kind |-> "update_ruleset", id |-> outdated.id, payload |-> payload]
<1>1. create \in Repairs(m)
    BY DEF Repairs, Creations
<1>2. ASSUME \E f \in current : ~Same(f)
      PROVE  update \in Repairs(m)
    <2>1. outdated \in current
        BY <1>2
    <2>2. Key(payload)[2] = t
        BY PayloadParts DEF Key
    <2>3. outdated.id \in Slots(t)
        BY <2>1, <2>2
    <2> HIDE DEF outdated
    <2> QED
        BY <2>3 DEF Repairs, Updates
<1>3. RulesetChange(found, m, t) =
         IF current = {} THEN <<create>>
         ELSE IF \E f \in current : ~Same(f) THEN <<update>> ELSE <<>>
    BY DEF RulesetChange
<1> HIDE DEF current, create, update, Same
<1>4. CASE current = {}
    BY <1>1, <1>3, <1>4
<1>5. CASE current # {} /\ \E f \in current : ~Same(f)
    BY <1>2, <1>3, <1>5
<1>6. CASE current # {} /\ ~\E f \in current : ~Same(f)
    BY <1>3, <1>6
<1> QED
    BY <1>4, <1>5, <1>6

\* A step that adds repairs to the plan of r and writes nothing.
LEMMA PlanningHonest ==
    ASSUME AllHonest, NEW r \in Runners, NEW m \in Manifests, m = manifest[r], pc[r] # "idle",
           NEW operations \in Seq(Repairs(m)), Planned(r, operations),
           NEW state, state # "idle", Goto(r, state) \/ UNCHANGED pc,
           UNCHANGED <<github, manifest, listed, managed, applied>>
    PROVE  AllHonest'
<1>1. SlotsStay /\ OnGitHub'
    BY DEF AllHonest, github, OnGitHub, SlotsStay, Slots
<1>2. OfRunners'
    BY DEF AllHonest, OfRunners, Planned, Goto
<1>3. ASSUME NEW q \in Runners \ {r}
      PROVE  Honest(q)'
    <2>1. pc'[q] = pc[q] /\ plan'[q] = plan[q]
        BY DEF AllHonest, OfRunners, Planned, Goto
    <2> QED
        BY <1>1, <2>1, HonestKept DEF AllHonest, Honest
<1>4. Honest(r)'
    <2>1. plan'[r] = plan[r] \o operations /\ pc'[r] # "idle"
        BY DEF AllHonest, OfRunners, Planned, Goto
    <2>2. plan[r] \in Seq(Repairs(m))
        BY DEF AllHonest, Honest
    <2>3. plan[r] \o operations \in Seq(Repairs(m))
        BY <2>2
    <2>4. plan[r] \o operations \in Seq(Repairs(m)')
        BY <1>1, <2>3, RepairsStay, SequenceOfMore
    <2>5. (plan[r] \in Seq(Repairs(manifest[r])))'
        BY <2>1, <2>4
    <2>6. (\A e \in listed[r] \cup managed[r] : e.id \in Slots(e.key[2]))'
        BY <1>1 DEF AllHonest, Honest, SlotsStay
    <2>7. manifest'[r] \in Manifests /\ applied'[r] \in Nat
        BY DEF AllHonest, Honest
    <2> QED
        BY <2>1, <2>5, <2>6, <2>7 DEF Honest
<1> QED
    BY <1>1, <1>2, <1>3, <1>4 DEF AllHonest

\* A step of r that leaves its plan and its lists alone, and GitHub or its slots.
LEMMA QuietHonest ==
    ASSUME AllHonest, OnGitHub', SlotsStay, NEW r,
           \/ UNCHANGED pc
           \/ \E state : Goto(r, state) /\ state # "idle"
                         /\ (state \in Ended \/ pc[r] \notin {"idle"} \cup Ended),
           \/ UNCHANGED applied
           \/ applied' = [applied EXCEPT ![r] = @ + 1],
           UNCHANGED <<manifest, plan, listed, managed>>
    PROVE  AllHonest'
<1>1. OfRunners'
    BY DEF AllHonest, OfRunners, Goto
<1>2. ASSUME NEW q \in Runners
      PROVE  Honest(q)'
    <2>1. applied'[q] \in Nat
        <3>1. applied[q] \in Nat /\ q \in DOMAIN applied
            BY DEF AllHonest, OfRunners, Honest
        <3>2. applied'[q] \in {applied[q], applied[q] + 1}
            BY <3>1
        <3> QED
            BY <3>1, <3>2
    <2>2. CASE pc'[q] = pc[q] \/ pc'[q] \in Ended
        BY <2>1, <2>2, HonestKept DEF AllHonest
    <2>3. CASE ~(pc'[q] = pc[q] \/ pc'[q] \in Ended)
        <3>1. q = r /\ pc'[r] # "idle" /\ pc[r] \notin {"idle"} \cup Ended
            BY <2>3 DEF AllHonest, OfRunners, Goto
        <3>2. PICK m : m = manifest[q]
            OBVIOUS
        <3>3. plan[q] \in Seq(Repairs(m)')
            BY <3>2, RepairsStay, SequenceOfMore DEF AllHonest, Honest
        <3>4. (plan[q] \in Seq(Repairs(manifest[q])))'
            BY <3>2, <3>3
        <3>5. (\A e \in listed[q] \cup managed[q] : e.id \in Slots(e.key[2]))'
            BY DEF AllHonest, Honest, SlotsStay
        <3>6. manifest[q] \in Manifests
            BY <3>1 DEF AllHonest, Honest
        <3> QED
            BY <2>1, <3>1, <3>4, <3>5, <3>6 DEF Honest
    <2> QED
        BY <2>2, <2>3
<1> QED
    BY <1>1, <1>2 DEF AllHonest

----------------------------------------------------------------------------
(* The steps                                                               *)

\* Reading GitHub leaves it as it is.
LEMMA ReadsStay ==
    ASSUME OnGitHub, UNCHANGED github
    PROVE  OnGitHub' /\ SlotsStay
BY DEF github, OnGitHub, SlotsStay, Slots

\* The next operation of a run is a repair of its manifest.
LEMMA OperationRepairs ==
    ASSUME AllHonest, NEW r \in Runners, Remaining(r)
    PROVE  \E m \in Manifests : m = manifest[r] /\ Operation(r) \in Repairs(m)
<1>1. manifest[r] \in Manifests /\ plan[r] \in Seq(Repairs(manifest[r]))
    BY DEF AllHonest, Honest, Remaining, Ended
<1>2. applied[r] + 1 \in 1..Len(plan[r])
    BY <1>1 DEF AllHonest, Honest, Remaining
<1> QED
    BY <1>1, <1>2 DEF Operation

LEMMA LoadHonest ==
    ASSUME AllHonest, NEW r \in Runners, LoadManifest(r)
    PROVE  AllHonest'
<1>1. OnGitHub' /\ SlotsStay
    BY ReadsStay DEF AllHonest, LoadManifest, github
<1>2. OfRunners'
    BY DEF AllHonest, OfRunners, LoadManifest, Goto
<1>3. ASSUME NEW q \in Runners \ {r}
      PROVE  Honest(q)'
    <2>1. /\ pc'[q] = pc[q] /\ manifest'[q] = manifest[q]
          /\ UNCHANGED <<plan, listed, managed, applied>>
        BY DEF AllHonest, OfRunners, LoadManifest, Goto
    <2> QED
        BY <1>1, <2>1, HonestKept DEF AllHonest, Honest
<1>4. Honest(r)'
    <2>1. /\ manifest'[r] \in Manifests /\ pc'[r] # "idle"
          /\ plan'[r] = <<>>
          /\ UNCHANGED <<listed, managed, applied>>
        BY DEF AllHonest, OfRunners, Honest, LoadManifest, Goto
    <2>2. (\A e \in listed[r] \cup managed[r] : e.id \in Slots(e.key[2]))'
        BY <1>1, <2>1 DEF AllHonest, Honest, SlotsStay
    <2> QED
        BY <2>1, <2>2 DEF AllHonest, Honest
<1> QED
    BY <1>1, <1>2, <1>3, <1>4 DEF AllHonest

\* New entries of the lists of r, each under the key of a ruleset it names.
LEMMA ListingHonest ==
    ASSUME AllHonest, NEW r \in Runners, UNCHANGED github, pc[r] \notin {"idle"} \cup Ended,
           NEW state, state # "idle", Goto(r, state) \/ UNCHANGED pc,
           UNCHANGED <<manifest, plan, applied>>,
           DOMAIN listed' = Runners, DOMAIN managed' = Runners,
           \A q \in Runners \ {r} : listed'[q] = listed[q] /\ managed'[q] = managed[q],
           \A e \in listed'[r] \cup managed'[r] : e.id \in Slots(e.key[2])
    PROVE  AllHonest'
<1>1. OnGitHub' /\ SlotsStay
    BY ReadsStay DEF AllHonest
<1>2. OfRunners'
    BY DEF AllHonest, OfRunners, Goto
<1>3. ASSUME NEW q \in Runners \ {r}
      PROVE  Honest(q)'
    <2>1. pc'[q] = pc[q]
        BY DEF AllHonest, OfRunners, Goto
    <2> QED
        BY <1>1, <2>1, HonestKept DEF AllHonest, Honest
<1>4. Honest(r)'
    <2>1. PICK m \in Manifests : m = manifest[r]
        BY DEF AllHonest, Honest
    <2>2. plan[r] \in Seq(Repairs(m)')
        BY <1>1, <2>1, RepairsStay, SequenceOfMore DEF AllHonest, Honest
    <2>3. (plan[r] \in Seq(Repairs(manifest[r])))'
        BY <2>1, <2>2
    <2>4. (\A e \in listed[r] \cup managed[r] : e.id \in Slots(e.key[2]))'
        BY <1>1 DEF SlotsStay
    <2>5. pc'[r] # "idle" /\ applied'[r] \in Nat
        BY DEF AllHonest, OfRunners, Honest, Goto
    <2> QED
        BY <2>1, <2>3, <2>4, <2>5 DEF Honest
<1> QED
    BY <1>1, <1>2, <1>3, <1>4 DEF AllHonest

LEMMA RunHonest ==
    ASSUME AllHonest, NEW r \in Runners, Run(r) \/ CallFails(r) \/ AnswerLost(r)
    PROVE  AllHonest'
<1> USE DEF AllHonest
<1>1. UNCHANGED github => OnGitHub' /\ SlotsStay
    BY ReadsStay
<1>2. CASE LoadManifest(r)
    BY <1>2, LoadHonest
<1>3. CASE \/ ResolveToken(r) \/ BuildRulesets(r) \/ ApplyRefused(r) \/ Report(r) \/ CallFails(r)
    <2>1. UNCHANGED <<github, manifest, plan, listed, managed, applied>>
        BY <1>3 DEF ResolveToken, BuildRulesets, ApplyRefused, Report, CallFails, runner
    <2>2. \E state : Goto(r, state) /\ state # "idle"
                     /\ (state \in Ended \/ pc[r] \notin {"idle"} \cup Ended)
        BY <1>3 DEF ResolveToken, BuildRulesets, ApplyRefused, Report, CallFails, Remaining, Ended
    <2> QED
        BY <1>1, <2>1, <2>2, QuietHonest
<1>4. CASE GetRepository(r)
    <2>1. PICK m \in Manifests : m = manifest[r]
        BY <1>4 DEF GetRepository, Honest, Ended
    <2> DEFINE operations ==
            SettingsChange(m) \o ToggleChange(AdvancedSecurity(m, Private), "advanced_security")
    <2>2. /\ pc[r] = "authenticated" /\ Planned(r, operations)
          /\ Goto(r, IF Contradictory(m) THEN "failed" ELSE "toggles")
          /\ UNCHANGED <<github, manifest, listed, managed, applied>>
        BY <1>4, <2>1 DEF GetRepository
    <2>3. ToggleChange(AdvancedSecurity(m, Private), "advanced_security") \in Seq(Repairs(m))
        BY TogglesAsked, ToggleChangeRepairs
    <2>4. operations \in Seq(Repairs(m))
        BY <2>3, SettingsChangeRepairs
    <2> HIDE DEF operations
    <2> QED
        BY <2>1, <2>2, <2>4, PlanningHonest
<1>5. CASE GetToggleState(r)
    <2>1. PICK m \in Manifests : m = manifest[r]
        BY <1>5 DEF GetToggleState, Honest, Ended
    <2>2. /\ pc[r] = "toggles"
          /\ UNCHANGED <<github, manifest, listed, managed, applied>>
        BY <1>5 DEF GetToggleState
    <2>3. PICK t \in unread[r] :
             \/ Planned(r, ToggleChange(DesiredToggles(m), t)) /\ UNCHANGED pc
             \/ Goto(r, "failed") /\ UNCHANGED plan
        BY <1>5, <2>1 DEF GetToggleState
    <2>4. ToggleChange(DesiredToggles(m), t) \in Seq(Repairs(m))
        BY TogglesAsked, ToggleChangeRepairs
    <2>5. CASE Planned(r, ToggleChange(DesiredToggles(m), t)) /\ UNCHANGED pc
        BY <2>1, <2>2, <2>4, <2>5, PlanningHonest
    <2>6. CASE Goto(r, "failed") /\ UNCHANGED plan
        BY <1>1, <2>2, <2>6, QuietHonest DEF Ended
    <2> QED
        BY <2>2, <2>3, <2>5, <2>6
<1>6. CASE ListRulesets(r)
    <2>1. /\ pc[r] = "listing"
          /\ listed' = [listed EXCEPT ![r] = Matching(manifest[r])]
          /\ Goto(r, IF Ambiguous(Matching(manifest[r])) THEN "failed" ELSE "rulesets")
          /\ UNCHANGED <<github, manifest, managed, plan, applied>>
        BY <1>6 DEF ListRulesets
    <2>2. \A e \in Matching(manifest[r]) : e.id \in Slots(e.key[2])
        <3>1. ASSUME NEW e \in Matching(manifest[r])
              PROVE  e.id \in Slots(e.key[2])
            <4>1. PICK n \in FirstPage : e = [id |-> n, key |-> Key(rulesets[n])]
                BY DEF Matching
            <4>2. n \in DOMAIN rulesets /\ n \in 1..(nextId - 1)
                BY DEF FirstPage, OnGitHub
            <4>3. e.id = n /\ e.key[2] = rulesets[n].target
                BY <4>1 DEF Key
            <4> QED
                BY <4>2, <4>3 DEF Slots
        <3> QED
            BY <3>1
    <2>3. /\ DOMAIN listed' = Runners /\ DOMAIN managed' = Runners
          /\ listed'[r] = Matching(manifest[r]) /\ managed'[r] = managed[r]
          /\ \A q \in Runners \ {r} : listed'[q] = listed[q] /\ managed'[q] = managed[q]
        BY <2>1 DEF OfRunners
    <2>4. \A e \in listed'[r] \cup managed'[r] : e.id \in Slots(e.key[2])
        BY <2>2, <2>3 DEF Honest
    <2>5. PICK state : state # "idle" /\ Goto(r, state)
        BY <2>1
    <2> QED
        BY <2>1, <2>3, <2>4, <2>5, ListingHonest DEF Ended
<1>7. CASE GetRuleset(r)
    <2>1. PICK e \in listed[r] :
             \/ /\ managed' = [managed EXCEPT ![r] =
                      @ \cup {[id |-> e.id, key |-> e.key, content |-> rulesets[e.id]]}]
                /\ listed' = [listed EXCEPT ![r] = @ \ {e}]
                /\ UNCHANGED pc
             \/ Goto(r, "failed") /\ UNCHANGED <<managed, listed>>
        BY <1>7 DEF GetRuleset
    <2>2. pc[r] = "rulesets" /\ UNCHANGED <<github, manifest, plan, applied>>
        BY <1>7 DEF GetRuleset
    <2>3. CASE Goto(r, "failed") /\ UNCHANGED <<managed, listed>>
        BY <1>1, <2>2, <2>3, QuietHonest DEF Ended
    <2>4. CASE /\ managed' = [managed EXCEPT ![r] =
                      @ \cup {[id |-> e.id, key |-> e.key, content |-> rulesets[e.id]]}]
               /\ listed' = [listed EXCEPT ![r] = @ \ {e}]
               /\ UNCHANGED pc
        <3> DEFINE fetched == [id |-> e.id, key |-> e.key, content |-> rulesets[e.id]]
        <3>1. fetched.id \in Slots(fetched.key[2])
            BY DEF Honest
        <3>2. fetched.id = e.id /\ fetched.key = e.key
            OBVIOUS
        <3> HIDE DEF fetched
        <3>3. /\ DOMAIN listed' = Runners /\ DOMAIN managed' = Runners
              /\ listed'[r] \subseteq listed[r] /\ managed'[r] = managed[r] \cup {fetched}
              /\ \A q \in Runners \ {r} : listed'[q] = listed[q] /\ managed'[q] = managed[q]
            BY <2>4 DEF OfRunners, fetched
        <3>4. \A d \in listed'[r] \cup managed'[r] : d.id \in Slots(d.key[2])
            BY <3>1, <3>3 DEF Honest
        <3> QED
            BY <2>2, <2>4, <3>3, <3>4, ListingHonest DEF Ended
    <2> QED
        BY <2>1, <2>3, <2>4
<1>8. CASE PlanRulesets(r)
    <2>1. PICK m \in Manifests : m = manifest[r]
        BY <1>8 DEF PlanRulesets, Honest, Ended
    <2> DEFINE operations ==
            RulesetChange(managed[r], m, "branch") \o RulesetChange(managed[r], m, "tag")
    <2>2. /\ pc[r] = "rulesets" /\ Planned(r, operations) /\ Goto(r, "planned")
          /\ UNCHANGED <<github, manifest, listed, managed, applied>>
        BY <1>8, <2>1 DEF PlanRulesets
    <2>3. PICK found : found = managed[r]
        OBVIOUS
    <2>4. \A e \in found : e.id \in Slots(e.key[2])
        BY <2>3 DEF Honest
    <2>5. "branch" \in RulesetTargets /\ "tag" \in RulesetTargets
        BY DEF RulesetTargets
    <2>6. /\ RulesetChange(found, m, "branch") \in Seq(Repairs(m))
          /\ RulesetChange(found, m, "tag") \in Seq(Repairs(m))
        BY <2>4, <2>5, RulesetChangeRepairs
    <2>7. operations \in Seq(Repairs(m))
        BY <2>3, <2>6
    <2> HIDE DEF operations
    <2> QED
        BY <2>1, <2>2, <2>7, PlanningHonest
<1>9. CASE ApplyChange(r) \/ AnswerLost(r)
    <2>1. /\ Remaining(r) /\ Perform(Operation(r))
          /\ UNCHANGED <<manifest, plan, listed, managed>>
        BY <1>9 DEF ApplyChange, AnswerLost, runner
    <2>2. PICK m \in Manifests : m = manifest[r] /\ Operation(r) \in Repairs(m)
        BY <2>1, OperationRepairs
    <2>3. PICK operation \in Repairs(m) : operation = Operation(r)
        BY <2>2
    <2>4. OnGitHub' /\ SlotsStay
        BY <2>1, <2>3, PerformRepairs
    <2>5. CASE ApplyChange(r)
        BY <2>1, <2>4, <2>5, QuietHonest DEF ApplyChange
    <2>6. CASE AnswerLost(r)
        BY <2>1, <2>4, <2>6, QuietHonest DEF AnswerLost, runner, Ended
    <2> QED
        BY <1>9, <2>5, <2>6
<1> QED
    BY <1>2, <1>3, <1>4, <1>5, <1>6, <1>7, <1>8, <1>9 DEF Run

LEMMA HonestInductive == AllHonest /\ [Next]_vars => AllHonest'
<1> SUFFICES ASSUME AllHonest, [Next]_vars
             PROVE  AllHonest'
    OBVIOUS
<1>1. ASSUME NEW r \in Runners, Run(r) \/ CallFails(r) \/ AnswerLost(r)
      PROVE  AllHonest'
    BY <1>1, RunHonest
<1>2. CASE Edit
    <2>1. OnGitHub' /\ SlotsStay
        BY <1>2, EditStays DEF AllHonest
    <2>2. UNCHANGED <<pc, manifest, plan, listed, managed, applied>>
        BY <1>2 DEF Edit, runner
    <2> QED
        BY <2>1, <2>2, QuietHonest
<1>3. CASE UNCHANGED vars
    <2>1. UNCHANGED <<github, pc, manifest, plan, listed, managed, applied>>
        BY <1>3 DEF vars, runner
    <2> QED
        BY <2>1, ReadsStay, QuietHonest DEF AllHonest
<1> QED
    BY <1>1, <1>2, <1>3 DEF Next, RunsEnded

LEMMA HonestInitially == Init => AllHonest
BY DEF Init, InitRuns, AllHonest, OnGitHub, OfRunners, Honest, Ended

\* Whatever others do between its reads and its writes, and whatever fails, a
\* write of a run never takes away a setting, a toggle or a ruleset that is as
\* its manifest asks.
THEOREM WritesOnlyRepair == Spec => OwnWritesOnlyRepair
<1>1. AllHonest /\ [Next]_vars =>
         [\A r \in Runners : Writes(r) => Drift(manifest[r])' \subseteq Drift(manifest[r])]_vars
    <2> SUFFICES ASSUME AllHonest, [Next]_vars, NEW r \in Runners, Writes(r)
                 PROVE  Drift(manifest[r])' \subseteq Drift(manifest[r])
        OBVIOUS
    <2>1. PICK q \in Runners : ApplyChange(q) \/ AnswerLost(q)
        BY DEF Next, Run, vars, runner, Writes, RunsEnded,
               LoadManifest, ResolveToken, GetRepository,
               GetToggleState, BuildRulesets, ListRulesets, GetRuleset, PlanRulesets,
               ApplyRefused, Report, CallFails, Edit
    <2>2. q = r
        BY <2>1 DEF AllHonest, OfRunners, Writes, ApplyChange, AnswerLost, Goto, runner
    <2>3. /\ Remaining(r) /\ Perform(Operation(r)) /\ UNCHANGED manifest
        BY <2>1, <2>2 DEF ApplyChange, AnswerLost, runner
    <2>4. PICK m \in Manifests : m = manifest[r] /\ Operation(r) \in Repairs(m)
        BY <2>3, OperationRepairs
    <2>5. PICK operation \in Repairs(m) : operation = Operation(r)
        BY <2>4
    <2>6. Drift(m)' \subseteq Drift(m)
        BY <2>3, <2>5, PerformRepairs DEF AllHonest
    <2>7. Drift(manifest[r]) = Drift(m) /\ Drift(manifest[r])' = Drift(m)'
        BY <2>3, <2>4 DEF Drift
    <2> QED
        BY <2>6, <2>7
<1> QED
    BY <1>1, HonestInitially, HonestInductive, PTL DEF Spec, OwnWritesOnlyRepair

----------------------------------------------------------------------------
(* Types                                                                   *)

\* What a manifest asks for are values GitHub takes.
LEMMA AskedTyped ==
    ASSUME NEW m \in Manifests
    PROVE  /\ \A f \in DOMAIN AskedSettings(m) : AskedSettings(m)[f] \in Values
           /\ \A t \in DOMAIN AskedToggles(m) : AskedToggles(m)[t] \in BOOLEAN
<1>1. \A f \in DOMAIN AskedSettings(m) : AskedSettings(m)[f] \in Values
    <2>1. /\ DOMAIN AskedSettings(m) = DOMAIN Repository(m) \cap Fields
          /\ \A f \in DOMAIN Repository(m) \cap Fields : AskedSettings(m)[f] = Repository(m)[f]
        BY KeepKeys DEF AskedSettings
    <2> QED
        BY <2>1, ConfiguratorAssumption
<1> DEFINE own == Keep(Repository(m), {"immutable_releases"})
           security == Keep(Security(m), SecurityToggles)
           alerts == IF AlertsAsked(m) = {} THEN NoTable
                     ELSE [vulnerability_alerts |-> CHOOSE asked \in AlertsAsked(m) : TRUE]
           advanced == Keep(Security(m), {"advanced_security"})
<1>2. \A key \in DOMAIN Security(m) : Security(m)[key] \in BOOLEAN
    BY ConfiguratorAssumption
<1>3. \A t \in DOMAIN own : own[t] \in BOOLEAN
    <2>1. /\ DOMAIN own = DOMAIN Repository(m) \cap {"immutable_releases"}
          /\ \A t \in DOMAIN own : own[t] = Repository(m)[t]
        BY KeepKeys
    <2>2. "immutable_releases" \in DOMAIN Repository(m) =>
              Repository(m)["immutable_releases"] \in BOOLEAN
        BY ConfiguratorAssumption DEF Get
    <2> HIDE DEF own
    <2> QED
        BY <2>1, <2>2
<1>4. \A t \in DOMAIN security : security[t] \in BOOLEAN
    <2>1. /\ DOMAIN security \subseteq DOMAIN Security(m)
          /\ \A t \in DOMAIN security : security[t] = Security(m)[t]
        BY KeepKeys
    <2> HIDE DEF security
    <2> QED
        BY <1>2, <2>1
<1>5. \A t \in DOMAIN advanced : advanced[t] \in BOOLEAN
    <2>1. /\ DOMAIN advanced \subseteq DOMAIN Security(m)
          /\ \A t \in DOMAIN advanced : advanced[t] = Security(m)[t]
        BY KeepKeys
    <2> HIDE DEF advanced
    <2> QED
        BY <1>2, <2>1
<1>6. \A t \in DOMAIN alerts : alerts[t] \in BOOLEAN
    <2>1. AlertsAsked(m) \subseteq BOOLEAN
        BY <1>2 DEF AlertsAsked
    <2>2. CASE AlertsAsked(m) = {}
        BY <2>2 DEF NoTable
    <2>3. CASE AlertsAsked(m) # {}
        <3>1. PICK asked : asked = CHOOSE a \in AlertsAsked(m) : TRUE
            OBVIOUS
        <3>2. asked \in BOOLEAN
            BY <2>1, <2>3, <3>1
        <3>3. alerts = [vulnerability_alerts |-> asked]
            BY <2>3, <3>1
        <3> HIDE DEF alerts
        <3> QED
            BY <3>2, <3>3
    <2> QED
        BY <2>2, <2>3
<1>7. AskedToggles(m) = Over(Over(own, Over(security, alerts)), advanced)
    BY DEF AskedToggles, DesiredToggles
<1> HIDE DEF own, security, alerts, advanced
<1>8. \A t \in DOMAIN Over(security, alerts) : Over(security, alerts)[t] \in BOOLEAN
    BY <1>4, <1>6 DEF Over
<1>9. PICK f : f = Over(security, alerts)
    OBVIOUS
<1>10. \A t \in DOMAIN Over(own, f) : Over(own, f)[t] \in BOOLEAN
    BY <1>3, <1>8, <1>9 DEF Over
<1>11. PICK g : g = Over(own, f)
    OBVIOUS
<1>12. \A t \in DOMAIN Over(g, advanced) : Over(g, advanced)[t] \in BOOLEAN
    BY <1>5, <1>10, <1>11 DEF Over
<1> QED
    BY <1>1, <1>7, <1>9, <1>11, <1>12

LEMMA RepairTyped ==
    ASSUME NEW m \in Manifests, TypeOK, OnGitHub, NEW operation \in Repairs(m), Perform(operation)
    PROVE  settings' \in [Fields -> Values] /\ toggles' \in [Toggles -> BOOLEAN]
<1>1. CASE operation \in Patches(m)
    <2>1. PICK S \in SUBSET DOMAIN AskedSettings(m) :
             operation = [kind |-> "patch_repository", payload |-> Restrict(AskedSettings(m), S)]
        BY <1>1 DEF Patches
    <2>2. /\ settings' = Over(Restrict(AskedSettings(m), S), settings)
          /\ UNCHANGED toggles
        BY <2>1 DEF Perform, PatchSettings
    <2>3. \A f \in S : f \in Fields /\ AskedSettings(m)[f] \in Values
        BY AskedTyped, PatchAsks
    <2>4. settings' = [f \in Fields |-> IF f \in S THEN AskedSettings(m)[f] ELSE settings[f]]
        BY <2>2, <2>3 DEF Over, Restrict, OnGitHub
    <2> QED
        BY <2>2, <2>3, <2>4 DEF TypeOK
<1>2. CASE operation \in Switches(m)
    <2>1. PICK t \in DOMAIN AskedToggles(m) :
             operation = [kind |-> "toggle", toggle |-> t, enabled |-> AskedToggles(m)[t]]
        BY <1>2 DEF Switches
    <2>2. PICK b \in BOOLEAN : b = AskedToggles(m)[t]
        BY AskedTyped
    <2>3. toggles' = [toggles EXCEPT ![t] = b] /\ UNCHANGED settings
        BY <2>1, <2>2 DEF Perform, SetToggle
    <2> QED
        BY <2>3 DEF TypeOK
<1>3. CASE operation \in Creations(m) \cup Updates(m)
    BY <1>3 DEF Creations, Updates, Perform, CreateRuleset, UpdateRuleset, TypeOK
<1> QED
    BY <1>1, <1>2, <1>3 DEF Repairs

LEMMA EditTyped ==
    ASSUME TypeOK, Edit
    PROVE  settings' \in [Fields -> Values] /\ toggles' \in [Toggles -> BOOLEAN]
<1>1. ASSUME NEW f \in Fields, NEW v \in Values, PatchSettings([field \in {f} |-> v])
      PROVE  settings' \in [Fields -> Values] /\ UNCHANGED toggles
    <2>1. settings' = Over([field \in {f} |-> v], settings) /\ UNCHANGED toggles
        BY <1>1 DEF PatchSettings
    <2>2. settings' = [g \in Fields |-> IF g = f THEN v ELSE settings[g]]
        BY <2>1 DEF Over, TypeOK
    <2> QED
        BY <2>1, <2>2 DEF TypeOK
<1>2. ASSUME NEW t \in Toggles, NEW b \in BOOLEAN, SetToggle(t, b)
      PROVE  toggles' \in [Toggles -> BOOLEAN] /\ UNCHANGED settings
    BY <1>2 DEF SetToggle, TypeOK
<1> QED
    BY <1>1, <1>2 DEF Edit, DeleteRuleset, UpdateRuleset, TypeOK

LEMMA StepTyped ==
    ASSUME TypeOK, AllHonest, NEW r \in Runners, Run(r) \/ CallFails(r) \/ AnswerLost(r)
    PROVE  /\ settings' \in [Fields -> Values] /\ toggles' \in [Toggles -> BOOLEAN]
           /\ UNCHANGED edits
           /\ manifest' \in [Runners -> Manifests \cup {NoTable}]
           /\ unread' \in [Runners -> SUBSET Toggles]
           /\ alone' \in [Runners -> BOOLEAN]
           /\ \E state \in {"loaded", "authenticated", "toggles", "listing",
                             "rulesets", "planned"} \cup Ended :
                 UNCHANGED pc \/ Goto(r, state)
           /\ \/ UNCHANGED <<plan, applied>>
              \/ UNCHANGED applied /\ \E s \in Seq(Repairs(manifest[r])) : Planned(r, s)
              \/ /\ UNCHANGED plan
                 /\ applied[r] < Len(plan[r])
                 /\ applied' = [applied EXCEPT ![r] = @ + 1]
<1>1. CASE LoadManifest(r)
    BY <1>1 DEF LoadManifest, TypeOK, Ended, github
<1>2. CASE ResolveToken(r) \/ ListRulesets(r) \/ GetRuleset(r)
           \/ ApplyRefused(r) \/ Report(r) \/ CallFails(r)
    BY <1>2 DEF ResolveToken, ListRulesets, GetRuleset, ApplyRefused, Report,
                CallFails, TypeOK, Ended, github, runner
<1>3. CASE BuildRulesets(r)
    BY <1>3 DEF BuildRulesets, TypeOK, Ended, github, runner
<1>4. CASE GetRepository(r)
    <2>1. PICK m \in Manifests : m = manifest[r]
        BY <1>4 DEF GetRepository, AllHonest, Honest, Ended
    <2>2. PICK s : s = SettingsChange(m)
                       \o ToggleChange(AdvancedSecurity(m, Private), "advanced_security")
        OBVIOUS
    <2>3. s \in Seq(Repairs(m))
        <3>1. ToggleChange(AdvancedSecurity(m, Private), "advanced_security") \in Seq(Repairs(m))
            BY TogglesAsked, ToggleChangeRepairs
        <3> QED
            BY <2>2, <3>1, SettingsChangeRepairs
    <2>4. Planned(r, s) /\ UNCHANGED <<github, edits, manifest, applied>>
        BY <1>4, <2>1, <2>2 DEF GetRepository
    <2>5. unread' \in [Runners -> SUBSET Toggles]
        <3>1. PICK desired : desired = DOMAIN DesiredToggles(m)
            OBVIOUS
        <3>2. desired \subseteq Toggles
            BY <3>1, TogglesAsked
        <3>3. unread' = [unread EXCEPT ![r] = desired]
            BY <1>4, <2>1, <3>1 DEF GetRepository
        <3> QED
            BY <3>2, <3>3 DEF TypeOK
    <2>6. alone' \in [Runners -> BOOLEAN]
        BY <1>4 DEF GetRepository, TypeOK
    <2>7. \E state \in {"failed", "toggles"} : Goto(r, state)
        BY <1>4 DEF GetRepository
    <2> QED
        BY <2>1, <2>3, <2>4, <2>5, <2>6, <2>7 DEF TypeOK, github, Ended
<1>5. CASE GetToggleState(r)
    <2>1. PICK m \in Manifests : m = manifest[r]
        BY <1>5 DEF GetToggleState, AllHonest, Honest, Ended
    <2>2. PICK t \in unread[r] :
             /\ unread' = [unread EXCEPT ![r] = @ \ {t}]
             /\ \/ Planned(r, ToggleChange(DesiredToggles(m), t)) /\ UNCHANGED pc
                \/ Goto(r, "failed") /\ UNCHANGED plan
        BY <1>5, <2>1 DEF GetToggleState
    <2>3. ToggleChange(DesiredToggles(m), t) \in Seq(Repairs(m))
        BY TogglesAsked, ToggleChangeRepairs
    <2>4. unread' \in [Runners -> SUBSET Toggles]
        BY <2>2 DEF TypeOK
    <2>5. UNCHANGED <<github, edits, manifest, applied, alone>>
        BY <1>5 DEF GetToggleState
    <2> QED
        BY <2>1, <2>2, <2>3, <2>4, <2>5 DEF TypeOK, github, Ended
<1>6. CASE PlanRulesets(r)
    <2>1. PICK m \in Manifests : m = manifest[r]
        BY <1>6 DEF PlanRulesets, AllHonest, Honest, Ended
    <2>2. PICK found : found = managed[r]
        OBVIOUS
    <2>3. PICK s : s = RulesetChange(found, m, "branch") \o RulesetChange(found, m, "tag")
        OBVIOUS
    <2>4. s \in Seq(Repairs(m))
        <3>1. \A e \in found : e.id \in Slots(e.key[2])
            BY <2>2 DEF AllHonest, Honest
        <3>2. "branch" \in RulesetTargets /\ "tag" \in RulesetTargets
            BY DEF RulesetTargets
        <3>3. /\ RulesetChange(found, m, "branch") \in Seq(Repairs(m))
              /\ RulesetChange(found, m, "tag") \in Seq(Repairs(m))
            BY <3>1, <3>2, RulesetChangeRepairs
        <3> QED
            BY <2>3, <3>3
    <2>5. Planned(r, s) /\ Goto(r, "planned")
          /\ UNCHANGED <<github, edits, manifest, applied, unread, alone>>
        BY <1>6, <2>1, <2>2, <2>3 DEF PlanRulesets
    <2> QED
        BY <2>1, <2>4, <2>5 DEF TypeOK, github
<1>7. CASE ApplyChange(r) \/ AnswerLost(r)
    <2>1. /\ Remaining(r) /\ Perform(Operation(r))
          /\ UNCHANGED <<edits, manifest, unread, plan>>
          /\ WrittenBy({r})
        BY <1>7 DEF ApplyChange, AnswerLost, runner
    <2>2. PICK m \in Manifests : m = manifest[r] /\ Operation(r) \in Repairs(m)
        BY <2>1, OperationRepairs
    <2>3. PICK operation \in Repairs(m) : operation = Operation(r)
        BY <2>2
    <2>4. settings' \in [Fields -> Values] /\ toggles' \in [Toggles -> BOOLEAN]
        BY <2>1, <2>3, RepairTyped DEF AllHonest
    <2>5. alone' \in [Runners -> BOOLEAN]
        BY <2>1 DEF WrittenBy, TypeOK
    <2>6. \/ UNCHANGED pc /\ applied' = [applied EXCEPT ![r] = @ + 1]
          \/ Goto(r, "failed") /\ UNCHANGED applied
        BY <1>7 DEF ApplyChange, AnswerLost, runner
    <2> QED
        BY <2>1, <2>4, <2>5, <2>6 DEF TypeOK, Remaining, Ended
<1> QED
    BY <1>1, <1>2, <1>3, <1>4, <1>5, <1>6, <1>7 DEF Run

LEMMA TypeInductive == TypeOK /\ AllHonest /\ [Next]_vars => TypeOK'
<1> SUFFICES ASSUME TypeOK, AllHonest, [Next]_vars
             PROVE  TypeOK'
    OBVIOUS
<1>1. OnGitHub'
    BY HonestInductive DEF AllHonest
<1>2. CASE Edit
    <2>1. UNCHANGED <<pc, manifest, unread, plan, applied>> /\ edits' \in 0..MaxEdits
        BY <1>2, ConfiguratorAssumption DEF Edit, runner, TypeOK
    <2>2. alone' \in [Runners -> BOOLEAN]
        BY <1>2 DEF Edit, WrittenBy, TypeOK
    <2> QED
        BY <1>1, <1>2, <2>1, <2>2, EditTyped DEF TypeOK, OnGitHub
<1>3. CASE UNCHANGED vars
    BY <1>3 DEF vars, github, runner, TypeOK
<1>4. ASSUME NEW r \in Runners, Run(r) \/ CallFails(r) \/ AnswerLost(r)
      PROVE  TypeOK'
    <2>1. pc' \in [Runners -> {"idle", "loaded", "authenticated", "toggles", "listing",
                              "rulesets", "planned"} \cup Ended]
        BY <1>4, StepTyped DEF Goto, TypeOK
    <2>2. ASSUME NEW q \in Runners
          PROVE  applied'[q] \in 0..Len(plan'[q])
        <3>1. /\ plan[q] \in Seq(Repairs(manifest[q])) /\ applied[q] \in 0..Len(plan[q])
              /\ DOMAIN plan = Runners /\ DOMAIN applied = Runners
            BY DEF AllHonest, OfRunners, Honest, TypeOK
        <3>2. CASE UNCHANGED <<plan, applied>>
            BY <3>1, <3>2
        <3>3. CASE UNCHANGED applied /\ \E s \in Seq(Repairs(manifest[r])) : Planned(r, s)
            <4>1. PICK s \in Seq(Repairs(manifest[r])) : plan' = [plan EXCEPT ![r] = @ \o s]
                BY <3>3 DEF Planned
            <4>2. CASE q = r
                <5>1. Len(plan'[q]) = Len(plan[q]) + Len(s) /\ Len(s) \in Nat
                    BY <3>1, <4>1, <4>2
                <5> QED
                    BY <3>1, <3>3, <5>1
            <4>3. CASE q # r
                BY <3>1, <3>3, <4>1, <4>3
            <4> QED
                BY <4>2, <4>3
        <3>4. CASE /\ UNCHANGED plan /\ applied[r] < Len(plan[r])
                   /\ applied' = [applied EXCEPT ![r] = @ + 1]
            <4>1. CASE q = r
                BY <3>1, <3>4, <4>1
            <4>2. CASE q # r
                BY <3>1, <3>4, <4>2
            <4> QED
                BY <4>1, <4>2
        <3> QED
            BY <1>4, <3>2, <3>3, <3>4, StepTyped
    <2> QED
        BY <1>1, <1>4, <2>1, <2>2, StepTyped DEF TypeOK, OnGitHub
<1> QED
    BY <1>2, <1>3, <1>4 DEF Next, RunsEnded

LEMMA TypedInitially == Init => TypeOK
BY ConfiguratorAssumption DEF Init, InitRuns, TypeOK, Ended

\* The variables have their types: settings only ever get values that somebody
\* set or a manifest asks for, IDs grow, and no run applies more than it planned.
THEOREM Typed == Spec => []TypeOK
<1>1. TypeOK /\ AllHonest /\ [Next]_vars => (TypeOK /\ AllHonest)'
    BY TypeInductive, HonestInductive
<1> QED
    BY <1>1, TypedInitially, HonestInitially, PTL DEF Spec

----------------------------------------------------------------------------
(* The comparison of rulesets                                              *)

LEMMA SameParameters ==
    ASSUME NEW rule, NEW asked
    PROVE  ([key \in DOMAIN asked |-> Get(rule, key, FALSE)] =
                [key \in DOMAIN asked |-> Get(asked, key, FALSE)])
               <=> HasParameters(rule, asked)
<1> DEFINE f == [key \in DOMAIN asked |-> Get(rule, key, FALSE)]
           g == [key \in DOMAIN asked |-> Get(asked, key, FALSE)]
<1>1. \A key \in DOMAIN asked : f[key] = Get(rule, key, FALSE) /\ g[key] = asked[key]
    BY DEF Get
<1>2. ASSUME f = g
      PROVE  HasParameters(rule, asked)
    <2> HIDE DEF f, g
    <2> QED
        BY <1>1, <1>2 DEF HasParameters
<1>3. ASSUME HasParameters(rule, asked)
      PROVE  f = g
    <2>1. \A key \in DOMAIN asked : Get(rule, key, FALSE) = Get(asked, key, FALSE)
        BY <1>3 DEF HasParameters, Get
    <2> QED
        BY <2>1
<1> QED
    BY <1>2, <1>3

\* Of two rules with all that GitHub answers with, one is as the other asks
\* exactly when they are normalized to the same.
LEMMA SamePullRequest ==
    ASSUME NEW table, NEW methods, NEW asked, asked = PullRequestParameters(table, methods),
           NEW rule,
           {"allowed_merge_methods", "required_approving_review_count"} \subseteq DOMAIN rule
    PROVE  NormalizedRule("pull_request", rule) = NormalizedRule("pull_request", asked)
               <=> HasParameters(rule, asked)
<1> DEFINE keys == {"allowed_merge_methods", "required_approving_review_count"}
                       \cup PullRequestFlags
<1>1. DOMAIN asked = keys
    BY PullRequestKeys
<1>2. ASSUME NEW p,
             {"allowed_merge_methods", "required_approving_review_count"} \subseteq DOMAIN p
      PROVE  NormalizedRule("pull_request", p) = [key \in keys |-> Get(p, key, FALSE)]
    <2>1. PICK given, n : /\ given = Get(p, "allowed_merge_methods", {})
                         /\ n = PullRequestParameters(p, given)
        OBVIOUS
    <2>2. /\ DOMAIN n = keys
          /\ n["allowed_merge_methods"] = p["allowed_merge_methods"]
          /\ n["required_approving_review_count"] = p["required_approving_review_count"]
          /\ \A flag \in PullRequestFlags : n[flag] = Get(p, flag, FALSE)
        <3>1. /\ DOMAIN n = keys
              /\ n["allowed_merge_methods"] = given
              /\ n["required_approving_review_count"] =
                    Get(p, "required_approving_review_count", 0)
              /\ \A flag \in PullRequestFlags : n[flag] = Get(p, flag, FALSE)
            BY <2>1 DEF PullRequestParameters, Over, Flags, PullRequestFlags
        <3> QED
            BY <1>2, <2>1, <3>1 DEF Get
    <2>3. n = [key \in DOMAIN n |-> n[key]]
        BY <2>1 DEF PullRequestParameters, Over
    <2>4. \A key \in keys : n[key] = Get(p, key, FALSE)
        BY <1>2, <2>2 DEF Get
    <2>5. NormalizedRule("pull_request", p) = n
        BY <2>1 DEF NormalizedRule
    <2> QED
        BY <2>2, <2>3, <2>4, <2>5
<1>3. /\ NormalizedRule("pull_request", rule) = [key \in keys |-> Get(rule, key, FALSE)]
      /\ NormalizedRule("pull_request", asked) = [key \in keys |-> Get(asked, key, FALSE)]
    BY <1>1, <1>2
<1> HIDE DEF keys
<1> QED
    BY <1>1, <1>3, SameParameters

LEMMA SameStatusChecks ==
    ASSUME NEW table, NEW checks, NEW asked, asked = StatusCheckParameters(table, checks),
           NEW rule, "required_status_checks" \in DOMAIN rule,
           \A check \in rule["required_status_checks"] : NormalizedCheck(check) = check
    PROVE  NormalizedRule("required_status_checks", rule) =
               NormalizedRule("required_status_checks", asked)
                   <=> HasParameters(rule, asked)
<1> DEFINE keys == {"required_status_checks"} \cup StatusCheckFlags
<1>1. DOMAIN asked = keys
      /\ asked["required_status_checks"] = {NormalizedCheck(check) : check \in checks}
    BY StatusCheckKeys
<1>2. \A check \in asked["required_status_checks"] : NormalizedCheck(check) = check
    BY <1>1, NormalizedOnce
<1>3. ASSUME NEW p, "required_status_checks" \in DOMAIN p,
             \A check \in p["required_status_checks"] : NormalizedCheck(check) = check
      PROVE  NormalizedRule("required_status_checks", p) = [key \in keys |-> Get(p, key, FALSE)]
    <2>1. PICK given, n : /\ given = Get(p, "required_status_checks", {})
                         /\ n = StatusCheckParameters(p, given)
        OBVIOUS
    <2>2. /\ DOMAIN n = keys
          /\ n["required_status_checks"] =
                {NormalizedCheck(check) : check \in p["required_status_checks"]}
          /\ \A flag \in StatusCheckFlags : n[flag] = Get(p, flag, FALSE)
        <3>1. /\ DOMAIN n = keys
              /\ n["required_status_checks"] = {NormalizedCheck(check) : check \in given}
              /\ \A flag \in StatusCheckFlags : n[flag] = Get(p, flag, FALSE)
            BY <2>1, StatusCheckKeys
        <3>2. given = p["required_status_checks"]
            BY <1>3, <2>1 DEF Get
        <3> QED
            BY <3>1, <3>2
    <2>3. n = [key \in DOMAIN n |-> n[key]]
        BY <2>1 DEF StatusCheckParameters, Over
    <2>4. n["required_status_checks"] = p["required_status_checks"]
        BY <1>3, <2>2
    <2>5. \A key \in keys : n[key] = Get(p, key, FALSE)
        BY <1>3, <2>2, <2>4 DEF Get
    <2>6. NormalizedRule("required_status_checks", p) = n
        BY <2>1 DEF NormalizedRule
    <2> QED
        BY <2>2, <2>3, <2>5, <2>6
<1>4. /\ NormalizedRule("required_status_checks", rule) = [key \in keys |-> Get(rule, key, FALSE)]
      /\ NormalizedRule("required_status_checks", asked) = [key \in keys |-> Get(asked, key, FALSE)]
    BY <1>1, <1>2, <1>3
<1> HIDE DEF keys
<1> QED
    BY <1>1, <1>4, SameParameters

LEMMA SameUpdate ==
    ASSUME NEW table, NEW asked, asked = UpdateParameters(table), NEW rule
    PROVE  NormalizedRule("update", rule) = NormalizedRule("update", asked)
               <=> HasParameters(rule, asked)
<1> DEFINE key == "update_allows_fetch_and_merge"
<1>1. \A p : NormalizedRule("update", p) = [k \in {key} |-> Get(p, k, FALSE)]
    BY DEF NormalizedRule, UpdateParameters, Flags
<1>2. DOMAIN asked = {key}
    BY DEF UpdateParameters, Flags
<1> HIDE DEF key
<1> QED
    BY <1>1, <1>2, SameParameters

\* GitHub's answers and payloads, rule by rule.
LEMMA SameRule ==
    ASSUME NEW m, NEW t, NEW ruleset, Complete(ruleset),
           NEW type \in RuleTypesAsked(m, t), type \in DOMAIN ruleset.rules
    PROVE  NormalizedRule(type, ruleset.rules[type]) = NormalizedRule(type, Rules(m, t)[type])
               <=> HasParameters(ruleset.rules[type], Rules(m, t)[type])
<1> PICK rule, asked : rule = ruleset.rules[type] /\ asked = Rules(m, t)[type]
    OBVIOUS
<1>1. CASE type = "update"
    <2>1. asked = UpdateParameters(RulesetTable(m, t))
        BY <1>1, RulesAsked
    <2> QED
        BY <1>1, <2>1, SameUpdate
<1>2. CASE type = "pull_request"
    <2>1. asked = PullRequestParameters(PullRequestTable(m), AllowedMergeMethods(m))
        BY <1>2, RulesAsked
    <2>2. {"allowed_merge_methods", "required_approving_review_count"} \subseteq DOMAIN rule
        BY <1>2 DEF Complete
    <2> QED
        BY <1>2, <2>1, <2>2, SamePullRequest
<1>3. CASE type = "required_status_checks"
    <2>1. asked = StatusCheckParameters(StatusChecksTable(m, t), Contexts(m, t))
        BY <1>3, RulesAsked
    <2>2. /\ "required_status_checks" \in DOMAIN rule
          /\ \A check \in rule["required_status_checks"] : NormalizedCheck(check) = check
        BY <1>3 DEF Complete
    <2> QED
        BY <1>3, <2>1, <2>2, SameStatusChecks
<1>4. CASE type \notin {"update", "pull_request", "required_status_checks"}
    <2>1. asked = NoTable
        BY <1>4, RulesAsked
    <2>2. NormalizedRule(type, rule) = NormalizedRule(type, asked)
        BY <1>4 DEF NormalizedRule
    <2> QED
        BY <2>1, <2>2 DEF HasParameters, NoTable
<1> QED
    BY <1>1, <1>2, <1>3, <1>4

\* The rule types that are compared and not asked for are those that a ruleset
\* as asked does not have.
LEMMA ComparedTypes ==
    ASSUME NEW m, NEW t \in RulesetTargets
    PROVE  /\ RuleTypesAsked(m, t) \subseteq ManagedRuleTypes(m, t)
           /\ \A type : type \notin RuleTypesAsked(m, t) =>
                 (type \notin ManagedRuleTypes(m, t) <=>
                     /\ type \notin DOMAIN RuleFlag
                     /\ type = "pull_request" => t # "branch"
                     /\ type = "required_status_checks" => ChecksEnabled(m, t))
<1>1. "pull_request" \notin DOMAIN RuleFlag /\ "required_status_checks" \notin DOMAIN RuleFlag
    BY DEF RuleFlag
<1>2. "pull_request" \in RuleTypesAsked(m, t) => t = "branch"
    BY <1>1 DEF RuleTypesAsked, AsksForReviews
<1>3. "required_status_checks" \in RuleTypesAsked(m, t) <=>
          ChecksEnabled(m, t) /\ Contexts(m, t) # {}
    BY <1>1 DEF RuleTypesAsked
<1>4. "required_status_checks" \in ManagedRuleTypes(m, t) <=>
          ~(ChecksEnabled(m, t) /\ Contexts(m, t) = {})
    BY <1>1 DEF ManagedRuleTypes, ChecksLeftToFollowUp
<1>5. "pull_request" \in ManagedRuleTypes(m, t) <=> t = "branch"
    BY <1>1 DEF ManagedRuleTypes
<1>6. \A type : type \notin {"pull_request", "required_status_checks"} =>
          (type \in ManagedRuleTypes(m, t) <=> type \in DOMAIN RuleFlag)
    BY DEF ManagedRuleTypes
<1>7. RuleTypesAsked(m, t) \subseteq
          DOMAIN RuleFlag \cup {"pull_request", "required_status_checks"}
    BY RulesAsked
<1>8. DOMAIN RuleFlag \subseteq ManagedRuleTypes(m, t)
    BY DEF ManagedRuleTypes
<1> QED
    BY <1>1, <1>2, <1>3, <1>4, <1>5, <1>6, <1>7, <1>8

\* The comparison of plan_ruleset_changes finds a difference exactly in what is
\* not as the manifest asks, whatever GitHub adds to its answers.
LEMMA ComparedIsAsked ==
    ASSUME NEW m, NEW t \in RulesetTargets, NEW ruleset, Complete(ruleset)
    PROVE  Normalized(ruleset, ManagedRuleTypes(m, t)) =
               Normalized(Payload(m, t), ManagedRuleTypes(m, t))
                   <=> AsAsked(ruleset, m, t)
<1> DEFINE types == ManagedRuleTypes(m, t)
           left == Normalized(ruleset, types)
           right == Normalized(Payload(m, t), types)
           compared == [type \in DOMAIN ruleset.rules \cap types |->
                           NormalizedRule(type, ruleset.rules[type])]
           wanted == [type \in RuleTypesAsked(m, t) |-> NormalizedRule(type, Rules(m, t)[type])]
<1>1. /\ DOMAIN ruleset = RulesetParts /\ DOMAIN Payload(m, t) = RulesetParts
      /\ Payload(m, t).rules = Rules(m, t) /\ DOMAIN Rules(m, t) = RuleTypesAsked(m, t)
    BY PayloadParts, RulesAsked DEF Complete
<1>2. RuleTypesAsked(m, t) \subseteq types
    BY ComparedTypes
<1>3. /\ left = [ruleset EXCEPT !.rules = compared]
      /\ right = [Payload(m, t) EXCEPT !.rules = wanted]
    <2>1. RuleTypesAsked(m, t) \cap types = RuleTypesAsked(m, t)
        BY <1>2
    <2> QED
        BY <1>1, <2>1 DEF Normalized
<1>4. left = right <=> /\ \A part \in RulesetParts \ {"rules"} : ruleset[part] = Payload(m, t)[part]
                       /\ compared = wanted
    <2>1. PICK payload, f, g : payload = Payload(m, t) /\ f = compared /\ g = wanted
        OBVIOUS
    <2>2. DOMAIN payload = RulesetParts
        BY <1>1, <2>1
    <2>3. left = [ruleset EXCEPT !.rules = f] /\ right = [payload EXCEPT !.rules = g]
        BY <1>3, <2>1
    <2> HIDE DEF left, right, compared, wanted
    <2>4. /\ DOMAIN left = RulesetParts /\ left["rules"] = f
          /\ \A part \in RulesetParts \ {"rules"} : left[part] = ruleset[part]
        BY <1>1, <2>3 DEF RulesetParts
    <2>5. /\ DOMAIN right = RulesetParts /\ right["rules"] = g
          /\ \A part \in RulesetParts \ {"rules"} : right[part] = payload[part]
        BY <2>2, <2>3 DEF RulesetParts
    <2>6. /\ left = [part \in RulesetParts |-> left[part]]
          /\ right = [part \in RulesetParts |-> right[part]]
        BY <1>1, <2>2, <2>3
    <2>7. "rules" \in RulesetParts
        BY DEF RulesetParts
    <2> QED
        BY <2>1, <2>4, <2>5, <2>6, <2>7
<1>5. compared = wanted <=>
          /\ DOMAIN ruleset.rules \cap types = RuleTypesAsked(m, t)
          /\ \A type \in RuleTypesAsked(m, t) :
                type \in DOMAIN ruleset.rules /\
                HasParameters(ruleset.rules[type], Rules(m, t)[type])
    <2>1. ASSUME compared = wanted
          PROVE  /\ DOMAIN ruleset.rules \cap types = RuleTypesAsked(m, t)
                 /\ \A type \in RuleTypesAsked(m, t) :
                       NormalizedRule(type, ruleset.rules[type]) =
                           NormalizedRule(type, Rules(m, t)[type])
        <3>1. DOMAIN compared = DOMAIN wanted
            BY <2>1
        <3>2. DOMAIN ruleset.rules \cap types = RuleTypesAsked(m, t)
            BY <3>1
        <3>3. \A type \in RuleTypesAsked(m, t) : compared[type] = wanted[type]
            BY <2>1
        <3> QED
            BY <3>2, <3>3
    <2>2. ASSUME DOMAIN ruleset.rules \cap types = RuleTypesAsked(m, t),
                 \A type \in RuleTypesAsked(m, t) :
                       NormalizedRule(type, ruleset.rules[type]) =
                           NormalizedRule(type, Rules(m, t)[type])
          PROVE  compared = wanted
        BY <2>2
    <2> HIDE DEF compared, wanted
    <2> QED
        BY <2>1, <2>2, SameRule
<1>6. AsAsked(ruleset, m, t) <=>
          /\ \A part \in RulesetParts \ {"rules"} : ruleset[part] = Payload(m, t)[part]
          /\ \A type \in RuleTypesAsked(m, t) :
                type \in DOMAIN ruleset.rules /\
                HasParameters(ruleset.rules[type], Rules(m, t)[type])
          /\ \A type \in DOMAIN ruleset.rules \ RuleTypesAsked(m, t) : type \notin types
    <2>1. PICK payload : payload = Payload(m, t)
        OBVIOUS
    <2>2. /\ DOMAIN payload = RulesetParts /\ payload.rules = Rules(m, t)
          /\ DOMAIN payload.rules = RuleTypesAsked(m, t)
        BY <1>1, <2>1
    <2>3. \A type \in DOMAIN ruleset.rules \ RuleTypesAsked(m, t) :
              type \notin types <=> /\ type \notin DOMAIN RuleFlag
                                    /\ type = "pull_request" => t # "branch"
                                    /\ type = "required_status_checks" => ChecksEnabled(m, t)
        BY ComparedTypes
    <2> HIDE DEF types
    <2> QED
        BY <2>1, <2>2, <2>3 DEF AsAsked
<1>7. DOMAIN ruleset.rules \cap types = RuleTypesAsked(m, t) <=>
          /\ RuleTypesAsked(m, t) \subseteq DOMAIN ruleset.rules
          /\ \A type \in DOMAIN ruleset.rules \ RuleTypesAsked(m, t) : type \notin types
    BY <1>2
<1> HIDE DEF types, left, right, compared, wanted
<1>8. left = right <=> AsAsked(ruleset, m, t)
    BY <1>4, <1>5, <1>6, <1>7
<1> QED
    BY <1>8 DEF types, left, right

----------------------------------------------------------------------------
(* What an operation does                                                  *)

LEMMA RepairKinds ==
    ASSUME NEW m, NEW operation \in Repairs(m)
    PROVE  \/ /\ operation.kind = "patch_repository"
              /\ \E S \in SUBSET DOMAIN AskedSettings(m) :
                    operation.payload = Restrict(AskedSettings(m), S)
           \/ /\ operation.kind = "toggle"
              /\ operation.toggle \in DOMAIN AskedToggles(m)
              /\ operation.enabled = AskedToggles(m)[operation.toggle]
              /\ operation.toggle = "advanced_security" => Private
           \/ /\ operation.kind = "create_ruleset"
              /\ \E t \in RulesetTargets : operation.payload = Payload(m, t)
           \/ /\ operation.kind = "update_ruleset"
              /\ \E t \in RulesetTargets :
                    operation.payload = Payload(m, t) /\ operation.id \in Slots(t)
<1>1. CASE operation \in Patches(m)
    BY <1>1 DEF Patches
<1>2. CASE operation \in Switches(m)
    BY <1>2 DEF Switches
<1>3. CASE operation \in Creations(m)
    BY <1>3 DEF Creations
<1>4. CASE operation \in Updates(m)
    BY <1>4 DEF Updates
<1> QED
    BY <1>1, <1>2, <1>3, <1>4 DEF Repairs

\* What GitHub keeps of a payload is known by its key.
LEMMA StoredKey ==
    ASSUME NEW m, NEW t
    PROVE  Key(Stored(Payload(m, t))) = Key(Payload(m, t)) /\ Key(Payload(m, t))[2] = t
BY PayloadParts, StoredParts DEF Key, RulesetParts

\* The rulesets after an operation: those that are there stay, under the same key
\* if an update goes to one of its own key, and there may be a new one.
LEMMA RulesetsAfter ==
    ASSUME NEW m \in Manifests, OnGitHub, NEW operation \in Repairs(m), Perform(operation)
    PROVE  /\ DOMAIN rulesets \subseteq DOMAIN rulesets'
           /\ \A n \in DOMAIN rulesets :
                 \/ rulesets'[n] = rulesets[n]
                 \/ /\ operation.kind = "update_ruleset" /\ operation.id = n
                    /\ Key(rulesets'[n]) = Key(operation.payload)
           /\ \A n \in DOMAIN rulesets' \ DOMAIN rulesets :
                 /\ operation.kind = "create_ruleset" /\ n = nextId
                 /\ Key(rulesets'[n]) = Key(operation.payload)
           /\ OfRulesets(operation) => operation.payload.target = Key(operation.payload)[2]
           /\ OfRulesets(operation) => Key(operation.payload) \in ManagedKeys(m)
<1>1. CASE operation.kind \in {"patch_repository", "toggle"}
    BY <1>1 DEF Perform, PatchSettings, SetToggle, OfRulesets
<1>2. CASE operation.kind = "create_ruleset"
    <2>1. PICK t \in RulesetTargets : operation.payload = Payload(m, t)
        BY <1>2, RepairKinds
    <2>2. rulesets' = Over([n \in {nextId} |-> Stored(operation.payload)], rulesets)
        BY <1>2 DEF Perform, CreateRuleset
    <2>3. nextId \notin DOMAIN rulesets
        BY DEF OnGitHub
    <2>4. /\ DOMAIN rulesets' = {nextId} \cup DOMAIN rulesets
          /\ rulesets'[nextId] = Stored(operation.payload)
          /\ \A n \in DOMAIN rulesets : rulesets'[n] = rulesets[n]
        BY <2>2, <2>3 DEF Over
    <2> QED
        BY <1>2, <2>1, <2>4, StoredKey, PayloadParts DEF ManagedKeys
<1>3. CASE operation.kind = "update_ruleset"
    <2>1. PICK t \in RulesetTargets : operation.payload = Payload(m, t)
        BY <1>3, RepairKinds
    <2>2. rulesets' = [rulesets EXCEPT ![operation.id] = Stored(operation.payload)]
        BY <1>3 DEF Perform, UpdateRuleset
    <2>3. /\ DOMAIN rulesets' = DOMAIN rulesets
          /\ \A n \in DOMAIN rulesets : \/ n # operation.id /\ rulesets'[n] = rulesets[n]
                                        \/ n = operation.id /\ rulesets'[n] = Stored(operation.payload)
        BY <2>2
    <2> QED
        BY <1>3, <2>1, <2>3, StoredKey, PayloadParts DEF ManagedKeys
<1> QED
    BY <1>1, <1>2, <1>3, RepairKinds

\* What an operation fixes is as the manifest asks afterwards.
LEMMA FixedIsDone ==
    ASSUME NEW m \in Manifests, OnGitHub, NEW operation \in Repairs(m), Perform(operation),
           NEW part, Fixes(operation, part)
    PROVE  part \notin Drift(m)'
<1>1. CASE operation.kind = "patch_repository"
    <2>1. PICK S \in SUBSET DOMAIN AskedSettings(m) :
             operation.payload = Restrict(AskedSettings(m), S)
        BY <1>1, RepairKinds
    <2>2. settings' = Over(operation.payload, settings)
        BY <1>1 DEF Perform, PatchSettings
    <2>3. PICK f \in S : part = <<"setting", f>>
        BY <1>1, <2>1 DEF Fixes, OfRulesets, Restrict
    <2>4. settings'[f] = AskedSettings(m)[f]
        BY <2>1, <2>2 DEF Over, Restrict
    <2> QED
        BY <2>3, <2>4 DEF Drift
<1>2. CASE operation.kind = "toggle"
    <2>1. PICK t \in DOMAIN AskedToggles(m) : operation.toggle = t
        BY <1>2, RepairKinds
    <2>2. toggles' = [toggles EXCEPT ![t] = AskedToggles(m)[t]]
        BY <1>2, <2>1, RepairKinds DEF Perform, SetToggle
    <2>3. toggles'[t] = AskedToggles(m)[t]
        BY <2>1, <2>2, TogglesAsked DEF OnGitHub
    <2>4. part = <<"toggle", t>>
        BY <1>2, <2>1 DEF Fixes, OfRulesets
    <2> QED
        BY <2>3, <2>4 DEF Drift
<1>3. CASE OfRulesets(operation)
    <2>1. PICK t \in RulesetTargets : operation.payload = Payload(m, t)
        BY <1>3, RepairKinds DEF OfRulesets
    <2>2. \E n \in DOMAIN rulesets' : rulesets'[n] = Stored(Payload(m, t))
        <3>1. CASE operation.kind = "create_ruleset"
            <4>1. rulesets' = Over([n \in {nextId} |-> Stored(Payload(m, t))], rulesets)
                BY <2>1, <3>1 DEF Perform, CreateRuleset
            <4> QED
                BY <4>1 DEF Over
        <3>2. CASE operation.kind = "update_ruleset"
            BY <2>1, <3>2 DEF Perform, UpdateRuleset
        <3> QED
            BY <1>3, <3>1, <3>2 DEF OfRulesets
    <2>3. \E n \in DOMAIN rulesets' : AsAsked(rulesets'[n], m, t)
        BY <2>2, StoredIsAsAsked
    <2>4. part = <<"ruleset", t>>
        BY <1>3, <2>1, PayloadParts DEF Fixes, OfRulesets
    <2> QED
        BY <2>3, <2>4 DEF Drift
<1> QED
    BY <1>1, <1>2, <1>3, RepairKinds DEF OfRulesets

\* A run's own writes only fill the page.
LEMMA PageFills ==
    ASSUME OnGitHub, OnGitHub', DOMAIN rulesets \subseteq DOMAIN rulesets', OnePage'
    PROVE  OnePage
<1>1. IsFiniteSet(DOMAIN rulesets')
    <2>1. nextId' - 1 \in Int /\ DOMAIN rulesets' \subseteq 1..(nextId' - 1)
        BY DEF OnGitHub
    <2>2. IsFiniteSet(1..(nextId' - 1))
        BY <2>1, FS_Interval
    <2> QED
        BY <2>1, <2>2, FS_Subset
<1>2. /\ Cardinality(DOMAIN rulesets) <= Cardinality(DOMAIN rulesets')
      /\ Cardinality(DOMAIN rulesets) \in Nat /\ Cardinality(DOMAIN rulesets') \in Nat
    BY <1>1, FS_Subset, FS_CardinalityType
<1> QED
    BY <1>2, ConfiguratorAssumption DEF OnePage

\* If there is room on the first page, it shows all there is.
LEMMA PageShowsAll ==
    ASSUME OnGitHub, OnePage
    PROVE  FirstPage = DOMAIN rulesets
<1> SUFFICES ASSUME NEW n \in DOMAIN rulesets
             PROVE  Cardinality({k \in DOMAIN rulesets : k < n}) < PageSize
    BY DEF FirstPage
<1> DEFINE before == {k \in DOMAIN rulesets : k < n}
<1>1. IsFiniteSet(DOMAIN rulesets)
    BY FS_Interval, FS_Subset DEF OnGitHub
<1>2. n \in Nat
    BY DEF OnGitHub
<1>3. before \subseteq DOMAIN rulesets \ {n}
    BY <1>2
<1>4. /\ IsFiniteSet(DOMAIN rulesets \ {n})
      /\ Cardinality(DOMAIN rulesets \ {n}) = Cardinality(DOMAIN rulesets) - 1
    BY <1>1, FS_RemoveElement
<1>5. /\ Cardinality(before) <= Cardinality(DOMAIN rulesets \ {n})
      /\ Cardinality(before) \in Nat /\ Cardinality(DOMAIN rulesets) \in Nat
    BY <1>1, <1>3, <1>4, FS_Subset, FS_CardinalityType
<1> HIDE DEF before
<1>6. Cardinality(before) < PageSize
    BY <1>4, <1>5, ConfiguratorAssumption DEF OnePage
<1> QED
    BY <1>6 DEF before

----------------------------------------------------------------------------
(* The stages of a run                                                     *)

LEMMA Appended ==
    ASSUME NEW S, NEW s \in Seq(S), NEW u \in Seq(S)
    PROVE  /\ Len(s \o u) = Len(s) + Len(u)
           /\ \A j \in DOMAIN s : j \in DOMAIN (s \o u) /\ (s \o u)[j] = s[j]
           /\ \A j \in DOMAIN u : Len(s) + j \in DOMAIN (s \o u) /\ (s \o u)[Len(s) + j] = u[j]
           /\ \A j \in DOMAIN (s \o u) :
                 \/ j \in DOMAIN s /\ (s \o u)[j] = s[j]
                 \/ j - Len(s) \in DOMAIN u /\ (s \o u)[j] = u[j - Len(s)]
OBVIOUS

\* What plan_ruleset_changes finds for a target.
LEMMA RulesetChangeFinds ==
    ASSUME NEW m, NEW t, NEW found
    PROVE  \/ /\ \A f \in found : f.key # Key(Payload(m, t))
              /\ RulesetChange(found, m, t) =
                    <<[kind |-> "create_ruleset", payload |-> Payload(m, t)]>>
           \/ \E f \in found :
                 /\ f.key = Key(Payload(m, t))
                 /\ Normalized(f.content, ManagedRuleTypes(m, t)) #
                       Normalized(Payload(m, t), ManagedRuleTypes(m, t))
                 /\ RulesetChange(found, m, t) =
                       <<[kind |-> "update_ruleset", id |-> f.id, payload |-> Payload(m, t)]>>
           \/ /\ \E f \in found : f.key = Key(Payload(m, t))
              /\ \A f \in found : f.key = Key(Payload(m, t)) =>
                    Normalized(f.content, ManagedRuleTypes(m, t)) =
                        Normalized(Payload(m, t), ManagedRuleTypes(m, t))
              /\ RulesetChange(found, m, t) = <<>>
<1> DEFINE payload == Payload(m, t)
           current == {f \in found : f.key = Key(payload)}
           types == ManagedRuleTypes(m, t)
           Same(f) == Normalized(f.content, types) = Normalized(payload, types)
           outdated == CHOOSE f \in current : ~Same(f)
           create == [kind |-> "create_ruleset", payload |-> payload]
           Update(f) == [kind |-> "update_ruleset", id |-> f.id, payload |-> payload]
<1>1. RulesetChange(found, m, t) =
         IF current = {} THEN <<create>>
         ELSE IF \E f \in current : ~Same(f) THEN <<Update(outdated)>> ELSE <<>>
    BY DEF RulesetChange
<1>2. (\E f \in current : ~Same(f)) => outdated \in current /\ ~Same(outdated)
    OBVIOUS
<1>3. \A f : f \in current <=> f \in found /\ f.key = Key(payload)
    OBVIOUS
<1>4. CASE current = {}
    <2>1. RulesetChange(found, m, t) = <<create>>
        BY <1>1, <1>4
    <2> HIDE DEF current
    <2> QED
        BY <1>3, <1>4, <2>1
<1>5. CASE \E f \in current : ~Same(f)
    <2>1. RulesetChange(found, m, t) = <<Update(outdated)>>
        BY <1>1, <1>5
    <2>2. PICK f \in current : ~Same(f) /\ f = outdated
        BY <1>2, <1>5
    <2>3. RulesetChange(found, m, t) = <<Update(f)>>
        BY <2>1, <2>2
    <2> HIDE DEF current, outdated
    <2> QED
        BY <1>3, <2>2, <2>3
<1>6. CASE current # {} /\ ~\E f \in current : ~Same(f)
    <2>1. RulesetChange(found, m, t) = <<>>
        BY <1>1, <1>6
    <2> HIDE DEF current
    <2> QED
        BY <1>3, <1>6, <2>1
<1> QED
    BY <1>4, <1>5, <1>6

\* One change for a target, and of a ruleset of that target.
LEMMA RulesetChangeOne ==
    ASSUME NEW m, NEW t, NEW found, NEW s, s = RulesetChange(found, m, t)
    PROVE  /\ DOMAIN s \subseteq {1} /\ Len(s) \in {0, 1}
           /\ \A j \in DOMAIN s : OfRulesets(s[j]) /\ s[j].payload.target = t
<1>1. s = <<>> \/ \E operation : /\ s = <<operation>>
                                 /\ OfRulesets(operation)
                                 /\ operation.payload = Payload(m, t)
    BY RulesetChangeFinds DEF OfRulesets
<1>2. CASE s = <<>>
    BY <1>2
<1>3. ASSUME NEW operation, s = <<operation>>, OfRulesets(operation),
             operation.payload = Payload(m, t)
      PROVE  /\ DOMAIN s \subseteq {1} /\ Len(s) \in {0, 1}
             /\ \A j \in DOMAIN s : OfRulesets(s[j]) /\ s[j].payload.target = t
    <2>1. DOMAIN s = {1} /\ s[1] = operation /\ Len(s) = 1
        BY <1>3
    <2> QED
        BY <1>3, <2>1, PayloadParts
<1> QED
    BY <1>1, <1>2, <1>3

\* No other change is one of a ruleset.
LEMMA OtherChanges ==
    ASSUME NEW m, NEW asked, NEW t
    PROVE  /\ \A j \in DOMAIN SettingsChange(m) : ~OfRulesets(SettingsChange(m)[j])
           /\ \A j \in DOMAIN ToggleChange(asked, t) : ~OfRulesets(ToggleChange(asked, t)[j])
BY DEF SettingsChange, ToggleChange, OfRulesets

LEMMA StagedKept ==
    ASSUME NEW r, Staged(r), pc'[r] = pc[r], manifest'[r] = manifest[r],
           unread'[r] = unread[r], managed'[r] = managed[r], plan'[r] = plan[r],
           applied'[r] = applied[r], alone'[r] => alone[r]
    PROVE  Staged(r)'
BY DEF Staged

\* What a step of r leaves of the others, and what it reaches of its own.
LEMMA OwnVariables ==
    ASSUME AllHonest, TypeOK, NEW r \in Runners
    PROVE  /\ r \in DOMAIN pc /\ r \in DOMAIN manifest /\ r \in DOMAIN plan
           /\ r \in DOMAIN listed /\ r \in DOMAIN managed /\ r \in DOMAIN applied
           /\ r \in DOMAIN unread /\ r \in DOMAIN alone
           /\ plan[r] \in Seq(Repairs(manifest[r]))
           /\ applied[r] \in Nat /\ applied[r] <= Len(plan[r])
BY DEF AllHonest, OfRunners, Honest, TypeOK

LEMMA StagedStep ==
    ASSUME AllHonest, TypeOK, NEW r \in Runners, Staged(r),
           Run(r) \/ CallFails(r) \/ AnswerLost(r)
    PROVE  Staged(r)'
<1> USE OwnVariables
<1>1. CASE LoadManifest(r)
    BY <1>1 DEF LoadManifest, Goto, Staged, Reading, Ended
<1>2. CASE ResolveToken(r)
    BY <1>2 DEF ResolveToken, Goto, Staged, Reading, Ended, runner
<1>3. CASE GetRepository(r)
    <2>1. PICK m : m = manifest[r]
        OBVIOUS
    <2>2. PICK a, b : /\ a = SettingsChange(m)
                      /\ b = ToggleChange(AdvancedSecurity(m, Private), "advanced_security")
        OBVIOUS
    <2>3. a \in Seq(Repairs(m)) /\ b \in Seq(Repairs(m))
        BY <2>2, SettingsChangeRepairs, TogglesAsked, ToggleChangeRepairs
    <2>4. /\ pc[r] = "authenticated" /\ plan'[r] = <<>> \o (a \o b)
          /\ unread'[r] = DOMAIN DesiredToggles(m) /\ UNCHANGED <<manifest, managed, applied>>
          /\ pc'[r] \in {"failed", "toggles"}
        BY <1>3, <2>1, <2>2 DEF GetRepository, Planned, Goto, Staged
    <2>5. plan'[r] = a \o b
        BY <2>3, <2>4
    <2>6. \A j \in DOMAIN (a \o b) : ~OfRulesets((a \o b)[j])
        <3>1. \A j \in DOMAIN a : ~OfRulesets(a[j])
            BY <2>2, OtherChanges
        <3>2. \A j \in DOMAIN b : ~OfRulesets(b[j])
            BY <2>2, OtherChanges
        <3> QED
            BY <2>3, <3>1, <3>2, Appended
    <2>7. managed[r] = {} /\ applied[r] = 0
        BY <2>4 DEF Staged
    <2> QED
        BY <2>1, <2>4, <2>5, <2>6, <2>7 DEF Staged, Reading
<1>4. CASE GetToggleState(r)
    <2>1. PICK m : m = manifest[r]
        OBVIOUS
    <2>2. PICK t, b :
             /\ t \in unread[r]
             /\ b = ToggleChange(DesiredToggles(m), t)
             /\ unread'[r] = unread[r] \ {t}
             /\ \/ plan'[r] = plan[r] \o b /\ UNCHANGED pc
                \/ pc'[r] = "failed" /\ UNCHANGED plan
        BY <1>4, <2>1 DEF GetToggleState, Planned, Goto
    <2>3. pc[r] = "toggles" /\ UNCHANGED <<manifest, managed, applied>>
        BY <1>4 DEF GetToggleState
    <2>4. \A j \in DOMAIN plan'[r] : ~OfRulesets(plan'[r][j])
        <3>1. b \in Seq(Repairs(m))
            BY <2>2, TogglesAsked, ToggleChangeRepairs
        <3>2. \A j \in DOMAIN b : ~OfRulesets(b[j])
            BY <2>2, OtherChanges
        <3>3. \A j \in DOMAIN plan[r] : ~OfRulesets(plan[r][j])
            BY <2>3 DEF Staged, Reading
        <3>4. PICK p \in Seq(Repairs(m)) : p = plan[r]
            BY <2>1
        <3>5. \A j \in DOMAIN (p \o b) : ~OfRulesets((p \o b)[j])
            BY <3>1, <3>2, <3>3, <3>4, Appended
        <3> QED
            BY <2>2, <3>3, <3>4, <3>5
    <2>5. unread'[r] \subseteq DOMAIN DesiredToggles(manifest'[r])
        BY <2>2, <2>3 DEF Staged
    <2>6. managed[r] = {} /\ applied[r] = 0
        BY <2>3 DEF Staged, Reading
    <2> QED
        BY <2>2, <2>3, <2>4, <2>5, <2>6 DEF Staged, Reading
<1>5. CASE BuildRulesets(r)
    BY <1>5 DEF BuildRulesets, Goto, Staged, Reading, Ended, runner
<1>6. CASE ListRulesets(r)
    BY <1>6 DEF ListRulesets, Goto, Staged, Reading, Ended
<1>7. CASE GetRuleset(r)
    <2>1. /\ pc[r] = "rulesets" /\ pc'[r] \in {"rulesets", "failed"}
          /\ UNCHANGED <<manifest, unread, plan, applied, alone>>
        BY <1>7 DEF GetRuleset, Goto
    <2> QED
        BY <2>1 DEF Staged, Reading
<1>8. CASE PlanRulesets(r)
    <2>1. PICK m : m = manifest[r]
        OBVIOUS
    <2>2. PICK a, b, s : /\ a = RulesetChange(managed[r], m, "branch")
                         /\ b = RulesetChange(managed[r], m, "tag")
                         /\ s = a \o b
        OBVIOUS
    <2>3. a \in Seq(Repairs(m)) /\ b \in Seq(Repairs(m)) /\ s \in Seq(Repairs(m))
        <3>1. PICK found : found = managed[r]
            OBVIOUS
        <3>2. \A e \in found : e.id \in Slots(e.key[2])
            BY <3>1 DEF AllHonest, Honest
        <3>3. "branch" \in RulesetTargets /\ "tag" \in RulesetTargets
            BY DEF RulesetTargets
        <3>4. a \in Seq(Repairs(m)) /\ b \in Seq(Repairs(m))
            BY <2>2, <3>1, <3>2, <3>3, RulesetChangeRepairs
        <3> QED
            BY <2>2, <3>4
    <2>4. /\ pc[r] = "rulesets" /\ pc'[r] = "planned" /\ plan'[r] = plan[r] \o s
          /\ UNCHANGED <<manifest, unread, managed, applied, alone>>
        BY <1>8, <2>1, <2>2 DEF PlanRulesets, Planned, Goto
    <2>5. /\ \A j \in DOMAIN plan[r] : ~OfRulesets(plan[r][j])
          /\ unread[r] = {} /\ applied[r] = 0
        BY <2>4 DEF Staged, Reading
    <2>6. \A i, j \in DOMAIN s : s[i].payload.target = s[j].payload.target => i = j
        <3>1. /\ DOMAIN a \subseteq {1} /\ Len(a) \in {0, 1}
              /\ \A j \in DOMAIN a : a[j].payload.target = "branch"
            BY <2>2, RulesetChangeOne
        <3>2. /\ DOMAIN b \subseteq {1} /\ Len(b) \in {0, 1}
              /\ \A j \in DOMAIN b : b[j].payload.target = "tag"
            BY <2>2, RulesetChangeOne
        <3>3. \A j \in DOMAIN s : \/ j = 1 /\ s[j].payload.target = "branch"
                                  \/ j = Len(a) + 1 /\ s[j].payload.target = "tag"
            <4>1. SUFFICES ASSUME NEW j \in DOMAIN s
                           PROVE  \/ j = 1 /\ s[j].payload.target = "branch"
                                  \/ j = Len(a) + 1 /\ s[j].payload.target = "tag"
                OBVIOUS
            <4>2. \/ j \in DOMAIN a /\ s[j] = a[j]
                  \/ j - Len(a) \in DOMAIN b /\ s[j] = b[j - Len(a)]
                BY <2>2, <2>3, Appended
            <4>3. j \in Nat
                BY <2>3
            <4> QED
                BY <3>1, <3>2, <4>2, <4>3
        <3> QED
            BY <3>3
    <2>7. PICK p \in Seq(Repairs(m)) : p = plan[r]
        BY <2>1
    <2>8. \A i, j \in DOMAIN (p \o s) :
              /\ OfRulesets((p \o s)[i]) /\ OfRulesets((p \o s)[j])
              /\ (p \o s)[i].payload.target = (p \o s)[j].payload.target
              => i = j
        <3>1. SUFFICES ASSUME NEW i \in DOMAIN (p \o s), NEW j \in DOMAIN (p \o s),
                              OfRulesets((p \o s)[i]), OfRulesets((p \o s)[j]),
                              (p \o s)[i].payload.target = (p \o s)[j].payload.target
                       PROVE  i = j
            OBVIOUS
        <3>2. i - Len(p) \in DOMAIN s /\ (p \o s)[i] = s[i - Len(p)]
            BY <2>3, <2>5, <2>7, <3>1, Appended
        <3>3. j - Len(p) \in DOMAIN s /\ (p \o s)[j] = s[j - Len(p)]
            BY <2>3, <2>5, <2>7, <3>1, Appended
        <3>4. i - Len(p) = j - Len(p)
            BY <2>6, <3>1, <3>2, <3>3
        <3>5. i \in Nat /\ j \in Nat /\ Len(p) \in Nat
            BY <2>3, <2>7
        <3> QED
            BY <3>4, <3>5
    <2> QED
        BY <2>4, <2>5, <2>7, <2>8 DEF Staged, Reading
<1>9. CASE ApplyChange(r)
    <2>1. /\ pc[r] = "planned" /\ Mode[r] = "apply"
          /\ UNCHANGED <<pc, manifest, unread, managed, plan>>
        BY <1>9 DEF ApplyChange, Remaining
    <2> QED
        BY <2>1 DEF Staged, Reading
<1>10. CASE AnswerLost(r)
    <2>1. /\ pc[r] = "planned" /\ pc'[r] = "failed"
          /\ UNCHANGED <<manifest, unread, managed, plan, applied>>
        BY <1>10 DEF AnswerLost, Remaining, Goto, runner
    <2> QED
        BY <2>1 DEF Staged, Reading
<1>11. CASE ApplyRefused(r)
    BY <1>11 DEF ApplyRefused, Remaining, Goto, Staged, Reading, runner
<1>12. CASE Report(r)
    <2>1. /\ pc[r] = "planned" /\ pc'[r] = "ok" /\ ~Remaining(r)
          /\ UNCHANGED <<manifest, unread, managed, plan, applied, alone>>
        BY <1>12 DEF Report, Goto, runner
    <2>2. Mode[r] = "apply" => applied[r] = Len(plan[r])
        <3>1. Mode[r] = "apply" => ~(applied[r] < Len(plan[r]))
            BY <2>1 DEF Remaining
        <3>2. Len(plan[r]) \in Nat
            OBVIOUS
        <3> QED
            BY <3>1, <3>2
    <2> QED
        BY <2>1, <2>2 DEF Staged, Reading
<1>13. CASE CallFails(r)
    BY <1>13 DEF CallFails, Goto, Staged, Reading, Ended, runner
<1> QED
    BY <1>1, <1>2, <1>3, <1>4, <1>5, <1>6, <1>7, <1>8, <1>9, <1>10, <1>11, <1>12, <1>13 DEF Run

----------------------------------------------------------------------------
(* What there is to do                                                     *)

LEMMA SetOfJoined ==
    ASSUME NEW S, NEW s \in Seq(S), NEW u \in Seq(S)
    PROVE  ToSet(s \o u) = ToSet(s) \cup ToSet(u)
<1>1. ASSUME NEW x \in ToSet(s)
      PROVE  x \in ToSet(s \o u)
    <2>1. PICK j \in DOMAIN s : x = s[j]
        BY <1>1 DEF ToSet
    <2>2. j \in DOMAIN (s \o u) /\ (s \o u)[j] = x
        BY <2>1, Appended
    <2> QED
        BY <2>2 DEF ToSet
<1>2. ASSUME NEW x \in ToSet(u)
      PROVE  x \in ToSet(s \o u)
    <2>1. PICK j \in DOMAIN u : x = u[j]
        BY <1>2 DEF ToSet
    <2>2. Len(s) + j \in DOMAIN (s \o u) /\ (s \o u)[Len(s) + j] = x
        BY <2>1, Appended
    <2> QED
        BY <2>2 DEF ToSet
<1>3. ASSUME NEW x \in ToSet(s \o u)
      PROVE  x \in ToSet(s) \cup ToSet(u)
    <2>1. PICK j \in DOMAIN (s \o u) : x = (s \o u)[j]
        BY <1>3 DEF ToSet
    <2>2. \/ j \in DOMAIN s /\ x = s[j]
          \/ j - Len(s) \in DOMAIN u /\ x = u[j - Len(s)]
        BY <2>1, Appended
    <2> QED
        BY <2>2 DEF ToSet
<1> QED
    BY <1>1, <1>2, <1>3

LEMMA SetOfOne ==
    ASSUME NEW x
    PROVE  ToSet(<<x>>) = {x} /\ ToSet(<<>>) = {}
<1>1. DOMAIN <<x>> = {1} /\ <<x>>[1] = x
    OBVIOUS
<1> QED
    BY <1>1 DEF ToSet

LEMMA SameGitHub ==
    ASSUME UNCHANGED github, NEW m
    PROVE  Drift(m)' = Drift(m) /\ Work(m)' = Work(m) /\ OnePage' = OnePage
BY DEF github, Drift, Work, OnePage

\* The parts of the repository that are to be worked on.
LEMMA WorkKinds ==
    ASSUME NEW m, NEW part \in Work(m)
    PROVE  \/ \E f \in DOMAIN AskedSettings(m) :
                 part = <<"setting", f>> /\ settings[f] # AskedSettings(m)[f]
           \/ \E t \in DOMAIN AskedToggles(m) :
                 part = <<"toggle", t>> /\ toggles[t] # AskedToggles(m)[t]
           \/ \E t \in RulesetTargets :
                 /\ part = <<"ruleset", t>>
                 /\ ~\E n \in DOMAIN rulesets : AsAsked(rulesets[n], m, t)
BY DEF Work, Drift

LEMMA WorkOf ==
    ASSUME NEW m
    PROVE  /\ \A f \in DOMAIN AskedSettings(m) :
                 settings[f] # AskedSettings(m)[f] => <<"setting", f>> \in Work(m)
           /\ \A t \in DOMAIN AskedToggles(m) :
                 toggles[t] # AskedToggles(m)[t] /\ (t = "advanced_security" => Private)
                     => <<"toggle", t>> \in Work(m)
           /\ \A t \in RulesetTargets :
                 ~(\E n \in DOMAIN rulesets : AsAsked(rulesets[n], m, t))
                     => <<"ruleset", t>> \in Work(m)
BY DEF Work, Drift, FollowUps

\* A toggle is one of those that are read, or Advanced Security.
LEMMA AskedToggleKinds ==
    ASSUME NEW m, NEW t \in DOMAIN AskedToggles(m)
    PROVE  \/ t \in DOMAIN DesiredToggles(m)
           \/ /\ t = "advanced_security"
              /\ "advanced_security" \in DOMAIN Security(m)
              /\ AskedToggles(m)[t] = Security(m)["advanced_security"]
              /\ Private => t \in DOMAIN AdvancedSecurity(m, Private)
<1> DEFINE advanced == Keep(Security(m), {"advanced_security"})
<1>1. /\ DOMAIN advanced = DOMAIN Security(m) \cap {"advanced_security"}
      /\ \A key \in DOMAIN advanced : advanced[key] = Security(m)[key]
    BY KeepKeys
<1>2. AskedToggles(m) = Over(DesiredToggles(m), advanced)
    BY DEF AskedToggles
<1>3. Private => AdvancedSecurity(m, Private) = advanced
    BY DEF AdvancedSecurity
<1> HIDE DEF advanced
<1> QED
    BY <1>1, <1>2, <1>3 DEF Over

\* Advanced Security is worked on in private repositories only: in a public one
\* it is on, and to switch it off is left to a person.
LEMMA AdvancedWork ==
    ASSUME NEW m \in Manifests, OnGitHub, <<"toggle", "advanced_security">> \in Work(m)
    PROVE  Private
<1> SUFFICES ASSUME ~Private
             PROVE  FALSE
    OBVIOUS
<1> DEFINE t == "advanced_security"
<1>1. t \in DOMAIN AskedToggles(m) /\ toggles[t] # AskedToggles(m)[t]
    BY WorkKinds
<1>2. t \notin DOMAIN DesiredToggles(m)
    BY TogglesAsked
<1>3. t \in DOMAIN Security(m) /\ AskedToggles(m)[t] = Security(m)[t]
    BY <1>1, <1>2, AskedToggleKinds
<1>4. Security(m)[t] \in BOOLEAN /\ toggles[t]
    BY <1>3, ConfiguratorAssumption DEF OnGitHub
<1>5. PICK b \in BOOLEAN : b = Security(m)[t] /\ Get(Security(m), t, TRUE) = b
    BY <1>3, <1>4 DEF Get
<1>6. CASE b = FALSE
    <2>1. ~Get(Security(m), "advanced_security", TRUE)
        BY <1>5, <1>6
    <2>2. <<"toggle", "advanced_security">> \in FollowUps(m, Private)
        BY <2>1 DEF FollowUps
    <2> QED
        BY <2>2 DEF Work
<1>7. CASE b = TRUE
    <2>1. AskedToggles(m)[t] = TRUE
        BY <1>3, <1>5, <1>7
    <2>2. PICK a : a = toggles[t]
        OBVIOUS
    <2>3. a # TRUE /\ a
        BY <1>1, <1>4, <2>1, <2>2
    <2> QED
        BY <2>3
<1> QED
    BY <1>5, <1>6, <1>7

\* The changes that are planned are those that are needed.
LEMMA SettingsChangeSet ==
    ASSUME NEW m, OnGitHub
    PROVE  /\ \A f \in DOMAIN AskedSettings(m) : settings[f] # AskedSettings(m)[f] =>
                 \E operation \in ToSet(SettingsChange(m)) : Fixes(operation, <<"setting", f>>)
           /\ \A operation \in ToSet(SettingsChange(m)) :
                 \E part \in Work(m) : Fixes(operation, part)
<1> DEFINE patch == SettingsPatch(m, settings)
           operation == [kind |-> "patch_repository", payload |-> patch]
<1>1. /\ DOMAIN AskedSettings(m) = DOMAIN Repository(m) \cap Fields
      /\ \A f \in DOMAIN Repository(m) \cap Fields : AskedSettings(m)[f] = Repository(m)[f]
    BY KeepKeys DEF AskedSettings
<1>2. DOMAIN patch = {f \in DOMAIN AskedSettings(m) : settings[f] # AskedSettings(m)[f]}
    BY <1>1 DEF SettingsPatch, Restrict
<1>3. SettingsChange(m) = IF DOMAIN patch = {} THEN <<>> ELSE <<operation>>
    BY DEF SettingsChange
<1>4. operation.kind = "patch_repository" /\ operation.payload = patch
    OBVIOUS
<1> HIDE DEF patch, operation
<1>5. ToSet(SettingsChange(m)) = IF DOMAIN patch = {} THEN {} ELSE {operation}
    BY <1>3, SetOfOne
<1>6. \A f \in DOMAIN patch : Fixes(operation, <<"setting", f>>) /\ <<"setting", f>> \in Work(m)
    BY <1>2, <1>4, WorkOf DEF Fixes
<1> QED
    BY <1>2, <1>5, <1>6

LEMMA ToggleChangeSet ==
    ASSUME NEW m, NEW asked, NEW t \in DOMAIN asked, t \in DOMAIN AskedToggles(m),
           AskedToggles(m)[t] = asked[t], t = "advanced_security" => Private
    PROVE  /\ toggles[t] # AskedToggles(m)[t] =>
                 \E operation \in ToSet(ToggleChange(asked, t)) : Fixes(operation, <<"toggle", t>>)
           /\ \A operation \in ToSet(ToggleChange(asked, t)) :
                 \E part \in Work(m) : Fixes(operation, part)
<1> DEFINE operation == [kind |-> "toggle", toggle |-> t, enabled |-> asked[t]]
<1>1. ToggleChange(asked, t) = IF toggles[t] # asked[t] THEN <<operation>> ELSE <<>>
    BY DEF ToggleChange
<1>2. Fixes(operation, <<"toggle", t>>)
    BY DEF Fixes
<1>3. toggles[t] # asked[t] => <<"toggle", t>> \in Work(m)
    BY WorkOf
<1> HIDE DEF operation
<1>4. ToSet(ToggleChange(asked, t)) = IF toggles[t] # asked[t] THEN {operation} ELSE {}
    BY <1>1, SetOfOne
<1> QED
    BY <1>2, <1>3, <1>4

\* While nothing is applied, what is outstanding is what is planned.
LEMMA OutstandingGrows ==
    ASSUME NEW S, NEW r, plan[r] \in Seq(S), NEW s \in Seq(S), plan'[r] = plan[r] \o s,
           applied[r] = 0, applied'[r] = 0
    PROVE  Outstanding(r)' = Outstanding(r) \cup ToSet(s)
<1>1. PICK p \in Seq(S) : p = plan[r]
    OBVIOUS
<1>2. \A j \in DOMAIN p : j > 0
    OBVIOUS
<1>3. Outstanding(r) = ToSet(p)
    BY <1>1, <1>2 DEF Outstanding, ToSet
<1>4. p \o s \in Seq(S) /\ \A j \in DOMAIN (p \o s) : j > 0
    OBVIOUS
<1>5. Outstanding(r)' = ToSet(p \o s)
    BY <1>1, <1>4 DEF Outstanding, ToSet
<1> QED
    BY <1>3, <1>5, SetOfJoined

----------------------------------------------------------------------------
(* The steps of a run that nobody disturbs                                 *)

\* The first reads: every setting, and Advanced Security.
LEMMA RepositoryRead ==
    ASSUME AllHonest, TypeOK, NEW r \in Runners, Staged(r), GetRepository(r), pc'[r] # "failed"
    PROVE  Undisturbed(r)'
<1> USE OwnVariables
<1>1. PICK m \in Manifests : m = manifest[r]
    BY DEF GetRepository, AllHonest, Honest, Ended
<1>2. PICK a, b : /\ a = SettingsChange(m)
                  /\ b = ToggleChange(AdvancedSecurity(m, Private), "advanced_security")
    OBVIOUS
<1>3. a \in Seq(Repairs(m)) /\ b \in Seq(Repairs(m))
    BY <1>2, SettingsChangeRepairs, TogglesAsked, ToggleChangeRepairs
<1>4. /\ pc[r] = "authenticated" /\ pc'[r] = "toggles" /\ plan'[r] = plan[r] \o (a \o b)
      /\ unread'[r] = DOMAIN DesiredToggles(m) /\ UNCHANGED <<github, manifest, applied>>
    BY <1>1, <1>2 DEF GetRepository, Planned, Goto
<1>5. plan[r] = <<>> /\ applied[r] = 0
    BY <1>4 DEF Staged
<1>6. Outstanding(r)' = ToSet(a) \cup ToSet(b)
    <2>1. Outstanding(r) = {}
        BY <1>5 DEF Outstanding
    <2>2. a \o b \in Seq(Repairs(m)) /\ ToSet(a \o b) = ToSet(a) \cup ToSet(b)
        BY <1>3, SetOfJoined
    <2>3. PICK c \in Seq(Repairs(m)) : c = a \o b
        BY <2>2
    <2>4. plan[r] \in Seq(Repairs(m)) /\ plan'[r] = plan[r] \o c /\ applied'[r] = 0
        BY <1>1, <1>4, <1>5, <2>3
    <2>5. Outstanding(r)' = Outstanding(r) \cup ToSet(c)
        BY <1>5, <2>4, OutstandingGrows
    <2> QED
        BY <2>1, <2>2, <2>3, <2>5
<1>7. OnGitHub
    BY DEF AllHonest
<1>8. "advanced_security" \in DOMAIN AdvancedSecurity(m, Private) =>
          /\ toggles["advanced_security"] # AskedToggles(m)["advanced_security"] =>
                \E operation \in ToSet(b) : Fixes(operation, <<"toggle", "advanced_security">>)
          /\ \A operation \in ToSet(b) : \E part \in Work(m) : Fixes(operation, part)
    BY <1>2, TogglesAsked, ToggleChangeSet
<1>9. "advanced_security" \notin DOMAIN AdvancedSecurity(m, Private) => ToSet(b) = {}
    BY <1>2, SetOfOne DEF ToggleChange
<1>10. ASSUME NEW part \in Work(m)
       PROVE  \/ Unseen(r, part)'
              \/ \E operation \in Outstanding(r)' : Fixes(operation, part)
    <2>1. CASE \E f \in DOMAIN AskedSettings(m) :
                  part = <<"setting", f>> /\ settings[f] # AskedSettings(m)[f]
        BY <1>2, <1>6, <1>7, <2>1, SettingsChangeSet
    <2>2. CASE \E t \in DOMAIN AskedToggles(m) :
                  part = <<"toggle", t>> /\ toggles[t] # AskedToggles(m)[t]
        <3>1. PICK t \in DOMAIN AskedToggles(m) :
                  part = <<"toggle", t>> /\ toggles[t] # AskedToggles(m)[t]
            BY <2>2
        <3>2. CASE t \in DOMAIN DesiredToggles(m)
            BY <1>4, <3>1, <3>2 DEF Unseen
        <3>3. CASE t \notin DOMAIN DesiredToggles(m)
            <4>1. t = "advanced_security" /\ (Private => t \in DOMAIN AdvancedSecurity(m, Private))
                BY <3>3, AskedToggleKinds
            <4>2. Private
                BY <1>7, <1>10, <3>1, <4>1, AdvancedWork
            <4> QED
                BY <1>6, <1>8, <3>1, <4>1, <4>2
        <3> QED
            BY <3>2, <3>3
    <2>3. CASE \E t \in RulesetTargets : part = <<"ruleset", t>>
        BY <1>4, <2>3 DEF Unseen, Reading
    <2> QED
        BY <2>1, <2>2, <2>3, WorkKinds
<1>11. \A operation \in Outstanding(r)' : \E part \in Work(m) : Fixes(operation, part)
    <2>1. \A operation \in ToSet(a) : \E part \in Work(m) : Fixes(operation, part)
        BY <1>2, <1>7, SettingsChangeSet
    <2> QED
        BY <1>6, <1>8, <1>9, <2>1
<1>12. Work(manifest[r])' = Work(m)
    BY <1>1, <1>4, SameGitHub DEF Work, Drift, github
<1>13. Covered(r)' /\ Needed(r)'
    BY <1>10, <1>11, <1>12 DEF Covered, Needed
<1> QED
    BY <1>4, <1>13 DEF Undisturbed, Faithful, Pending

\* One toggle more is read.
LEMMA ToggleRead ==
    ASSUME AllHonest, TypeOK, NEW r \in Runners, Staged(r), Undisturbed(r),
           GetToggleState(r), pc'[r] # "failed"
    PROVE  Undisturbed(r)'
<1> USE OwnVariables
<1>1. PICK m \in Manifests : m = manifest[r]
    BY DEF GetToggleState, AllHonest, Honest, Ended
<1>2. PICK t, b :
         /\ t \in unread[r]
         /\ b = ToggleChange(DesiredToggles(m), t)
         /\ unread'[r] = unread[r] \ {t}
         /\ plan'[r] = plan[r] \o b /\ UNCHANGED pc
    BY <1>1 DEF GetToggleState, Planned, Goto
<1>3. pc[r] = "toggles" /\ UNCHANGED <<github, manifest, applied>>
    BY DEF GetToggleState
<1>4. applied[r] = 0 /\ t \in DOMAIN DesiredToggles(m)
    BY <1>1, <1>2, <1>3 DEF Staged, Reading
<1>5. Outstanding(r)' = Outstanding(r) \cup ToSet(b)
    <2>1. b \in Seq(Repairs(m)) /\ plan[r] \in Seq(Repairs(m))
        BY <1>1, <1>2, TogglesAsked, ToggleChangeRepairs
    <2> QED
        BY <1>2, <1>3, <1>4, <2>1, OutstandingGrows
<1>6. /\ t \in DOMAIN AskedToggles(m)
      /\ toggles[t] # AskedToggles(m)[t] =>
            \E operation \in ToSet(b) : Fixes(operation, <<"toggle", t>>)
      /\ \A operation \in ToSet(b) : \E part \in Work(m) : Fixes(operation, part)
    BY <1>2, <1>4, TogglesAsked, ToggleChangeSet
<1>7. ASSUME NEW part \in Work(m)
      PROVE  \/ Unseen(r, part)'
             \/ \E operation \in Outstanding(r)' : Fixes(operation, part)
    <2>1. CASE Unseen(r, part)
        <3>1. CASE part = <<"toggle", t>>
            <4>1. toggles[t] # AskedToggles(m)[t]
                BY <1>7, <3>1, WorkKinds
            <4> QED
                BY <1>5, <1>6, <3>1, <4>1
        <3>2. CASE \E u \in unread[r] \ {t} : part = <<"toggle", u>>
            BY <1>2, <3>2 DEF Unseen
        <3>3. CASE \E u \in RulesetTargets : part = <<"ruleset", u>>
            BY <1>2, <1>3, <3>3 DEF Unseen, Reading
        <3> QED
            BY <2>1, <3>1, <3>2, <3>3 DEF Unseen
    <2>2. CASE \E operation \in Outstanding(r) : Fixes(operation, part)
        BY <1>5, <2>2
    <2> QED
        BY <1>1, <1>7, <2>1, <2>2 DEF Undisturbed, Covered
<1>8. OnePage => \A operation \in Outstanding(r)' : \E part \in Work(m) : Fixes(operation, part)
    BY <1>1, <1>4, <1>5, <1>6 DEF Undisturbed, Needed
<1>9. Work(manifest[r])' = Work(m) /\ OnePage' = OnePage
    BY <1>1, <1>3, SameGitHub DEF Work, Drift, github
<1>10. Covered(r)' /\ Needed(r)'
    BY <1>7, <1>8, <1>9 DEF Covered, Needed
<1> QED
    BY <1>2, <1>3, <1>10 DEF Undisturbed, Faithful, Pending

\* The list shows what there is, if a page has room for it.
LEMMA ListRead ==
    ASSUME AllHonest, TypeOK, NEW r \in Runners, Staged(r), Undisturbed(r),
           ListRulesets(r), pc'[r] # "failed"
    PROVE  Undisturbed(r)'
<1> USE OwnVariables
<1>1. PICK m \in Manifests : m = manifest[r]
    BY DEF ListRulesets, AllHonest, Honest, Ended
<1>2. /\ pc[r] = "listing" /\ pc'[r] = "rulesets"
      /\ listed'[r] = Matching(m) /\ ~Ambiguous(Matching(m))
      /\ UNCHANGED <<github, manifest, unread, managed, plan, applied>>
    BY <1>1 DEF ListRulesets, Goto
<1>3. managed[r] = {}
    BY <1>2 DEF Staged
<1>4. /\ Work(manifest[r])' = Work(m) /\ OnePage' = OnePage
      /\ Outstanding(r)' = Outstanding(r)
    BY <1>1, <1>2, SameGitHub DEF Work, Drift, github, Outstanding
<1>5. \A part : Unseen(r, part)' <=> Unseen(r, part)
    BY <1>2, <1>4 DEF Unseen, Reading
<1>6. Covered(r)' /\ Needed(r)'
    BY <1>1, <1>2, <1>4, <1>5 DEF Undisturbed, Covered, Needed
<1>7. \A e \in Matching(m) : e.id \in DOMAIN rulesets /\ e.key = Key(rulesets[e.id])
    <2>1. SUFFICES ASSUME NEW e \in Matching(m)
                   PROVE  e.id \in DOMAIN rulesets /\ e.key = Key(rulesets[e.id])
        OBVIOUS
    <2>2. PICK n \in FirstPage : e = [id |-> n, key |-> Key(rulesets[n])]
        BY DEF Matching
    <2>3. e.id = n /\ e.key = Key(rulesets[n])
        BY <2>2
    <2>4. n \in DOMAIN rulesets
        BY DEF FirstPage
    <2> QED
        BY <2>3, <2>4
<1>8. ASSUME OnePage, NEW n \in DOMAIN rulesets, Key(rulesets[n]) \in ManagedKeys(m)
      PROVE  /\ \E e \in Matching(m) : e.id = n
             /\ \A k \in DOMAIN rulesets : Key(rulesets[k]) = Key(rulesets[n]) => k = n
    <2>1. FirstPage = DOMAIN rulesets
        BY <1>8, PageShowsAll DEF AllHonest
    <2>2. \A k \in DOMAIN rulesets : Key(rulesets[k]) \in ManagedKeys(m) =>
              \E e \in Matching(m) : e.id = k /\ e.key = Key(rulesets[k])
        <3>1. SUFFICES ASSUME NEW k \in DOMAIN rulesets, Key(rulesets[k]) \in ManagedKeys(m)
                       PROVE  \E e \in Matching(m) : e.id = k /\ e.key = Key(rulesets[k])
            OBVIOUS
        <3>2. PICK e : e = [id |-> k, key |-> Key(rulesets[k])]
            OBVIOUS
        <3>3. e \in Matching(m)
            BY <2>1, <3>1, <3>2 DEF Matching
        <3>4. e.id = k /\ e.key = Key(rulesets[k])
            BY <3>2
        <3> QED
            BY <3>3, <3>4
    <2>3. ASSUME NEW k \in DOMAIN rulesets, Key(rulesets[k]) = Key(rulesets[n])
          PROVE  k = n
        <3>1. PICK e \in Matching(m) : e.id = n /\ e.key = Key(rulesets[n])
            BY <1>8, <2>2
        <3>2. PICK f \in Matching(m) : f.id = k /\ f.key = Key(rulesets[k])
            BY <1>8, <2>2, <2>3
        <3>3. e = f
            BY <1>2, <2>3, <3>1, <3>2 DEF Ambiguous
        <3> QED
            BY <3>1, <3>2, <3>3
    <2> QED
        BY <1>8, <2>2, <2>3
<1>9. Faithful(r)'
    <2>1. UNCHANGED rulesets
        BY <1>2 DEF github
    <2> QED
        BY <1>1, <1>2, <1>3, <1>4, <1>7, <1>8, <2>1 DEF Faithful
<1> QED
    BY <1>2, <1>6, <1>9 DEF Undisturbed, Pending

\* A ruleset is fetched.
LEMMA RulesetRead ==
    ASSUME AllHonest, TypeOK, NEW r \in Runners, Undisturbed(r),
           GetRuleset(r), pc'[r] # "failed"
    PROVE  Undisturbed(r)'
<1> USE OwnVariables
<1>1. PICK e \in listed[r] :
         /\ managed'[r] = managed[r] \cup {[id |-> e.id, key |-> e.key, content |-> rulesets[e.id]]}
         /\ listed'[r] = listed[r] \ {e}
         /\ UNCHANGED pc
    BY DEF GetRuleset, Goto
<1>2. pc[r] = "rulesets" /\ UNCHANGED <<github, manifest, unread, plan, applied>>
    BY DEF GetRuleset
<1>3. PICK fetched : /\ fetched.id = e.id /\ fetched.key = e.key
                     /\ fetched.content = rulesets[e.id]
                     /\ managed'[r] = managed[r] \cup {fetched}
    BY <1>1
<1>4. PICK m : m = manifest[r]
    OBVIOUS
<1>5. /\ Work(manifest[r])' = Work(m) /\ OnePage' = OnePage
      /\ Outstanding(r)' = Outstanding(r)
    BY <1>2, <1>4, SameGitHub DEF Work, Drift, github, Outstanding
<1>6. \A part : Unseen(r, part)' <=> Unseen(r, part)
    BY <1>1, <1>2, <1>5 DEF Unseen, Reading
<1>7. Covered(r)' /\ Needed(r)'
    BY <1>2, <1>4, <1>5, <1>6 DEF Undisturbed, Covered, Needed
<1>8. Faithful(r)'
    <2>1. UNCHANGED rulesets
        BY <1>2 DEF github
    <2>2. \A d \in listed'[r] \cup managed'[r] :
              d.id \in DOMAIN rulesets /\ d.key = Key(rulesets[d.id])
        BY <1>1, <1>2, <1>3 DEF Undisturbed, Faithful
    <2>3. \A d \in managed'[r] : d.content = rulesets[d.id]
        BY <1>2, <1>3 DEF Undisturbed, Faithful
    <2>4. ASSUME NEW d \in listed[r] \cup managed[r]
          PROVE  \E c \in listed'[r] \cup managed'[r] : c.id = d.id
        BY <1>1, <1>3
    <2>5. OnePage => \A n \in DOMAIN rulesets : Key(rulesets[n]) \in ManagedKeys(m) =>
              /\ \E d \in listed'[r] \cup managed'[r] : d.id = n
              /\ \A k \in DOMAIN rulesets : Key(rulesets[k]) = Key(rulesets[n]) => k = n
        BY <1>2, <1>4, <2>4 DEF Undisturbed, Faithful
    <2> QED
        BY <1>2, <1>4, <1>5, <2>1, <2>2, <2>3, <2>5 DEF Faithful
<1> QED
    BY <1>1, <1>2, <1>7, <1>8 DEF Undisturbed, Pending

LEMMA AskedKey ==
    ASSUME NEW m, NEW t, NEW ruleset, AsAsked(ruleset, m, t)
    PROVE  Key(ruleset) = Key(Payload(m, t))
<1>1. PICK payload : payload = Payload(m, t)
    OBVIOUS
<1>2. DOMAIN payload = RulesetParts
    BY <1>1, PayloadParts
<1>3. ruleset.name = payload.name /\ ruleset.target = payload.target
    BY <1>1, <1>2 DEF AsAsked, RulesetParts
<1> QED
    BY <1>1, <1>3 DEF Key

\* Of faithful lists, what is planned for a target is what is needed, and comes
\* in time.
LEMMA RulesetChangeSet ==
    ASSUME NEW m \in Manifests, OnGitHub, NEW t \in RulesetTargets, NEW found,
           \A e \in found : /\ e.id \in DOMAIN rulesets /\ e.key = Key(rulesets[e.id])
                            /\ e.content = rulesets[e.id],
           OnePage => \A n \in DOMAIN rulesets : Key(rulesets[n]) \in ManagedKeys(m) =>
              /\ \E e \in found : e.id = n
              /\ \A k \in DOMAIN rulesets : Key(rulesets[k]) = Key(rulesets[n]) => k = n
    PROVE  /\ \A operation \in ToSet(RulesetChange(found, m, t)) :
                 /\ Timely(operation)
                 /\ OnePage => \E part \in Work(m) : Fixes(operation, part)
           /\ OnePage /\ (~\E n \in DOMAIN rulesets : AsAsked(rulesets[n], m, t)) =>
                 \E operation \in ToSet(RulesetChange(found, m, t)) :
                     Fixes(operation, <<"ruleset", t>>)
<1> DEFINE types == ManagedRuleTypes(m, t)
           Missing == ~\E n \in DOMAIN rulesets : AsAsked(rulesets[n], m, t)
<1>1. PICK payload, key : payload = Payload(m, t) /\ key = Key(payload)
    OBVIOUS
<1>2. key \in ManagedKeys(m) /\ payload.target = t
    BY <1>1, PayloadParts DEF ManagedKeys
<1>3. Missing => <<"ruleset", t>> \in Work(m)
    BY WorkOf
<1>4. \A n \in DOMAIN rulesets : AsAsked(rulesets[n], m, t) => Key(rulesets[n]) = key
    BY <1>1, AskedKey
<1>5. \A n \in DOMAIN rulesets :
          Normalized(rulesets[n], types) = Normalized(payload, types) <=> AsAsked(rulesets[n], m, t)
    BY <1>1, ComparedIsAsked DEF OnGitHub
<1> HIDE DEF types, Missing
<1>6. ASSUME \A f \in found : f.key # key,
             RulesetChange(found, m, t) = <<[kind |-> "create_ruleset", payload |-> payload]>>
      PROVE  /\ \A operation \in ToSet(RulesetChange(found, m, t)) :
                   /\ Timely(operation)
                   /\ OnePage => \E part \in Work(m) : Fixes(operation, part)
             /\ OnePage /\ Missing => \E operation \in ToSet(RulesetChange(found, m, t)) :
                                          Fixes(operation, <<"ruleset", t>>)
    <2>1. PICK create : create = [kind |-> "create_ruleset", payload |-> payload]
        OBVIOUS
    <2>2. create.kind = "create_ruleset" /\ create.payload = payload
        BY <2>1
    <2>3. ToSet(RulesetChange(found, m, t)) = {create}
        BY <1>6, <2>1, SetOfOne
    <2>4. Fixes(create, <<"ruleset", t>>)
        BY <1>2, <2>2 DEF Fixes, OfRulesets
    <2>5. OnePage => \A n \in DOMAIN rulesets : Key(rulesets[n]) # key
        BY <1>2, <1>6
    <2>6. Timely(create)
        BY <1>1, <2>2, <2>5 DEF Timely
    <2>7. OnePage => Missing
        BY <1>4, <2>5 DEF Missing
    <2> QED
        BY <1>3, <2>3, <2>4, <2>6, <2>7
<1>7. ASSUME NEW f \in found, f.key = key,
             Normalized(f.content, types) # Normalized(payload, types),
             RulesetChange(found, m, t) =
                 <<[kind |-> "update_ruleset", id |-> f.id, payload |-> payload]>>
      PROVE  /\ \A operation \in ToSet(RulesetChange(found, m, t)) :
                   /\ Timely(operation)
                   /\ OnePage => \E part \in Work(m) : Fixes(operation, part)
             /\ OnePage /\ Missing => \E operation \in ToSet(RulesetChange(found, m, t)) :
                                          Fixes(operation, <<"ruleset", t>>)
    <2>1. PICK update : update = [kind |-> "update_ruleset", id |-> f.id, payload |-> payload]
        OBVIOUS
    <2>2. update.kind = "update_ruleset" /\ update.payload = payload /\ update.id = f.id
        BY <2>1
    <2>3. ToSet(RulesetChange(found, m, t)) = {update}
        BY <1>7, <2>1, SetOfOne
    <2>4. Fixes(update, <<"ruleset", t>>)
        BY <1>2, <2>2 DEF Fixes, OfRulesets
    <2>5. Timely(update)
        BY <1>1, <1>7, <2>2 DEF Timely
    <2>6. ~AsAsked(rulesets[f.id], m, t) /\ Key(rulesets[f.id]) = key /\ f.id \in DOMAIN rulesets
        BY <1>5, <1>7
    <2>7. OnePage => Missing
        BY <1>2, <1>4, <2>6 DEF Missing
    <2> QED
        BY <1>3, <2>3, <2>4, <2>5, <2>7
<1>8. ASSUME NEW f \in found, f.key = key,
             Normalized(f.content, types) = Normalized(payload, types),
             RulesetChange(found, m, t) = <<>>
      PROVE  /\ ToSet(RulesetChange(found, m, t)) = {}
             /\ ~Missing
    BY <1>5, <1>8, SetOfOne DEF Missing
<1> QED
    <2>1. \/ /\ \A f \in found : f.key # key
             /\ RulesetChange(found, m, t) = <<[kind |-> "create_ruleset", payload |-> payload]>>
          \/ \E f \in found :
                /\ f.key = key
                /\ Normalized(f.content, types) # Normalized(payload, types)
                /\ RulesetChange(found, m, t) =
                      <<[kind |-> "update_ruleset", id |-> f.id, payload |-> payload]>>
          \/ /\ \E f \in found : f.key = key
             /\ \A f \in found : f.key = key =>
                   Normalized(f.content, types) = Normalized(payload, types)
             /\ RulesetChange(found, m, t) = <<>>
        BY <1>1, RulesetChangeFinds DEF types
    <2>2. /\ \A operation \in ToSet(RulesetChange(found, m, t)) :
                /\ Timely(operation)
                /\ OnePage => \E part \in Work(m) : Fixes(operation, part)
          /\ OnePage /\ Missing => \E operation \in ToSet(RulesetChange(found, m, t)) :
                                       Fixes(operation, <<"ruleset", t>>)
        BY <1>6, <1>7, <1>8, <2>1
    <2> QED
        BY <2>2 DEF Missing

\* The plan is made.
LEMMA RulesetsPlanned ==
    ASSUME AllHonest, TypeOK, NEW r \in Runners, Staged(r), Undisturbed(r), PlanRulesets(r)
    PROVE  Undisturbed(r)'
<1> USE OwnVariables
<1>1. PICK m \in Manifests : m = manifest[r]
    BY DEF PlanRulesets, AllHonest, Honest, Ended
<1>2. PICK found, a, b, s : /\ found = managed[r]
                            /\ a = RulesetChange(found, m, "branch")
                            /\ b = RulesetChange(found, m, "tag")
                            /\ s = a \o b
    OBVIOUS
<1>3. RulesetTargets = {"branch", "tag"}
    BY DEF RulesetTargets
<1>4. a \in Seq(Repairs(m)) /\ b \in Seq(Repairs(m)) /\ s \in Seq(Repairs(m))
    <2>1. \A e \in found : e.id \in Slots(e.key[2])
        BY <1>2 DEF AllHonest, Honest
    <2>2. a \in Seq(Repairs(m)) /\ b \in Seq(Repairs(m))
        BY <1>2, <1>3, <2>1, RulesetChangeRepairs
    <2> QED
        BY <1>2, <2>2
<1>5. /\ pc[r] = "rulesets" /\ pc'[r] = "planned" /\ plan'[r] = plan[r] \o s
      /\ UNCHANGED <<github, manifest, unread, applied>> /\ listed[r] = {}
    BY <1>1, <1>2 DEF PlanRulesets, Planned, Goto
<1>6. applied[r] = 0 /\ \A operation \in Outstanding(r) : ~OfRulesets(operation)
    BY <1>5 DEF Staged, Reading, Outstanding
<1>7. Outstanding(r)' = Outstanding(r) \cup ToSet(a) \cup ToSet(b)
    <2>1. plan[r] \in Seq(Repairs(m)) /\ applied'[r] = 0
        BY <1>1, <1>5, <1>6
    <2>2. Outstanding(r)' = Outstanding(r) \cup ToSet(s)
        BY <1>4, <1>5, <1>6, <2>1, OutstandingGrows
    <2> QED
        BY <1>2, <1>4, <2>2, SetOfJoined
<1>8. /\ \A e \in found : /\ e.id \in DOMAIN rulesets /\ e.key = Key(rulesets[e.id])
                          /\ e.content = rulesets[e.id]
      /\ OnePage => \A n \in DOMAIN rulesets : Key(rulesets[n]) \in ManagedKeys(m) =>
            /\ \E e \in found : e.id = n
            /\ \A k \in DOMAIN rulesets : Key(rulesets[k]) = Key(rulesets[n]) => k = n
    <2>1. listed[r] \cup managed[r] = found
        BY <1>2, <1>5
    <2> QED
        BY <1>1, <1>2, <1>5, <2>1 DEF Undisturbed, Faithful
<1>9. ASSUME NEW t \in RulesetTargets, NEW change, change = RulesetChange(found, m, t)
      PROVE  /\ \A operation \in ToSet(change) :
                   /\ Timely(operation)
                   /\ OnePage => \E part \in Work(m) : Fixes(operation, part)
             /\ OnePage /\ (~\E n \in DOMAIN rulesets : AsAsked(rulesets[n], m, t)) =>
                   \E operation \in ToSet(change) : Fixes(operation, <<"ruleset", t>>)
    BY <1>8, <1>9, RulesetChangeSet DEF AllHonest
<1>10. ASSUME NEW part \in Work(m)
       PROVE  \/ Unseen(r, part)'
              \/ \E operation \in Outstanding(r)' : Fixes(operation, part)
    <2>1. CASE \E t \in RulesetTargets : part = <<"ruleset", t>>
        <3>1. PICK t \in RulesetTargets :
                 part = <<"ruleset", t>> /\ ~\E n \in DOMAIN rulesets : AsAsked(rulesets[n], m, t)
            BY <1>10, <2>1, WorkKinds
        <3>2. CASE ~OnePage
            BY <1>5, <3>1, <3>2 DEF Unseen, OnePage, github
        <3>3. CASE OnePage
            BY <1>2, <1>3, <1>7, <1>9, <3>1, <3>3
        <3> QED
            BY <3>2, <3>3
    <2>2. CASE ~\E t \in RulesetTargets : part = <<"ruleset", t>>
        BY <1>1, <1>5, <1>7, <1>10, <2>2 DEF Undisturbed, Covered, Unseen
    <2> QED
        BY <2>1, <2>2
<1>11. OnePage => \A operation \in Outstanding(r)' : \E part \in Work(m) : Fixes(operation, part)
    <2>1. OnePage => \A operation \in Outstanding(r) : \E part \in Work(m) : Fixes(operation, part)
        BY <1>1, <1>6 DEF Undisturbed, Needed
    <2> QED
        BY <1>2, <1>3, <1>7, <1>9, <2>1
<1>12. \A operation \in Outstanding(r)' : Timely(operation)
    <2>1. \A operation \in Outstanding(r) : Timely(operation)
        BY <1>6 DEF Timely, OfRulesets
    <2> QED
        BY <1>2, <1>3, <1>7, <1>9, <2>1
<1>13. /\ Work(manifest[r])' = Work(m) /\ OnePage' = OnePage
       /\ \A operation : Timely(operation)' <=> Timely(operation)
    BY <1>1, <1>5, SameGitHub DEF Work, Drift, github, Timely, OnePage
<1>14. Covered(r)' /\ Needed(r)' /\ Pending(r)'
    BY <1>10, <1>11, <1>12, <1>13 DEF Covered, Needed, Pending
<1> QED
    BY <1>5, <1>14 DEF Undisturbed, Faithful

\* An operation that is applied leaves the others in time.
LEMMA TimelyAfter ==
    ASSUME NEW m \in Manifests, OnGitHub, OnGitHub', NEW operation \in Repairs(m),
           Perform(operation), Timely(operation),
           NEW other \in Repairs(m), Timely(other),
           OfRulesets(operation) /\ OfRulesets(other) =>
              operation.payload.target # other.payload.target
    PROVE  Timely(other)'
<1>1. /\ DOMAIN rulesets \subseteq DOMAIN rulesets'
      /\ \A n \in DOMAIN rulesets :
            \/ rulesets'[n] = rulesets[n]
            \/ /\ operation.kind = "update_ruleset" /\ operation.id = n
               /\ Key(rulesets'[n]) = Key(operation.payload)
      /\ \A n \in DOMAIN rulesets' \ DOMAIN rulesets :
            operation.kind = "create_ruleset" /\ Key(rulesets'[n]) = Key(operation.payload)
      /\ OfRulesets(operation) => operation.payload.target = Key(operation.payload)[2]
    BY RulesetsAfter
<1>2. \A n \in DOMAIN rulesets : Key(rulesets'[n]) = Key(rulesets[n])
    BY <1>1 DEF Timely
<1>3. OfRulesets(other) => other.payload.target = Key(other.payload)[2]
    <2>1. SUFFICES ASSUME OfRulesets(other)
                   PROVE  other.payload.target = Key(other.payload)[2]
        OBVIOUS
    <2>2. PICK t \in RulesetTargets : other.payload = Payload(m, t)
        BY <2>1, RepairKinds DEF OfRulesets
    <2> QED
        BY <2>2, PayloadParts DEF Key
<1>4. OnePage' => OnePage
    BY <1>1, PageFills
<1>5. ASSUME other.kind = "create_ruleset", OnePage', NEW n \in DOMAIN rulesets'
      PROVE  Key(rulesets'[n]) # Key(other.payload)
    <2>1. CASE n \in DOMAIN rulesets
        BY <1>2, <1>4, <1>5, <2>1 DEF Timely
    <2>2. CASE n \notin DOMAIN rulesets
        <3>1. /\ OfRulesets(operation) /\ OfRulesets(other)
              /\ Key(rulesets'[n]) = Key(operation.payload)
            BY <1>1, <1>5, <2>2 DEF OfRulesets
        <3> QED
            BY <1>1, <1>3, <3>1
    <2> QED
        BY <2>1, <2>2
<1>6. ASSUME other.kind = "update_ruleset"
      PROVE  other.id \in DOMAIN rulesets' /\ Key(rulesets'[other.id]) = Key(other.payload)
    BY <1>1, <1>2, <1>6 DEF Timely
<1> QED
    BY <1>5, <1>6 DEF Timely

\* The next operation leaves the list of what is outstanding.
LEMMA OutstandingShrinks ==
    ASSUME AllHonest, TypeOK, NEW r \in Runners, Staged(r), Remaining(r),
           applied' = [applied EXCEPT ![r] = @ + 1], UNCHANGED plan
    PROVE  /\ Operation(r) \in Outstanding(r)
           /\ Outstanding(r) = {Operation(r)} \cup Outstanding(r)'
           /\ \A other \in Outstanding(r)' :
                 OfRulesets(Operation(r)) /\ OfRulesets(other) =>
                    Operation(r).payload.target # other.payload.target
<1> USE OwnVariables
<1>1. PICK S : plan[r] \in Seq(S)
    OBVIOUS
<1>2. PICK p \in Seq(S), k \in Nat : p = plan[r] /\ k = applied[r] /\ k < Len(p)
    BY <1>1 DEF Remaining
<1>3. applied'[r] = k + 1 /\ plan'[r] = p /\ Operation(r) = p[k + 1]
    BY <1>2 DEF Operation
<1>4. /\ Outstanding(r) = {p[j] : j \in {i \in DOMAIN p : i > k}}
      /\ Outstanding(r)' = {p[j] : j \in {i \in DOMAIN p : i > k + 1}}
    BY <1>2, <1>3 DEF Outstanding
<1>5. k + 1 \in DOMAIN p /\ \A j \in DOMAIN p : j \in Nat /\ (j > k <=> j = k + 1 \/ j > k + 1)
    BY <1>2
<1>6. \A i, j \in DOMAIN p :
          OfRulesets(p[i]) /\ OfRulesets(p[j]) /\ p[i].payload.target = p[j].payload.target => i = j
    BY <1>2 DEF Staged
<1>7. Operation(r) \in Outstanding(r) /\ Outstanding(r) = {Operation(r)} \cup Outstanding(r)'
    BY <1>3, <1>4, <1>5
<1>8. ASSUME NEW other \in Outstanding(r)', OfRulesets(Operation(r)), OfRulesets(other),
             Operation(r).payload.target = other.payload.target
      PROVE  FALSE
    <2>1. PICK j \in DOMAIN p : j > k + 1 /\ other = p[j]
        BY <1>4, <1>8
    <2>2. j = k + 1
        BY <1>3, <1>5, <1>6, <1>8, <2>1
    <2> QED
        BY <2>1, <2>2
<1> QED
    BY <1>7, <1>8

\* A write of the run puts right what it is for, and what is left is still
\* covered.
LEMMA ChangeApplied ==
    ASSUME AllHonest, AllHonest', TypeOK, NEW r \in Runners, Staged(r), Undisturbed(r),
           ApplyChange(r)
    PROVE  Undisturbed(r)'
<1> USE OwnVariables
<1>1. /\ Remaining(r) /\ Perform(Operation(r)) /\ pc[r] = "planned"
      /\ applied' = [applied EXCEPT ![r] = @ + 1]
      /\ UNCHANGED <<pc, manifest, unread, listed, managed, plan>>
    BY DEF ApplyChange, Remaining
<1>2. PICK m \in Manifests : m = manifest[r] /\ Operation(r) \in Repairs(m)
    BY <1>1, OperationRepairs
<1>3. PICK operation \in Repairs(m) : operation = Operation(r)
    BY <1>2
<1>4. Perform(operation) /\ OnGitHub /\ OnGitHub'
    BY <1>1, <1>3 DEF AllHonest
<1>5. /\ Drift(m)' \subseteq Drift(m)
      /\ \A part : Fixes(operation, part) => part \notin Drift(m)'
    BY <1>4, PerformRepairs, FixedIsDone
<1>6. /\ operation \in Outstanding(r)
      /\ Outstanding(r) = {operation} \cup Outstanding(r)'
      /\ \A other \in Outstanding(r)' :
            OfRulesets(operation) /\ OfRulesets(other) =>
                operation.payload.target # other.payload.target
    BY <1>1, <1>3, OutstandingShrinks
<1>7. OnePage' => OnePage
    BY <1>4, RulesetsAfter, PageFills
<1>8. Work(manifest[r])' = Drift(m)' \ FollowUps(m, Private)
    BY <1>1, <1>2 DEF Work, Drift
<1>9. Covered(r)'
    <2>1. ASSUME NEW part \in Drift(m)' \ FollowUps(m, Private)
          PROVE  \/ Unseen(r, part)'
                 \/ \E other \in Outstanding(r)' : Fixes(other, part)
        <3>1. part \in Work(m) /\ ~Fixes(operation, part)
            BY <1>5, <2>1 DEF Work
        <3>2. \/ Unseen(r, part)
              \/ \E other \in Outstanding(r) : Fixes(other, part)
            BY <1>2, <3>1 DEF Undisturbed, Covered
        <3>3. Unseen(r, part) => Unseen(r, part)'
            BY <1>1, <1>7 DEF Unseen, Reading
        <3> QED
            BY <1>6, <3>1, <3>2, <3>3
    <2> QED
        BY <1>8, <2>1 DEF Covered
<1>10. Needed(r)'
    <2>1. applied'[r] = applied[r] + 1
        BY <1>1
    <2> QED
        BY <2>1 DEF Needed
<1>11. Pending(r)'
    <2>1. ASSUME NEW other \in Outstanding(r)'
          PROVE  Timely(other)'
        <3>1. Timely(operation) /\ Timely(other)
            BY <1>1, <1>6, <2>1 DEF Undisturbed, Pending
        <3>2. other \in Repairs(m)
            <4>1. plan[r] \in Seq(Repairs(m))
                BY <1>2
            <4>2. other \in Outstanding(r)
                BY <1>6, <2>1
            <4> QED
                BY <4>1, <4>2 DEF Outstanding
        <3> QED
            BY <1>4, <1>6, <2>1, <3>1, <3>2, TimelyAfter
    <2> QED
        BY <2>1 DEF Pending
<1> QED
    BY <1>1, <1>9, <1>10, <1>11 DEF Undisturbed, Faithful

\* A step that neither reads nor writes.
LEMMA QuietUndisturbed ==
    ASSUME NEW r, Undisturbed(r), pc'[r] \notin {"rulesets", "planned"},
           pc'[r] \in Reading <=> pc[r] \in Reading,
           UNCHANGED <<github, manifest, unread, plan, applied>>
    PROVE  Undisturbed(r)'
<1>1. PICK m : m = manifest[r]
    OBVIOUS
<1>2. /\ Work(manifest[r])' = Work(m) /\ OnePage' = OnePage
      /\ Outstanding(r)' = Outstanding(r)
    BY <1>1, SameGitHub DEF Work, Drift, github, Outstanding
<1>3. \A part : Unseen(r, part)' <=> Unseen(r, part)
    BY <1>2 DEF Unseen
<1>4. Covered(r)' /\ Needed(r)'
    BY <1>1, <1>2, <1>3 DEF Undisturbed, Covered, Needed
<1> QED
    BY <1>4 DEF Undisturbed, Faithful, Pending

LEMMA ConvergingStep ==
    ASSUME AllHonest, AllHonest', TypeOK, NEW r \in Runners, Converging(r),
           Run(r) \/ CallFails(r) \/ AnswerLost(r)
    PROVE  Converging(r)'
<1> USE OwnVariables
<1>1. Staged(r)'
    BY StagedStep DEF Converging
<1> SUFFICES ASSUME alone'[r], pc'[r] # "failed"
             PROVE  Undisturbed(r)'
    BY <1>1 DEF Converging
<1>2. ASSUME alone'[r] => alone[r]
      PROVE  alone[r] /\ pc[r] \notin {"idle", "loaded", "authenticated"}
    BY <1>2 DEF Converging, Staged
<1>3. CASE LoadManifest(r) \/ ResolveToken(r)
    BY <1>2, <1>3 DEF LoadManifest, ResolveToken
<1>4. CASE GetRepository(r)
    BY <1>4, RepositoryRead DEF Converging
<1>5. CASE CallFails(r) \/ AnswerLost(r) \/ ApplyRefused(r)
    BY <1>5 DEF CallFails, AnswerLost, ApplyRefused, Goto
<1>6. ASSUME alone[r], pc[r] # "failed"
      PROVE  Undisturbed(r) /\ Staged(r)
    BY <1>6 DEF Converging
<1>7. CASE GetToggleState(r)
    BY <1>6, <1>7, ToggleRead DEF GetToggleState
<1>8. CASE BuildRulesets(r)
    <2>1. /\ pc[r] = "toggles" /\ pc'[r] = "listing" /\ alone[r]
          /\ UNCHANGED <<github, manifest, unread, plan, applied>>
        BY <1>8 DEF BuildRulesets, Goto, runner
    <2> QED
        BY <1>6, <2>1, QuietUndisturbed DEF Reading
<1>9. CASE ListRulesets(r)
    BY <1>6, <1>9, ListRead DEF ListRulesets
<1>10. CASE GetRuleset(r)
    BY <1>6, <1>10, RulesetRead DEF GetRuleset
<1>11. CASE PlanRulesets(r)
    BY <1>6, <1>11, RulesetsPlanned DEF PlanRulesets
<1>12. CASE ApplyChange(r)
    <2>1. alone[r] /\ pc[r] # "failed"
        BY <1>12 DEF ApplyChange, WrittenBy, Remaining
    <2> QED
        BY <1>6, <1>12, <2>1, ChangeApplied
<1>13. CASE Report(r)
    <2>1. /\ pc[r] = "planned" /\ pc'[r] = "ok" /\ alone[r]
          /\ UNCHANGED <<github, manifest, unread, plan, applied>>
        BY <1>13 DEF Report, Goto, runner
    <2> QED
        BY <1>6, <2>1, QuietUndisturbed DEF Reading
<1> QED
    BY <1>3, <1>4, <1>5, <1>7, <1>8, <1>9, <1>10, <1>11, <1>12, <1>13 DEF Run

----------------------------------------------------------------------------
(* Runs converge                                                           *)

\* What others do leaves a run as it is, and takes its claim to be alone if it
\* is a write.
LEMMA ConvergingKept ==
    ASSUME NEW r, Converging(r),
           pc'[r] = pc[r], manifest'[r] = manifest[r], unread'[r] = unread[r],
           listed'[r] = listed[r], managed'[r] = managed[r], plan'[r] = plan[r],
           applied'[r] = applied[r],
           alone'[r] => alone[r] /\ UNCHANGED github
    PROVE  Converging(r)'
<1>1. Staged(r)'
    BY StagedKept DEF Converging
<1> SUFFICES ASSUME alone'[r], pc'[r] # "failed"
             PROVE  Undisturbed(r)'
    BY <1>1 DEF Converging
<1>2. Undisturbed(r) /\ UNCHANGED github
    BY DEF Converging
<1>3. PICK m : m = manifest[r]
    OBVIOUS
<1>4. /\ Work(manifest[r])' = Work(m) /\ OnePage' = OnePage
      /\ Outstanding(r)' = Outstanding(r)
      /\ \A operation : Timely(operation)' <=> Timely(operation)
    BY <1>2, <1>3, SameGitHub DEF Work, Drift, github, Outstanding, Timely, OnePage
<1>5. \A part : Unseen(r, part)' <=> Unseen(r, part)
    BY <1>4 DEF Unseen
<1>6. Covered(r)' /\ Needed(r)' /\ Pending(r)'
    BY <1>2, <1>3, <1>4, <1>5 DEF Undisturbed, Covered, Needed, Pending
<1>7. Faithful(r)'
    BY <1>2, <1>4 DEF Undisturbed, Faithful, github
<1> QED
    BY <1>6, <1>7 DEF Undisturbed

LEMMA OthersKept ==
    ASSUME AllHonest, TypeOK, NEW q \in Runners, Run(q) \/ CallFails(q) \/ AnswerLost(q),
           NEW r \in Runners \ {q}
    PROVE  /\ pc'[r] = pc[r] /\ manifest'[r] = manifest[r] /\ unread'[r] = unread[r]
           /\ listed'[r] = listed[r] /\ managed'[r] = managed[r] /\ plan'[r] = plan[r]
           /\ applied'[r] = applied[r]
           /\ alone'[r] => alone[r] /\ UNCHANGED github
<1> USE OwnVariables
<1>1. CASE ApplyChange(q) \/ AnswerLost(q)
    BY <1>1 DEF ApplyChange, AnswerLost, WrittenBy, Goto, runner
<1>2. CASE LoadManifest(q) \/ ResolveToken(q) \/ BuildRulesets(q) \/ ListRulesets(q)
           \/ ApplyRefused(q) \/ Report(q) \/ CallFails(q)
    BY <1>2 DEF LoadManifest, ResolveToken, BuildRulesets, ListRulesets, ApplyRefused,
                Report, CallFails, Goto, runner
<1>3. CASE GetRepository(q)
    BY <1>3 DEF GetRepository, Planned, Goto
<1>4. CASE GetToggleState(q)
    BY <1>4 DEF GetToggleState, Planned, Goto
<1>5. CASE GetRuleset(q)
    BY <1>5 DEF GetRuleset, Goto
<1>6. CASE PlanRulesets(q)
    BY <1>6 DEF PlanRulesets, Planned, Goto
<1> QED
    BY <1>1, <1>2, <1>3, <1>4, <1>5, <1>6 DEF Run

LEMMA ConvergingInductive == Core /\ [Next]_vars => Core'
<1> SUFFICES ASSUME Core, [Next]_vars
             PROVE  Core'
    OBVIOUS
<1>1. TypeOK' /\ AllHonest'
    BY TypeInductive, HonestInductive DEF Core
<1>2. ASSUME NEW q \in Runners, Run(q) \/ CallFails(q) \/ AnswerLost(q), NEW r \in Runners
      PROVE  Converging(r)'
    <2>1. CASE r = q
        BY <1>1, <1>2, <2>1, ConvergingStep DEF Core
    <2>2. CASE r # q
        BY <1>2, <2>2, OthersKept, ConvergingKept DEF Core
    <2> QED
        BY <2>1, <2>2
<1>3. ASSUME Edit, NEW r \in Runners
      PROVE  Converging(r)'
    <2>1. ~alone'[r] /\ UNCHANGED <<pc, manifest, unread, listed, managed, plan, applied>>
        BY <1>3 DEF Edit, WrittenBy, runner
    <2> QED
        BY <2>1, ConvergingKept DEF Core
<1>4. ASSUME UNCHANGED vars, NEW r \in Runners
      PROVE  Converging(r)'
    <2>1. UNCHANGED <<github, pc, manifest, unread, listed, managed, plan, applied, alone>>
        BY <1>4 DEF vars, runner
    <2> QED
        BY <2>1, ConvergingKept DEF Core
<1> QED
    BY <1>1, <1>2, <1>3, <1>4 DEF Core, Next, RunsEnded

LEMMA ConvergingInitially == Init => Core
<1> SUFFICES ASSUME Init
             PROVE  Core
    OBVIOUS
<1>1. TypeOK /\ AllHonest
    BY TypedInitially, HonestInitially
<1>2. ASSUME NEW r \in Runners
      PROVE  Staged(r) /\ ~alone[r]
    <2>1. /\ pc[r] = "idle" /\ managed[r] = {} /\ plan[r] = <<>> /\ applied[r] = 0 /\ ~alone[r]
        BY DEF Init, InitRuns
    <2> QED
        BY <2>1 DEF Staged, Reading, Ended
<1> QED
    BY <1>1, <1>2 DEF Core, Converging

LEMMA CoreHolds == Spec => []Core
BY ConvergingInitially, ConvergingInductive, PTL DEF Spec

\* A run that exits 0 in mode "apply" and that nobody interfered with leaves the
\* repository as its manifest asks, from whatever state it found it in.
THEOREM RunsConverge == Spec => []ApplyConverges
<1>1. Core => ApplyConverges
    <2> SUFFICES ASSUME Core, NEW r \in Runners, pc[r] = "ok", Mode[r] = "apply", alone[r], OnePage
                 PROVE  Satisfied(manifest[r])
        BY DEF ApplyConverges
    <2>1. Staged(r) /\ Undisturbed(r)
        BY DEF Core, Converging
    <2>2. unread[r] = {} /\ applied[r] = Len(plan[r])
        BY <2>1 DEF Staged
    <2>3. plan[r] \in Seq(Repairs(manifest[r]))
        BY OwnVariables DEF Core
    <2>4. Outstanding(r) = {}
        BY <2>2, <2>3 DEF Outstanding
    <2>5. \A part : ~Unseen(r, part)
        BY <2>2 DEF Unseen, Reading
    <2>6. Work(manifest[r]) = {}
        BY <2>1, <2>4, <2>5 DEF Undisturbed, Covered
    <2> QED
        BY <2>6 DEF Work, Satisfied
<1> QED
    BY <1>1, CoreHolds, PTL

\* The plan of a run that nobody interfered with is empty exactly when nothing is
\* left to do, whatever GitHub adds to a ruleset or leaves out of it.
THEOREM PlansMeanDrift == Spec => []PlanMeansDrift
<1>1. Core => PlanMeansDrift
    <2> SUFFICES ASSUME Core, NEW r \in Runners, alone[r], OnePage,
                        IF Mode[r] = "plan" THEN pc[r] = "ok"
                                            ELSE pc[r] = "planned" /\ applied[r] = 0
                 PROVE  plan[r] = <<>> <=> Satisfied(manifest[r])
        BY DEF PlanMeansDrift
    <2>1. Staged(r) /\ Undisturbed(r) /\ pc[r] \in {"ok", "planned"}
        BY DEF Core, Converging
    <2>2. unread[r] = {} /\ applied[r] = 0
        BY <2>1 DEF Staged
    <2>3. PICK S : plan[r] \in Seq(S)
        BY OwnVariables DEF Core
    <2>4. Outstanding(r) = {} <=> plan[r] = <<>>
        <3>1. PICK p \in Seq(S) : p = plan[r]
            BY <2>3
        <3>2. Outstanding(r) = {p[j] : j \in DOMAIN p}
            <4>1. {k \in DOMAIN p : k > 0} = DOMAIN p
                BY <3>1
            <4> QED
                BY <2>2, <3>1, <4>1 DEF Outstanding
        <3>3. p = <<>> <=> DOMAIN p = {}
            OBVIOUS
        <3> QED
            BY <3>1, <3>2, <3>3
    <2>5. \A part : ~Unseen(r, part)
        BY <2>1, <2>2 DEF Unseen, Reading
    <2>6. /\ \A part \in Work(manifest[r]) :
                \E operation \in Outstanding(r) : Fixes(operation, part)
          /\ \A operation \in Outstanding(r) :
                \E part \in Work(manifest[r]) : Fixes(operation, part)
        BY <2>1, <2>2, <2>5 DEF Undisturbed, Covered, Needed
    <2>7. Outstanding(r) = {} <=> Work(manifest[r]) = {}
        BY <2>6
    <2> QED
        BY <2>4, <2>7 DEF Work, Satisfied
<1> QED
    BY <1>1, CoreHolds, PTL

----------------------------------------------------------------------------
(* Where updates come from, and what duplicates do                         *)

LEMMA SourcedAppended ==
    ASSUME NEW r, Sourced(r), NEW S, NEW p \in Seq(S), NEW operations \in Seq(S),
           p = plan[r], plan'[r] = p \o operations, managed'[r] = managed[r],
           \A j \in DOMAIN operations : operations[j].kind = "update_ruleset" =>
               \E e \in managed[r] : /\ e.id = operations[j].id
                                     /\ e.key = Key(operations[j].payload)
    PROVE  Sourced(r)'
<1> DEFINE FromList(change) == change.kind = "update_ruleset" =>
        \E e \in managed[r] : e.id = change.id /\ e.key = Key(change.payload)
<1>1. PICK q : q = p \o operations
    OBVIOUS
<1>2. \A j \in DOMAIN p : FromList(p[j])
    BY DEF Sourced
<1>3. \A j \in DOMAIN operations : FromList(operations[j])
    OBVIOUS
<1>4. \A j \in DOMAIN q : \/ j \in DOMAIN p /\ q[j] = p[j]
                          \/ j - Len(p) \in DOMAIN operations /\ q[j] = operations[j - Len(p)]
    BY <1>1, Appended
<1> HIDE DEF FromList
<1>5. \A j \in DOMAIN q : FromList(q[j])
    BY <1>2, <1>3, <1>4
<1>6. plan'[r] = q
    BY <1>1
<1> QED
    BY <1>5, <1>6 DEF Sourced, FromList, Key

\* Updates are planned for what was fetched under the key of the payload.
LEMMA RulesetChangeSourced ==
    ASSUME NEW m, NEW t, NEW found, NEW s, s = RulesetChange(found, m, t)
    PROVE  \A j \in DOMAIN s : s[j].kind = "update_ruleset" =>
               \E e \in found : e.id = s[j].id /\ e.key = Key(s[j].payload)
<1>1. CASE s = <<>>
    BY <1>1
<1>2. CASE s = <<[kind |-> "create_ruleset", payload |-> Payload(m, t)]>>
    BY <1>2
<1>3. ASSUME NEW f \in found, f.key = Key(Payload(m, t)),
             s = <<[kind |-> "update_ruleset", id |-> f.id, payload |-> Payload(m, t)]>>
      PROVE  \A j \in DOMAIN s : /\ s[j].id = f.id
                                 /\ f.key = Key(s[j].payload)
    <2>1. DOMAIN s = {1} /\ s[1].id = f.id /\ s[1].payload = Payload(m, t)
        BY <1>3
    <2> QED
        BY <1>3, <2>1
<1> QED
    BY <1>1, <1>2, <1>3, RulesetChangeFinds

LEMMA SourcedStep ==
    ASSUME Core, NEW r \in Runners, Sourced(r), Run(r) \/ CallFails(r) \/ AnswerLost(r)
    PROVE  Sourced(r)'
<1> USE OwnVariables DEF Core
<1>1. CASE LoadManifest(r) \/ ResolveToken(r) \/ BuildRulesets(r) \/ ListRulesets(r)
           \/ ApplyChange(r) \/ ApplyRefused(r) \/ Report(r) \/ CallFails(r) \/ AnswerLost(r)
    <2>1. UNCHANGED <<plan, managed>>
        BY <1>1 DEF LoadManifest, ResolveToken, BuildRulesets, ListRulesets, ApplyChange,
                    ApplyRefused, Report, CallFails, AnswerLost, runner
    <2> QED
        BY <2>1 DEF Sourced, Key
<1>2. CASE GetRuleset(r)
    <2>1. UNCHANGED plan /\ managed[r] \subseteq managed'[r]
        BY <1>2 DEF GetRuleset
    <2> QED
        BY <2>1 DEF Sourced, Key
<1>3. CASE GetRepository(r)
    <2>1. PICK m \in Manifests : m = manifest[r]
        BY <1>3 DEF GetRepository, AllHonest, Honest, Ended
    <2>2. PICK a, b, asked : /\ a = SettingsChange(m) /\ asked = AdvancedSecurity(m, Private)
                             /\ b = ToggleChange(asked, "advanced_security")
        OBVIOUS
    <2>3. plan'[r] = plan[r] \o (a \o b) /\ managed'[r] = managed[r]
        BY <1>3, <2>1, <2>2 DEF GetRepository, Planned
    <2>4. a \in Seq(Repairs(m)) /\ b \in Seq(Repairs(m))
        <3>1. /\ DOMAIN asked \subseteq DOMAIN AskedToggles(m)
              /\ \A u \in DOMAIN asked : asked[u] = AskedToggles(m)[u]
              /\ "advanced_security" \in DOMAIN asked => Private
            BY <2>1, <2>2, TogglesAsked
        <3> QED
            BY <2>2, <3>1, SettingsChangeRepairs, ToggleChangeRepairs DEF AllHonest
    <2>5. \A j \in DOMAIN (a \o b) : (a \o b)[j].kind # "update_ruleset"
        <3>1. /\ \A j \in DOMAIN a : a[j].kind # "update_ruleset"
              /\ \A j \in DOMAIN b : b[j].kind # "update_ruleset"
            BY <2>2, OtherChanges DEF OfRulesets
        <3> QED
            BY <2>4, <3>1, Appended
    <2>6. PICK p, s : p = plan[r] /\ s = a \o b
        OBVIOUS
    <2>7. p \in Seq(Repairs(m)) /\ s \in Seq(Repairs(m))
        BY <2>1, <2>4, <2>6
    <2> QED
        BY <2>3, <2>5, <2>6, <2>7, SourcedAppended
<1>4. CASE GetToggleState(r)
    <2>1. PICK m \in Manifests : m = manifest[r]
        BY <1>4 DEF GetToggleState, AllHonest, Honest, Ended
    <2>2. PICK t \in unread[r] :
             \/ Planned(r, ToggleChange(DesiredToggles(m), t))
             \/ UNCHANGED plan
        BY <1>4, <2>1 DEF GetToggleState
    <2>3. managed'[r] = managed[r]
        BY <1>4 DEF GetToggleState
    <2>4. CASE UNCHANGED plan
        BY <2>3, <2>4 DEF Sourced, Key
    <2>5. CASE Planned(r, ToggleChange(DesiredToggles(m), t))
        <3>1. PICK a : a = ToggleChange(DesiredToggles(m), t)
            OBVIOUS
        <3>2. plan'[r] = plan[r] \o a
            BY <2>5, <3>1 DEF Planned
        <3>3. \A j \in DOMAIN a : a[j].kind # "update_ruleset"
            BY <3>1, OtherChanges DEF OfRulesets
        <3>4. a \in Seq(Repairs(m))
            <4>1. /\ DOMAIN DesiredToggles(m) \subseteq DOMAIN AskedToggles(m)
                  /\ \A u \in DOMAIN DesiredToggles(m) :
                        /\ AskedToggles(m)[u] = DesiredToggles(m)[u]
                        /\ u # "advanced_security"
                BY <2>1, TogglesAsked
            <4> QED
                BY <3>1, <4>1, ToggleChangeRepairs
        <3>5. PICK p : p = plan[r] /\ p \in Seq(Repairs(m))
            BY <2>1
        <3> QED
            BY <2>3, <3>2, <3>3, <3>4, <3>5, SourcedAppended
    <2> QED
        BY <2>2, <2>4, <2>5
<1>5. CASE PlanRulesets(r)
    <2>1. PICK m \in Manifests : m = manifest[r]
        BY <1>5 DEF PlanRulesets, AllHonest, Honest, Ended
    <2>2. PICK found, a, b : /\ found = managed[r]
                             /\ a = RulesetChange(found, m, "branch")
                             /\ b = RulesetChange(found, m, "tag")
        OBVIOUS
    <2>3. plan'[r] = plan[r] \o (a \o b) /\ managed'[r] = managed[r]
        BY <1>5, <2>1, <2>2 DEF PlanRulesets, Planned
    <2>4. a \in Seq(Repairs(m)) /\ b \in Seq(Repairs(m))
        <3>1. \A e \in found : e.id \in Slots(e.key[2])
            BY <2>2 DEF AllHonest, Honest
        <3> QED
            BY <2>2, <3>1, RulesetChangeRepairs DEF RulesetTargets
    <2>5. \A j \in DOMAIN (a \o b) : (a \o b)[j].kind = "update_ruleset" =>
             \E e \in found : /\ e.id = (a \o b)[j].id
                              /\ e.key = Key((a \o b)[j].payload)
        <3>1. /\ \A j \in DOMAIN a : a[j].kind = "update_ruleset" =>
                    \E e \in found : e.id = a[j].id /\ e.key = Key(a[j].payload)
              /\ \A j \in DOMAIN b : b[j].kind = "update_ruleset" =>
                    \E e \in found : e.id = b[j].id /\ e.key = Key(b[j].payload)
            BY <2>2, RulesetChangeSourced
        <3>2. PICK s : s = a \o b
            OBVIOUS
        <3>3. \A j \in DOMAIN s : \/ j \in DOMAIN a /\ s[j] = a[j]
                                  \/ j - Len(a) \in DOMAIN b /\ s[j] = b[j - Len(a)]
            BY <2>4, <3>2, Appended
        <3>4. \A j \in DOMAIN s : s[j].kind = "update_ruleset" =>
                 \E e \in found : e.id = s[j].id /\ e.key = Key(s[j].payload)
            BY <3>1, <3>3
        <3> QED
            BY <3>2, <3>4
    <2>6. PICK p, s : p = plan[r] /\ s = a \o b
        OBVIOUS
    <2>7. p \in Seq(Repairs(m)) /\ s \in Seq(Repairs(m))
        BY <2>1, <2>4, <2>6
    <2>8. /\ plan'[r] = p \o s
          /\ \A j \in DOMAIN s : s[j].kind = "update_ruleset" =>
                \E e \in managed[r] : e.id = s[j].id /\ e.key = Key(s[j].payload)
        BY <2>2, <2>3, <2>5, <2>6
    <2> QED
        BY <2>3, <2>6, <2>7, <2>8, SourcedAppended
<1> QED
    BY <1>1, <1>2, <1>3, <1>4, <1>5 DEF Run

LEMMA AmbiguousLists ==
    ASSUME NEW m, NEW found
    PROVE  Ambiguous({[id |-> n, key |-> Key(found[n])] :
                         n \in {k \in DOMAIN found : Key(found[k]) \in ManagedKeys(m)}})
               <=> \E n, k \in DOMAIN found :
                      n # k /\ Key(found[n]) = Key(found[k]) /\ Key(found[n]) \in ManagedKeys(m)
<1> DEFINE Entry(n) == [id |-> n, key |-> Key(found[n])]
           named == {k \in DOMAIN found : Key(found[k]) \in ManagedKeys(m)}
           entries == {Entry(n) : n \in named}
<1>1. \A n : Entry(n).id = n /\ Entry(n).key = Key(found[n])
    OBVIOUS
<1>2. ASSUME Ambiguous(entries)
      PROVE  \E n, k \in named : n # k /\ Key(found[n]) = Key(found[k])
    <2>1. PICK e \in entries, f \in entries : e # f /\ e.key = f.key
        BY <1>2 DEF Ambiguous
    <2>2. PICK n \in named, k \in named : e = Entry(n) /\ f = Entry(k)
        BY <2>1
    <2> HIDE DEF Entry, named
    <2> QED
        BY <1>1, <2>1, <2>2
<1>3. ASSUME NEW n \in named, NEW k \in named, n # k, Key(found[n]) = Key(found[k])
      PROVE  Ambiguous(entries)
    <2>1. Entry(n) \in entries /\ Entry(k) \in entries
        OBVIOUS
    <2> HIDE DEF Entry, entries
    <2> QED
        BY <1>1, <1>3, <2>1 DEF Ambiguous
<1> QED
    BY <1>2, <1>3

\* A repair that comes in time makes no duplicate.
LEMMA TimelyMakesNoDuplicate ==
    ASSUME OnGitHub, OnePage, NEW q \in Manifests, NEW operation \in Repairs(q),
           Perform(operation), Timely(operation), NEW m, Ambiguity(m)'
    PROVE  Ambiguity(m)
<1>1. PICK now : now = rulesets'
    OBVIOUS
<1>2. /\ DOMAIN rulesets \subseteq DOMAIN now
      /\ \A n \in DOMAIN rulesets : Key(now[n]) = Key(rulesets[n])
      /\ \A n \in DOMAIN now \ DOMAIN rulesets :
            /\ n = nextId
            /\ \A k \in DOMAIN rulesets : Key(rulesets[k]) # Key(now[n])
    <2>1. /\ DOMAIN rulesets \subseteq DOMAIN now
          /\ \A n \in DOMAIN rulesets :
                \/ now[n] = rulesets[n]
                \/ /\ operation.kind = "update_ruleset" /\ operation.id = n
                   /\ Key(now[n]) = Key(operation.payload)
          /\ \A n \in DOMAIN now \ DOMAIN rulesets :
                /\ operation.kind = "create_ruleset" /\ n = nextId
                /\ Key(now[n]) = Key(operation.payload)
        BY <1>1, RulesetsAfter
    <2> QED
        BY <2>1 DEF Timely
<1>3. PICK n \in DOMAIN now, k \in DOMAIN now :
         n # k /\ Key(now[n]) = Key(now[k]) /\ Key(now[n]) \in ManagedKeys(m)
    BY <1>1, AmbiguousLists DEF Ambiguity
<1>4. n \in DOMAIN rulesets /\ k \in DOMAIN rulesets
    BY <1>2, <1>3
<1>5. Key(rulesets[n]) = Key(rulesets[k]) /\ Key(rulesets[n]) \in ManagedKeys(m)
    BY <1>2, <1>3, <1>4
<1> QED
    BY <1>3, <1>4, <1>5, AmbiguousLists DEF Ambiguity

\* The next operation of a run is a repair of its manifest, in time if it is
\* alone, and an update is of a ruleset it has fetched under the payload's key.
LEMMA NextOperation ==
    ASSUME Core, NEW r \in Runners, Remaining(r)
    PROVE  \E m \in Manifests : \E operation \in Repairs(m) :
              /\ m = manifest[r] /\ operation = Operation(r)
              /\ alone[r] => Timely(operation)
              /\ Sourced(r) /\ operation.kind = "update_ruleset" =>
                    \E e \in managed[r] : e.id = operation.id /\ e.key = Key(operation.payload)
<1>1. PICK m \in Manifests : m = manifest[r] /\ Operation(r) \in Repairs(m)
    BY OperationRepairs DEF Core
<1>2. PICK S : plan[r] \in Seq(S)
    BY OwnVariables DEF Core
<1>3. /\ applied[r] \in Nat /\ applied[r] + 1 \in DOMAIN plan[r]
      /\ applied[r] + 1 > applied[r]
    BY <1>2, OwnVariables DEF Core, Remaining
<1>4. alone[r] => Timely(Operation(r))
    <2>1. ASSUME alone[r]
          PROVE  Pending(r)
        BY <2>1 DEF Core, Converging, Undisturbed, Remaining
    <2>2. Operation(r) \in Outstanding(r)
        BY <1>3 DEF Outstanding, Operation
    <2> QED
        BY <2>1, <2>2 DEF Pending, Remaining
<1>5. Sourced(r) /\ Operation(r).kind = "update_ruleset" =>
         \E e \in managed[r] : e.id = Operation(r).id /\ e.key = Key(Operation(r).payload)
    BY <1>3 DEF Sourced, Operation
<1> QED
    BY <1>1, <1>4, <1>5

\* A run that is alone and sees all rulesets goes on past the list only if no two
\* of them are ambiguous.
LEMMA UnambiguousStep ==
    ASSUME Core, Core', AmbiguityStopsRuns,
           NEW q \in Runners, Run(q) \/ CallFails(q) \/ AnswerLost(q),
           NEW r \in Runners, alone'[r], OnePage', pc'[r] \in {"planned", "ok"}
    PROVE  ~Ambiguity(manifest[r])'
<1> USE OwnVariables DEF Core
<1>1. ASSUME pc[r] \in {"planned", "ok"}, alone[r], UNCHANGED github,
             manifest'[r] = manifest[r]
      PROVE  ~Ambiguity(manifest[r])'
    <2>1. ~Ambiguity(manifest[r])
        BY <1>1 DEF AmbiguityStopsRuns, OnePage, github
    <2> QED
        BY <1>1, <2>1 DEF Ambiguity, github
<1>2. CASE r # q
    <2>1. pc'[r] = pc[r] /\ manifest'[r] = manifest[r] /\ alone[r] /\ UNCHANGED github
        BY <1>2, OthersKept
    <2> QED
        BY <1>1, <2>1
<1>3. CASE r = q /\ Report(r)
    <2>1. pc[r] = "planned" /\ alone[r] /\ UNCHANGED <<github, manifest>>
        BY <1>3 DEF Report, runner
    <2> QED
        BY <1>1, <2>1
<1>4. CASE r = q /\ PlanRulesets(r)
    <2>1. PICK m \in Manifests : m = manifest[r]
        BY <1>4 DEF PlanRulesets, AllHonest, Honest, Ended
    <2>2. /\ pc[r] = "rulesets" /\ alone[r] /\ UNCHANGED <<github, manifest>>
        BY <1>4 DEF PlanRulesets
    <2>3. OnePage
        BY <2>2 DEF OnePage, github
    <2>4. \A n \in DOMAIN rulesets : Key(rulesets[n]) \in ManagedKeys(m) =>
             \A k \in DOMAIN rulesets : Key(rulesets[k]) = Key(rulesets[n]) => k = n
        BY <2>1, <2>2, <2>3 DEF Converging, Undisturbed, Faithful
    <2>5. ~Ambiguity(m)
        BY <2>4, AmbiguousLists DEF Ambiguity
    <2> QED
        BY <2>1, <2>2, <2>5 DEF Ambiguity, github
<1>5. CASE r = q /\ ApplyChange(r)
    <2>1. /\ Remaining(r) /\ pc[r] = "planned" /\ alone[r]
          /\ Perform(Operation(r)) /\ manifest'[r] = manifest[r]
        BY <1>5 DEF ApplyChange, Remaining, WrittenBy
    <2>2. PICK m, operation : m \in Manifests /\ operation \in Repairs(m)
              /\ m = manifest[r] /\ operation = Operation(r)
              /\ (alone[r] => Timely(operation))
        BY <2>1, NextOperation
    <2>3. OnGitHub /\ OnGitHub'
        BY DEF AllHonest
    <2>4. DOMAIN rulesets \subseteq DOMAIN rulesets'
        BY <2>1, <2>2, <2>3, RulesetsAfter
    <2>5. OnePage
        BY <2>3, <2>4, PageFills
    <2>6. ~Ambiguity(m)
        BY <2>1, <2>2, <2>5 DEF AmbiguityStopsRuns
    <2>7. ~Ambiguity(m)'
        BY <2>1, <2>2, <2>3, <2>5, <2>6, TimelyMakesNoDuplicate
    <2> QED
        BY <2>1, <2>2, <2>7 DEF Ambiguity
<1>6. CASE r = q /\ (\/ LoadManifest(r) \/ ResolveToken(r) \/ GetRepository(r)
                     \/ GetToggleState(r) \/ BuildRulesets(r) \/ ListRulesets(r)
                     \/ GetRuleset(r) \/ ApplyRefused(r) \/ CallFails(r) \/ AnswerLost(r))
    <2>1. pc'[r] \notin {"planned", "ok"}
        BY <1>6
        DEF LoadManifest, ResolveToken, GetRepository, GetToggleState, BuildRulesets,
            ListRulesets, GetRuleset, ApplyRefused, CallFails, AnswerLost, Goto
    <2> QED
        BY <2>1
<1> QED
    BY <1>2, <1>3, <1>4, <1>5, <1>6 DEF Run

LEMMA InvariantInductive == IInv /\ [Next]_vars => IInv'
<1> SUFFICES ASSUME IInv, [Next]_vars
             PROVE  IInv'
    OBVIOUS
<1>1. Core /\ Core'
    BY ConvergingInductive DEF IInv
<1>2. ASSUME NEW q \in Runners, Run(q) \/ CallFails(q) \/ AnswerLost(q), NEW r \in Runners
      PROVE  Sourced(r)'
    <2>1. CASE r = q
        BY <1>1, <1>2, <2>1, SourcedStep DEF IInv
    <2>2. CASE r # q
        <3>1. plan'[r] = plan[r] /\ managed'[r] = managed[r]
            BY <1>1, <1>2, <2>2, OthersKept DEF Core
        <3> QED
            BY <3>1 DEF IInv, Sourced, Key
    <2> QED
        BY <2>1, <2>2
<1>3. ASSUME NEW q \in Runners, Run(q) \/ CallFails(q) \/ AnswerLost(q)
      PROVE  AmbiguityStopsRuns'
    <2> SUFFICES ASSUME NEW r \in Runners, alone'[r], OnePage', pc'[r] \in {"planned", "ok"}
                 PROVE  ~Ambiguity(manifest[r])'
        BY DEF AmbiguityStopsRuns
    <2> QED
        BY <1>1, <1>3, UnambiguousStep DEF IInv
<1>4. CASE Edit
    <2>1. /\ \A r \in Runners : ~alone'[r]
          /\ UNCHANGED <<plan, managed>>
        BY <1>4 DEF Edit, WrittenBy, runner
    <2> QED
        BY <1>1, <2>1 DEF IInv, AmbiguityStopsRuns, Sourced, Key
<1>5. CASE UNCHANGED vars
    <2>1. UNCHANGED <<rulesets, pc, manifest, managed, plan, alone>>
        BY <1>5 DEF vars, runner, github
    <2> QED
        BY <1>1, <2>1 DEF IInv, AmbiguityStopsRuns, Sourced, Key, OnePage, Ambiguity
<1> QED
    BY <1>1, <1>2, <1>3, <1>4, <1>5 DEF IInv, Next, RunsEnded

\* The inductive invariant: plans hold only repairs of rulesets that were fetched,
\* and for a run that nobody disturbs, what is wrong is yet to be seen or yet to be
\* applied, and nothing is there twice.
THEOREM ConfiguratorInvariant == Spec => []IInv
<1>1. Init => IInv
    <2> SUFFICES ASSUME Init
                 PROVE  IInv
        OBVIOUS
    <2>1. \A r \in Runners : plan[r] = <<>> /\ ~alone[r]
        BY DEF Init, InitRuns
    <2> QED
        BY <2>1, ConvergingInitially DEF IInv, AmbiguityStopsRuns, Sourced
<1> QED
    BY <1>1, InvariantInductive, PTL DEF Spec

\* After a race has made a duplicate, no later run goes on, or claims success,
\* that nobody interferes with.
THEOREM DuplicatesStopRuns == Spec => []AmbiguityStopsRuns
<1>1. IInv => AmbiguityStopsRuns
    BY DEF IInv
<1> QED
    BY <1>1, ConfiguratorInvariant, PTL

----------------------------------------------------------------------------
(* What runs leave alone                                                   *)

\* A write is the next operation of the run whose state moves with it.
LEMMA WriterPerforms ==
    ASSUME IInv, Next, NEW r \in Runners, Writes(r)
    PROVE  \E m \in Manifests : \E operation \in Repairs(m) :
              /\ m = manifest[r] /\ Perform(operation)
              /\ alone[r] => Timely(operation)
              /\ operation.kind = "update_ruleset" =>
                    \E e \in managed[r] : e.id = operation.id /\ e.key = Key(operation.payload)
<1>1. PICK q \in Runners : ApplyChange(q) \/ AnswerLost(q)
    BY DEF Next, Run, vars, runner, Writes, RunsEnded,
           LoadManifest, ResolveToken, GetRepository,
           GetToggleState, BuildRulesets, ListRulesets, GetRuleset, PlanRulesets,
           ApplyRefused, Report, CallFails, Edit
<1>2. q = r
    BY <1>1 DEF IInv, Core, AllHonest, OfRunners, Writes, ApplyChange, AnswerLost, Goto, runner
<1>3. Remaining(r) /\ Perform(Operation(r))
    BY <1>1, <1>2 DEF ApplyChange, AnswerLost
<1> QED
    BY <1>3, NextOperation DEF IInv

LEMMA SomeRunWrites ==
    ASSUME IInv, Next, edits' = edits, github' # github
    PROVE  \E r \in Runners : Writes(r)
<1>1. ~Edit
    <2>1. edits \in Nat
        BY ConfiguratorAssumption DEF IInv, Core, TypeOK
    <2> QED
        BY <2>1 DEF Edit
<1>2. PICK r \in Runners : ApplyChange(r) \/ AnswerLost(r)
    BY <1>1 DEF Next, Run, vars, runner, RunsEnded, LoadManifest, ResolveToken,
                GetRepository, GetToggleState, BuildRulesets, ListRulesets, GetRuleset,
                PlanRulesets, ApplyRefused, Report, CallFails
<1>3. applied'[r] # applied[r] \/ pc'[r] # pc[r]
    BY <1>2, OwnVariables DEF IInv, Core, ApplyChange, AnswerLost, Goto, Remaining
<1> QED
    BY <1>3 DEF Writes

\* Runs never touch a setting, a toggle or a ruleset no manifest names, nor the
\* Advanced Security of a public repository, and delete nothing: a ruleset of
\* another name is overwritten only by a run that fetched it under a name of its
\* own manifest, and that somebody wrote behind the back of.
THEOREM RestLeftAlone == Spec => LeavesTheRestAlone
<1> DEFINE Alone ==
        edits' = edits =>
          /\ \A f \in Fields : settings'[f] # settings[f] =>
                \E m \in Manifests : f \in DOMAIN AskedSettings(m)
          /\ \A t \in Toggles : toggles'[t] # toggles[t] =>
                /\ \E m \in Manifests : t \in DOMAIN AskedToggles(m)
                /\ t = "advanced_security" => Private
          /\ \A n \in DOMAIN rulesets :
                /\ n \in DOMAIN rulesets'
                /\ \/ rulesets'[n] = rulesets[n]
                   \/ \E m \in Manifests : Key(rulesets[n]) \in ManagedKeys(m)
                   \/ \E r \in Runners :
                         /\ Writes(r) /\ ~alone[r]
                         /\ \E e \in managed[r] :
                               e.id = n /\ e.key \in ManagedKeys(manifest[r])
<1>1. IInv /\ [Next]_vars => [Alone]_vars
    <2> SUFFICES ASSUME IInv, Next, edits' = edits
                 PROVE  Alone
        OBVIOUS
    <2>1. CASE github' = github
        BY <2>1 DEF github
    <2>2. CASE github' # github
        <3>1. PICK r \in Runners : Writes(r)
            BY <2>2, SomeRunWrites
        <3>2. PICK m, operation : m \in Manifests /\ operation \in Repairs(m)
                 /\ m = manifest[r] /\ Perform(operation)
                 /\ (alone[r] => Timely(operation))
                 /\ (operation.kind = "update_ruleset" =>
                       \E e \in managed[r] :
                           e.id = operation.id /\ e.key = Key(operation.payload))
            BY <3>1, WriterPerforms
        <3>3. OnGitHub
            BY DEF IInv, Core, AllHonest
        <3>4. ASSUME NEW f \in Fields, settings'[f] # settings[f]
              PROVE  f \in DOMAIN AskedSettings(m)
            <4>1. operation.kind = "patch_repository"
                BY <3>2, <3>4, RepairKinds
                DEF Perform, SetToggle, CreateRuleset, UpdateRuleset
            <4>2. PICK S \in SUBSET DOMAIN AskedSettings(m) :
                     operation.payload = Restrict(AskedSettings(m), S)
                BY <3>2, <4>1, RepairKinds
            <4>3. settings' = Over(operation.payload, settings)
                BY <3>2, <4>1 DEF Perform, PatchSettings
            <4>4. f \in S
                BY <3>3, <3>4, <4>2, <4>3 DEF Over, Restrict, OnGitHub
            <4> QED
                BY <4>4
        <3>5. ASSUME NEW t \in Toggles, toggles'[t] # toggles[t]
              PROVE  t \in DOMAIN AskedToggles(m) /\ (t = "advanced_security" => Private)
            <4>1. operation.kind = "toggle"
                BY <3>2, <3>5, RepairKinds
                DEF Perform, PatchSettings, CreateRuleset, UpdateRuleset
            <4>2. toggles' = [toggles EXCEPT ![operation.toggle] = operation.enabled]
                BY <3>2, <4>1 DEF Perform, SetToggle
            <4>3. t = operation.toggle
                BY <3>3, <3>5, <4>2 DEF OnGitHub
            <4> QED
                BY <3>2, <4>1, <4>3, RepairKinds
        <3>6. ASSUME NEW n \in DOMAIN rulesets
              PROVE  /\ n \in DOMAIN rulesets'
                     /\ \/ rulesets'[n] = rulesets[n]
                        \/ Key(rulesets[n]) \in ManagedKeys(m)
                        \/ /\ ~alone[r]
                           /\ \E e \in managed[r] :
                                 e.id = n /\ e.key \in ManagedKeys(manifest[r])
            <4>1. n \in DOMAIN rulesets'
                BY <3>2, <3>3, <3>6, RulesetsAfter
            <4>2. CASE /\ operation.kind = "update_ruleset" /\ operation.id = n
                <5>1. Key(operation.payload) \in ManagedKeys(m)
                    BY <3>2, <3>3, <4>2, RulesetsAfter DEF OfRulesets
                <5>2. CASE alone[r]
                    BY <3>2, <4>1, <4>2, <5>1, <5>2 DEF Timely
                <5>3. CASE ~alone[r]
                    BY <3>2, <4>1, <4>2, <5>1, <5>3
                <5> QED
                    BY <5>2, <5>3
            <4>3. CASE ~(operation.kind = "update_ruleset" /\ operation.id = n)
                BY <3>2, <3>3, <3>6, <4>1, <4>3, RulesetsAfter
            <4> QED
                BY <4>2, <4>3
        <3> QED
            BY <3>1, <3>2, <3>4, <3>5, <3>6
    <2> QED
        BY <2>1, <2>2
<1> QED
    BY <1>1, ConfiguratorInvariant, PTL DEF Spec, LeavesTheRestAlone

\* A run that is alone and sees all rulesets never makes a second one of a name
\* and target, whatever calls of its own and of other runs have failed or lost
\* their answer: a rerun finds what was created.
THEOREM NoDuplicates == Spec => SoleRunsMakeNoDuplicate
<1> DEFINE Sole == \A r \in Runners : Writes(r) /\ alone[r] /\ OnePage =>
                       \A m \in Manifests : Ambiguity(m)' => Ambiguity(m)
<1>1. IInv /\ [Next]_vars => [Sole]_vars
    <2> SUFFICES ASSUME IInv, Next, NEW r \in Runners, Writes(r), alone[r], OnePage,
                        NEW m \in Manifests, Ambiguity(m)'
                 PROVE  Ambiguity(m)
        OBVIOUS
    <2>1. PICK q, operation : q \in Manifests /\
             operation \in Repairs(q) /\ Perform(operation) /\ Timely(operation)
        BY WriterPerforms
    <2>2. OnGitHub
        BY DEF IInv, Core, AllHonest
    <2> QED
        BY <2>1, <2>2, TimelyMakesNoDuplicate
<1> QED
    BY <1>1, ConfiguratorInvariant, PTL DEF Spec, SoleRunsMakeNoDuplicate
=============================================================================
