--------------------- MODULE RepoConfiguratorInvariant ---------------------
(***************************************************************************)
(* Why a run only repairs, and why a run that nobody disturbs finishes the *)
(* job, as an inductive invariant: what is in a plan, and how it relates   *)
(* to what is still wrong with the repository.                             *)
(***************************************************************************)
EXTENDS RepoConfigurator

----------------------------------------------------------------------------
(* Plans hold nothing but repairs, whoever interferes                      *)

\* IDs that are of a ruleset of the target t, or free for ever: an ID is never
\* given twice, and a ruleset keeps its target.
Slots(t) == {n \in 1..(nextId - 1) : n \in DOMAIN rulesets => rulesets[n].target = t}

Patches(m) ==
    {[kind |-> "patch_repository", payload |-> Restrict(AskedSettings(m), S)] :
        S \in SUBSET DOMAIN AskedSettings(m)}
Switches(m) ==
    {[kind |-> "toggle", toggle |-> t, enabled |-> AskedToggles(m)[t]] :
        t \in {u \in DOMAIN AskedToggles(m) : u = "advanced_security" => Private}}
Creations(m) ==
    {[kind |-> "create_ruleset", payload |-> Payload(m, t)] : t \in RulesetTargets}
Updates(m) ==
    UNION {{[kind |-> "update_ruleset", id |-> n, payload |-> Payload(m, t)] : n \in Slots(t)} :
              t \in RulesetTargets}

Repairs(m) == Patches(m) \cup Switches(m) \cup Creations(m) \cup Updates(m)

OnGitHub ==
    /\ DOMAIN settings = Fields
    /\ DOMAIN toggles = Toggles
    /\ Private \/ toggles["advanced_security"]
    /\ nextId \in Nat \ {0}
    /\ DOMAIN rulesets \subseteq 1..(nextId - 1)
    /\ \A n \in DOMAIN rulesets : Complete(rulesets[n])

OfRunners ==
    /\ DOMAIN pc = Runners /\ DOMAIN manifest = Runners /\ DOMAIN plan = Runners
    /\ DOMAIN listed = Runners /\ DOMAIN managed = Runners /\ DOMAIN applied = Runners

Honest(r) ==
    /\ pc[r] \notin {"idle"} \cup Ended => manifest[r] \in Manifests
    /\ pc[r] = "idle" => plan[r] = <<>>
    /\ plan[r] \in Seq(Repairs(manifest[r]))
    /\ \A e \in listed[r] \cup managed[r] : e.id \in Slots(e.key[2])
    /\ applied[r] \in Nat

AllHonest == OnGitHub /\ OfRunners /\ \A r \in Runners : Honest(r)

----------------------------------------------------------------------------
(* The stages of a run                                                     *)

OfRulesets(operation) == operation.kind \in {"create_ruleset", "update_ruleset"}

Reading == {"toggles", "listing", "rulesets"}

\* Nothing is planned before the reads nor applied before the plan is made, a
\* run in mode "plan" applies nothing, and there is one change for a ruleset.
Staged(r) ==
    /\ pc[r] \in {"idle", "loaded", "authenticated"} => plan[r] = <<>> /\ ~alone[r]
    /\ pc[r] \in {"idle", "loaded", "authenticated", "toggles", "listing"} => managed[r] = {}
    /\ pc[r] \in {"idle", "loaded", "authenticated"} \cup Reading =>
          /\ applied[r] = 0
          /\ \A j \in DOMAIN plan[r] : ~OfRulesets(plan[r][j])
    /\ pc[r] = "toggles" => unread[r] \subseteq DOMAIN DesiredToggles(manifest[r])
    /\ pc[r] \in {"listing", "rulesets", "planned", "ok"} => unread[r] = {}
    /\ Mode[r] = "plan" => applied[r] = 0
    /\ pc[r] = "ok" /\ Mode[r] = "apply" => applied[r] = Len(plan[r])
    /\ \A i, j \in DOMAIN plan[r] :
          /\ OfRulesets(plan[r][i]) /\ OfRulesets(plan[r][j])
          /\ plan[r][i].payload.target = plan[r][j].payload.target
          => i = j

----------------------------------------------------------------------------
(* A run that nobody disturbs                                              *)

\* The part of the repository that an operation puts right.
Fixes(operation, part) ==
    \/ /\ operation.kind = "patch_repository"
       /\ \E f \in DOMAIN operation.payload : part = <<"setting", f>>
    \/ /\ operation.kind = "toggle"
       /\ part = <<"toggle", operation.toggle>>
    \/ /\ OfRulesets(operation)
       /\ part = <<"ruleset", operation.payload.target>>

\* What is still to be applied.
Outstanding(r) == {plan[r][j] : j \in {k \in DOMAIN plan[r] : k > applied[r]}}

\* What is wrong and for a run to put right.
Work(m) == Drift(m) \ FollowUps(m, Private)

\* A part whose state the run has yet to read, or cannot see.
Unseen(r, part) ==
    \/ \E t \in unread[r] : part = <<"toggle", t>>
    \/ \E t \in RulesetTargets : part = <<"ruleset", t>> /\ (pc[r] \in Reading \/ ~OnePage)

\* All that is wrong is yet to be seen or yet to be applied.
Covered(r) ==
    \A part \in Work(manifest[r]) :
        \/ Unseen(r, part)
        \/ \E operation \in Outstanding(r) : Fixes(operation, part)

\* A plan of which nothing is applied holds nothing that is not needed.
Needed(r) ==
    OnePage /\ applied[r] = 0 =>
        \A operation \in Outstanding(r) :
            \E part \in Work(manifest[r]) : Fixes(operation, part)

\* What is listed has the key it is listed with, and if a page shows all there
\* is, all that is managed is listed, one ruleset for a key.
Faithful(r) ==
    pc[r] = "rulesets" =>
        /\ \A e \in listed[r] \cup managed[r] :
              e.id \in DOMAIN rulesets /\ e.key = Key(rulesets[e.id])
        /\ \A e \in managed[r] : e.content = rulesets[e.id]
        /\ OnePage =>
              \A n \in DOMAIN rulesets : Key(rulesets[n]) \in ManagedKeys(manifest[r]) =>
                  /\ \E e \in listed[r] \cup managed[r] : e.id = n
                  /\ \A k \in DOMAIN rulesets : Key(rulesets[k]) = Key(rulesets[n]) => k = n

\* Updates go to a ruleset of their name and target, a ruleset that is to be
\* created is not there.
Timely(operation) ==
    /\ operation.kind = "update_ruleset" =>
          /\ operation.id \in DOMAIN rulesets
          /\ Key(rulesets[operation.id]) = Key(operation.payload)
    /\ operation.kind = "create_ruleset" /\ OnePage =>
          \A n \in DOMAIN rulesets : Key(rulesets[n]) # Key(operation.payload)

Pending(r) == pc[r] = "planned" => \A operation \in Outstanding(r) : Timely(operation)

Undisturbed(r) == Covered(r) /\ Needed(r) /\ Faithful(r) /\ Pending(r)

Converging(r) == Staged(r) /\ (alone[r] /\ pc[r] # "failed" => Undisturbed(r))

Core == TypeOK /\ AllHonest /\ \A r \in Runners : Converging(r)

\* What a plan updates is what the list has shown under the name and target of
\* the payload, whatever it is called by now.
Sourced(r) ==
    \A j \in DOMAIN plan[r] :
        plan[r][j].kind = "update_ruleset" =>
            \E e \in managed[r] : e.id = plan[r][j].id /\ e.key = Key(plan[r][j].payload)

\* The inductive invariant: why the writes of a run only repair
\* (OwnWritesOnlyRepair), why an undisturbed run finishes the job
\* (ApplyConverges, PlanMeansDrift), and why it touches only what is managed and
\* makes no duplicate nor goes on past one (LeavesTheRestAlone,
\* SoleRunsMakeNoDuplicate, AmbiguityStopsRuns).
IInv == Core /\ AmbiguityStopsRuns /\ \A r \in Runners : Sourced(r)
=============================================================================
