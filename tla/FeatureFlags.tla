----------------------------- MODULE FeatureFlags -----------------------------
(***************************************************************************)
(* Feature flags: a tenant's targeting rules for one flag of the platform  *)
(* (FeatureFlagAdministrationService, FeatureFlagEvaluator and their       *)
(* repository).  A rule is for a target, and for one environment or all of *)
(* them; it says enabled or not and for which share of the buckets.        *)
(***************************************************************************)
EXTENDS RuleReads

CONSTANTS
  Targets,      \* the targets of the evaluations
  RuleKeys,     \* bound of the model: the targets and environments rules are made for
  Environment,  \* the trusted runtime environment of the evaluations
  Rollouts,     \* basis points of rules and policies
  PolicyRollout \* basis points of the environment policy

Everywhere == "*"  \* environment IS NULL
RuleKey == Targets \X {Environment, Everywhere}
ASSUME RuleKeysAssumption == RuleKeys \subseteq RuleKey

(* From the most specific target to the least. *)
Specificity == [USER |-> 1, BRANCH |-> 2, COMPANY |-> 3, TENANT |-> 4, PLAN |-> 5]
ASSUME TargetsAssumption == Targets \subseteq DOMAIN Specificity /\ Environment # Everywhere
ASSUME RulePrecedence ==
  /\ \A t \in Targets : Rank(<<t, Environment>>) < Rank(<<t, Everywhere>>)
  /\ \A t, u \in Targets :
       Specificity[t] < Specificity[u] => Rank(<<t, Everywhere>>) < Rank(<<u, Environment>>)

RuleValue == [enabled : BOOLEAN, rollout : Rollouts]
ASSUME RulesAssumption == RuleKey \subseteq Keys /\ RuleValue \subseteq Values

FlagActive == catalog.active

(* Companies and branches are never deleted; a user needs a membership. *)
AssertTarget(target) == target = "USER" => catalog.member

RolloutDecision(value, bucket) == value.enabled /\ bucket < value.rollout

-----------------------------------------------------------------------------
FindActiveRuleByTarget(target, environment) == ActiveRows(rows, <<target, environment>>)

PrepareCreateRule(p, key, value) ==
  /\ FindActiveRuleByTarget(key[1], key[2]) = {}
  /\ Prepare(p, [change |-> "CREATE", rid |-> NoRid, expected |-> 0,
                 key |-> key, status |-> "ACTIVE", value |-> value])

PrepareUpdateRule(p, key, value, expected) ==
  \E r \in FindActiveRuleByTarget(key[1], key[2]) :
    /\ rows[r].version = expected /\ expected < MaxVersion
    /\ Prepare(p, [change |-> "UPDATE", rid |-> r, expected |-> expected,
                   key |-> key, status |-> "ACTIVE", value |-> value])

PutRule(p) ==
  \E key \in RuleKeys, value \in RuleValue, expected \in 0..MaxVersion :
    /\ AssertTarget(key[1]) /\ FlagActive
    /\ IF expected = 0
       THEN PrepareCreateRule(p, key, value)
       ELSE PrepareUpdateRule(p, key, value, expected)

(* findRuleWithFlag *)
FoundRules == {r \in Rids : rows[r] # NoRow}

TransitionRuleStatus(p) ==
  \E r \in FoundRules, to \in Status :
    /\ rows[r].version < MaxVersion
    /\ rows[r].status # to
    /\ to = "ACTIVE" => FlagActive /\ AssertTarget(rows[r].key[1])
    /\ Prepare(p, [change |-> IF to = "ACTIVE" THEN "ACTIVATE" ELSE "INACTIVATE",
                   rid |-> r, expected |-> rows[r].version,
                   key |-> rows[r].key, status |-> to, value |-> NoValue])

FindRuleVersion(r, v) == history[r][v]

(* restoreRuleVersion: the rule becomes what a version of its history says *)
(* it was, as a new version.                                               *)
RestoreRuleVersion(p) ==
  \E r \in FoundRules : \E v \in DOMAIN history[r] :
    LET historical == FindRuleVersion(r, v) IN
    /\ rows[r].version < MaxVersion
    /\ historical.status = "ACTIVE" => FlagActive /\ AssertTarget(rows[r].key[1])
    /\ Prepare(p, [change |-> "RESTORE", rid |-> r, expected |-> rows[r].version,
                   key |-> rows[r].key, status |-> historical.status,
                   value |-> historical.value])

(* Mutant of RuleEntry: the history keeps the rule as the request read it. *)
RuleEntryBefore(s) ==
  IF s.change = "CREATE"
  THEN [status |-> s.status, change |-> s.change, value |-> s.value]
  ELSE [status |-> rows[s.rid].status, change |-> s.change, value |-> rows[s.rid].value]

(* The history INSERT: the rule as written. *)
RuleEntry(s) ==
  [status |-> s.status, change |-> s.change,
   value |-> IF s.value = NoValue THEN rows[s.rid].value ELSE s.value]

CreateRule(p) == req[p].change = "CREATE" /\ InsertRow(p, RuleEntry(req[p]))

UpdateRule(p) == req[p].change = "UPDATE" /\ UpdateRow(p, RuleEntry(req[p]))

TransitionRuleStatement(p) ==
  /\ req[p].change \in {"ACTIVATE", "INACTIVATE"}
  /\ UpdateRow(p, RuleEntry(req[p]))

RestoreStatement(p) == req[p].change = "RESTORE" /\ UpdateRow(p, RuleEntry(req[p]))

FlagWrite(p) ==
  /\ \/ PutRule(p)
     \/ TransitionRuleStatus(p)
     \/ RestoreRuleVersion(p)
     \/ CreateRule(p)
     \/ UpdateRule(p)
     \/ TransitionRuleStatement(p)
     \/ RestoreStatement(p)
     \/ Abandon(p)
  /\ UNCHANGED readVars

-----------------------------------------------------------------------------
(* USER before BRANCH before COMPANY before TENANT before PLAN; the rule   *)
(* for this environment before the one for all.                            *)
TargetCandidates(target, context) ==
  IF target \in context THEN << <<target, Environment>>, <<target, Everywhere>> >> ELSE <<>>

EvaluationCandidates(context) ==
  TargetCandidates("USER", context) \o TargetCandidates("BRANCH", context)
  \o TargetCandidates("COMPANY", context) \o TargetCandidates("TENANT", context)
  \o TargetCandidates("PLAN", context)

(* What FeatureFlagEvaluator hands over of the authorized context: always a *)
(* user, a branch only with its company, a plan when there is one.          *)
AuthorizedContexts ==
  {context \in SUBSET Targets :
     {"TENANT", "USER"} \subseteq context /\ ("BRANCH" \in context => "COMPANY" \in context)}

AssertEvaluationContext(context) == \A target \in context : AssertTarget(target)

(* Of the first statements, the ones on the targets and the flag. *)
Evaluate(q) ==
  /\ CanStart(q)
  /\ \E context \in AuthorizedContexts :
       /\ AssertEvaluationContext(context)
       /\ IF FlagActive
          THEN Begun(q, EvaluationCandidates(context), "policy")
          ELSE Answered(q, InError, FALSE)

FindActiveEnvironmentPolicy == catalog.policy

(* Mutant of KillSwitch: a policy that is off is no more than absent. *)
KillSwitchIgnored(q) ==
  reading' = [reading EXCEPT ![q].at = "candidates",
                             ![q].policy = IF FindActiveEnvironmentPolicy = "OFF" THEN "NONE"
                                           ELSE FindActiveEnvironmentPolicy]

KillSwitch(q) ==
  IF FindActiveEnvironmentPolicy = "OFF"
  THEN Answered(q, Killed, FALSE)
  ELSE reading' = [reading EXCEPT ![q].at = "candidates",
                                  ![q].policy = FindActiveEnvironmentPolicy]

EvaluatePolicy(q) == reading[q].at = "policy" /\ KillSwitch(q)

FindActiveRule(target) ==
  LET here == ActiveRows(rows, <<target, Environment>>) IN
  IF here # {} THEN here ELSE ActiveRows(rows, <<target, Everywhere>>)

EvaluateCandidate(q) ==
  LET r == reading[q] IN
  /\ r.at = "candidates" /\ r.next <= Len(r.chain)
  /\ LET found == FindActiveRule(r.chain[r.next][1]) IN
     IF found = {}
     THEN NextCandidate(q, 2)
     ELSE \E rule \in found, bucket \in Buckets :
            Answered(q, rows[rule].key, RolloutDecision(rows[rule].value, bucket))

EvaluateFallback(q) ==
  LET r == reading[q] IN
  /\ r.at = "candidates" /\ r.next > Len(r.chain)
  /\ IF r.policy = "ON"
     THEN \E bucket \in Buckets :
            Answered(q, ByPolicy, RolloutDecision([enabled |-> TRUE, rollout |-> PolicyRollout], bucket))
     ELSE \E default \in BOOLEAN : Answered(q, ByDefault, default)

FlagRead(q) ==
  /\ Evaluate(q) \/ EvaluatePolicy(q) \/ EvaluateCandidate(q) \/ EvaluateFallback(q)
  /\ UNCHANGED <<rowVars, catalog>>
==============================================================================
