---------------------------- MODULE Configuration ----------------------------
(***************************************************************************)
(* Tenant configuration: overrides of one definition at the scopes BRANCH, *)
(* COMPANY and TENANT (ConfigurationService and its repository).  Requests *)
(* are authorized before they get here (AccessControl).  A refused         *)
(* request rolls back and leaves nothing, so a refusal is a guard.         *)
(***************************************************************************)
EXTENDS RuleReads

CONSTANTS
  AllowedScopes,  \* allow_branch_override, allow_company_override, allow_tenant_override
  ValidSettings,  \* the values that pass the definition's type and schema
  HasDefault      \* default_value IS NOT NULL

Scope == {<<"BRANCH">>, <<"COMPANY">>, <<"TENANT">>}
ASSUME SettingsAssumption == Scope \subseteq Keys /\ ValidSettings \subseteq Values

(* docs/implementation/018-configuracoes.md:13 *)
ASSUME ScopePrecedence ==
  /\ Rank(<<"BRANCH">>) < Rank(<<"COMPANY">>)
  /\ Rank(<<"COMPANY">>) < Rank(<<"TENANT">>)

ScopeAllowed(scope) == scope \in AllowedScopes

ValueValid(value) == value \in ValidSettings

ActiveDefinition == catalog.active

FindActiveSetting(scope) == ActiveRows(rows, scope)

-----------------------------------------------------------------------------
(* INSERT of an override the caller believes to be the first. *)
PrepareCreate(p, scope, value) ==
  /\ FindActiveSetting(scope) = {}
  /\ Prepare(p, [change |-> "CREATE", rid |-> NoRid, expected |-> 0,
                 key |-> scope, status |-> "ACTIVE", value |-> value])

PrepareUpdate(p, scope, value, expected) ==
  \E r \in FindActiveSetting(scope) :
    /\ rows[r].version = expected /\ expected < MaxVersion
    /\ Prepare(p, [change |-> "UPDATE", rid |-> r, expected |-> expected,
                   key |-> scope, status |-> "ACTIVE", value |-> value])

(* putOverride: without expectedVersion a new override, with it the next   *)
(* value of the ACTIVE one.                                                *)
PutOverride(p) ==
  \E scope \in Scope, value \in ValidSettings, expected \in 0..MaxVersion :
    /\ ActiveDefinition /\ ScopeAllowed(scope) /\ ValueValid(value)
    /\ IF expected = 0
       THEN PrepareCreate(p, scope, value)
       ELSE PrepareUpdate(p, scope, value, expected)

(* findSettingWithDefinition *)
FoundSettings == {r \in Rids : rows[r] # NoRow}

(* transitionOverrideStatus: the setting by id, its scope and its version  *)
(* as the caller knows them.                                               *)
TransitionOverride(p) ==
  \E r \in FoundSettings, to \in Status :
    /\ rows[r].version < MaxVersion
    /\ rows[r].status # to
    /\ to = "ACTIVE" =>
         ActiveDefinition /\ ScopeAllowed(rows[r].key) /\ ValueValid(rows[r].value)
    /\ Prepare(p, [change |-> IF to = "ACTIVE" THEN "ACTIVATE" ELSE "INACTIVATE",
                   rid |-> r, expected |-> rows[r].version,
                   key |-> rows[r].key, status |-> to, value |-> NoValue])

(* Mutant of SettingEntry: the history keeps the value the request read. *)
SettingEntryUnread(s) ==
  [status |-> "ACTIVE", change |-> s.change, value |-> s.value]

(* The history INSERT: the row as written, but no value when INACTIVE.     *)
SettingEntry(s) ==
  [status |-> s.status, change |-> s.change,
   value |-> CASE s.change = "INACTIVATE" -> NoValue
               [] s.change = "ACTIVATE"   -> rows[s.rid].value
               [] OTHER                   -> s.value]

CreateOverride(p) ==
  req[p].change = "CREATE" /\ InsertRow(p, SettingEntry(req[p]))

UpdateOverride(p) ==
  req[p].change = "UPDATE" /\ UpdateRow(p, SettingEntry(req[p]))

TransitionStatement(p) ==
  /\ req[p].change \in {"ACTIVATE", "INACTIVATE"}
  /\ UpdateRow(p, SettingEntry(req[p]))

ConfigurationWrite(p) ==
  /\ \/ PutOverride(p)
     \/ TransitionOverride(p)
     \/ CreateOverride(p)
     \/ UpdateOverride(p)
     \/ TransitionStatement(p)
     \/ Abandon(p)
  /\ UNCHANGED readVars

-----------------------------------------------------------------------------
(* Most specific first, and only the scopes the definition allows. *)
Candidate(scope, asked) == IF asked /\ ScopeAllowed(scope) THEN <<scope>> ELSE <<>>

ResolutionCandidates(requested) ==
  Candidate(<<"BRANCH">>, requested = <<"BRANCH">>)
  \o Candidate(<<"COMPANY">>, requested \in {<<"BRANCH">>, <<"COMPANY">>})
  \o Candidate(<<"TENANT">>, TRUE)

ResolveEffective(q) ==
  /\ CanStart(q)
  /\ \E scope \in Scope :
       IF ActiveDefinition
       THEN Begun(q, ResolutionCandidates(scope), "candidates")
       ELSE Answered(q, InError, FALSE)

ResolveCandidate(q) ==
  LET r == reading[q] IN
  /\ r.at = "candidates" /\ r.next <= Len(r.chain)
  /\ IF FindActiveSetting(r.chain[r.next]) # {}
     THEN Answered(q, r.chain[r.next], TRUE)
     ELSE NextCandidate(q, 1)

ResolveDefault(q) ==
  /\ reading[q].at = "candidates" /\ reading[q].next > Len(reading[q].chain)
  /\ IF HasDefault THEN Answered(q, ByDefault, TRUE) ELSE Failed(q)

ConfigurationRead(q) ==
  /\ ResolveEffective(q) \/ ResolveCandidate(q) \/ ResolveDefault(q)
  /\ UNCHANGED <<rowVars, catalog>>
==============================================================================
