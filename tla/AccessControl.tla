---------------------------- MODULE AccessControl ----------------------------
(***************************************************************************)
(* Who may do what in a tenant: role assignments and their organizational  *)
(* scopes (RBAC), and the check that AuthorizedTenantOperationService runs *)
(* before an operation: identity, user, membership, permission, scope, each*)
(* its own SELECT and its own READ COMMITTED snapshot, while the           *)
(* administration suspends and revokes.                                    *)
(***************************************************************************)
EXTENDS TenantLifecycle

CONSTANTS
  Grantable,  \* bound of the model: scopes that are given to assignments
  Requestable \* bound of the model: scopes that requests name

VARIABLE scopes  \* scopes[a]: the organizational scopes of assignment a

accessVars == <<entity, moving, call, scopes>>

Null == "-"
Companies == {"company", "company2"}
ScopeTarget ==
       [level : {"TENANT"}, company : {Null}, branch : {Null}]
  \cup [level : {"COMPANY"}, company : Companies, branch : {Null}]
  \cup [level : {"BRANCH"}, company : Companies, branch : Branches]

ASSUME ScopesAssumption == Grantable \subseteq ScopeTarget /\ Requestable \subseteq ScopeTarget

AccessCall == [at : {"user", "membership", "permission", "scope", "granted"},
               requested : ScopeTarget, since : SUBSET (Entities \cup {"authority"})]

AccessTypeOK ==
  /\ EntityTypeOK
  /\ call \in [Callers -> {IdleCall} \cup TransitionCall \cup AccessCall]
  /\ scopes \in [Assignments -> SUBSET ScopeTarget]

(* A settled assignment has a scope; one that moves is given its scopes.   *)
AccessInit(m) ==
  /\ LifecycleInit(m)
  /\ \E granted \in Grantable :
       scopes = [a \in Assignments |->
                   IF a = "assignment1" /\ a \notin m THEN {granted} ELSE {}]

-----------------------------------------------------------------------------
(* The contract of the domain, and what the SQL of hasScopedPermission     *)
(* says: a NULL company never equals a company.                            *)
ScopeCovers(granted, requested) ==
  \/ granted.level = "TENANT"
  \/ granted.level = "COMPANY" /\ granted.company = requested.company
  \/ /\ granted.level = "BRANCH" /\ requested.level = "BRANCH"
     /\ granted.company = requested.company /\ granted.branch = requested.branch

SqlEqual(a, b) == a # Null /\ b # Null /\ a = b

(* Mutant of ScopeMatches: a branch stands for its company. *)
ScopeMatchesCompanyOfBranch(os, requested) ==
  os.level = "TENANT" \/ SqlEqual(os.company, requested.company)

ScopeMatches(os, requested) ==
  \/ os.level = "TENANT"
  \/ os.level = "COMPANY" /\ SqlEqual(os.company, requested.company)
  \/ /\ os.level = "BRANCH" /\ requested.level = "BRANCH"
     /\ SqlEqual(os.company, requested.company) /\ SqlEqual(os.branch, requested.branch)

(* The rows both permission queries join, besides the assignment. *)
PermissionRows == {"membership", "tenant", "user", "role", "permission", "rolePermission"}

-----------------------------------------------------------------------------
CreatePermission == Created("permission", {NoInput}, {FALSE})
CreateRole == Created("role", {NoInput}, {FALSE})

(* ON CONFLICT DO NOTHING *)
GrantPermission == Created("rolePermission", {NoInput}, {FALSE})

(* assignRole: one ACTIVE assignment of a role to a membership. *)
AssignRole ==
  \E a \in moving \cap Assignments :
    /\ \A b \in Assignments : ~Operational(b)
    /\ Created(a, {NoInput}, {FALSE})

RevokeAssignment ==
  \E a \in moving \cap Assignments :
    /\ Operational(a) /\ entity[a].version < MaxEntityVersion
    /\ entity' = [entity EXCEPT ![a].status = "REVOKED", ![a].version = @ + 1]

(* createScope, and assignScope with ON CONFLICT DO NOTHING. *)
AssignScope ==
  \E a \in moving \cap Assignments, s \in Grantable :
    /\ StatusOf(a) # "NONE"
    /\ s.level = "COMPANY" => StatusOf("company") # "NONE"
    /\ s.level = "BRANCH" => StatusOf(s.branch) # "NONE"
    /\ scopes' = [scopes EXCEPT ![a] = @ \cup {s}]

-----------------------------------------------------------------------------
HasPermission ==
  /\ \A e \in PermissionRows : Operational(e)
  /\ \E a \in Assignments : Operational(a)

HasScopedPermission(requested) ==
  /\ \A e \in PermissionRows : Operational(e)
  /\ \E a \in Assignments : Operational(a) /\ \E os \in scopes[a] : ScopeMatches(os, requested)

(* What a check lacks at one moment: a row, or any authority over the      *)
(* requested scope as the domain defines it.                               *)
AccessLacks(requested, table, granted) ==
  NotOperational(table, PermissionRows \cup {"identity"})
  \cup (IF \E a \in Assignments, s \in ScopeTarget :
              table[a].status = "ACTIVE" /\ s \in granted[a] /\ ScopeCovers(s, requested)
        THEN {} ELSE {"authority"})

Checking(c) == c.at \in {"user", "membership", "permission", "scope"}

(* What a call never had, it still lacks after a change if it does now. *)
Watching(table, granted) ==
  [p \in Callers |->
     LET c == call[p] IN
     IF Checking(c) THEN [c EXCEPT !.since = @ \cap AccessLacks(c.requested, table, granted)]
     ELSE IF c.at = "statement" THEN [c EXCEPT !.since = @ \cap TransitionLacks(c, table)]
     ELSE c]

(* A check that finds what it looks for goes on; otherwise access is       *)
(* denied, and nothing but a DENIED audit event is left.                   *)
Continue(p, found, at) ==
  call' = [call EXCEPT ![p] = IF found THEN [@ EXCEPT !.at = at] ELSE IdleCall]

IdentityUsable == Operational("identity")

ResolveIdentity(p) ==
  \E requested \in Requestable :
    /\ call[p].at \in {"idle", "granted"}
    /\ call' = [call EXCEPT ![p] =
         IF IdentityUsable
         THEN [at |-> "user", requested |-> requested,
               since |-> AccessLacks(requested, entity, scopes)]
         ELSE IdleCall]

ResolveUser(p) == call[p].at = "user" /\ Continue(p, Operational("user"), "membership")

ResolveMembership(p) ==
  call[p].at = "membership" /\ Continue(p, Operational("membership"), "permission")

RequirePermission(p) == call[p].at = "permission" /\ Continue(p, HasPermission, "scope")

RequireScope(p) ==
  call[p].at = "scope" /\ Continue(p, HasScopedPermission(call[p].requested), "granted")

-----------------------------------------------------------------------------
OrganizationAdministration(inputs) ==
  \/ CreateTenant(inputs) \/ CreateCompany(inputs) \/ CreateBranch(inputs)
  \/ UpdateTenantProfile(inputs) \/ UpdateCompanyProfile(inputs) \/ UpdateBranchProfile(inputs)
  \/ CreateUser(inputs) \/ UpdateUserProfile(inputs)

AccessAdministration ==
  \/ CreateMembership \/ LinkIdentity
  \/ CreatePermission \/ CreateRole \/ GrantPermission \/ AssignRole \/ RevokeAssignment

Administration(inputs) ==
  /\ \/ OrganizationAdministration(inputs) /\ UNCHANGED scopes
     \/ AccessAdministration /\ UNCHANGED scopes
     \/ AssignScope /\ UNCHANGED entity
  /\ call' = Watching(entity', scopes')
  /\ UNCHANGED moving

TransitionRead(p) ==
  \/ TransitionTenant(p) \/ TransitionCompany(p) \/ TransitionBranch(p)
  \/ TransitionUser(p) \/ TransitionMembership(p) \/ TransitionIdentity(p)

AdministrativeCall(p) ==
  /\ \/ TransitionRead(p) /\ UNCHANGED entity
     \/ SnapshotForTransition(p) /\ UNCHANGED entity
     \/ /\ call[p].at = "statement"
        /\ TransitionStatus(call[p])
        /\ call' = [Watching(entity', scopes) EXCEPT ![p] = IdleCall]
  /\ UNCHANGED <<moving, scopes>>

AuthorizedOperation(p) ==
  /\ \/ ResolveIdentity(p)
     \/ ResolveUser(p)
     \/ ResolveMembership(p)
     \/ RequirePermission(p)
     \/ RequireScope(p)
  /\ UNCHANGED <<entity, moving, scopes>>

-----------------------------------------------------------------------------
(* Access is never granted to a request that lacked something from its     *)
(* first query to its last: what was suspended, disabled or revoked before *)
(* a request began, and stayed so, denies it, and so does a scope that no  *)
(* assignment covers.                                                      *)
GrantedOnLiveGround ==
  [][\A p \in Callers :
       call[p].at = "scope" /\ call'[p].at = "granted" => call[p].since = {}]_call
==============================================================================
