--------------------------- MODULE TenantLifecycle ---------------------------
(***************************************************************************)
(* The organization and the identities of a tenant: tenant, company, two   *)
(* branches, user, membership and external identity, each a row with a     *)
(* status, a version and a profile (src/modules/organization and identity).*)
(* The repositories run every query on its own: what a transition reads is *)
(* stale when its UPDATE takes its snapshot, and the parents it saw in the *)
(* snapshot are stale when the row is written.                             *)
(***************************************************************************)
EXTENDS Naturals, EntityProfiles

CONSTANTS
  Callers,         \* requests that change a status or ask for access
  MaxEntityVersion \* bound of the model: versions an entity may go through

ASSUME EntityVersionAssumption == MaxEntityVersion \in Nat /\ MaxEntityVersion >= 2

VARIABLES
  entity,  \* the rows
  moving,  \* bound of the model: the entities that change in this behaviour
  call     \* call[p]: the transition or the access check of caller p

Branches == {"branch1", "branch2"}
Assignments == {"assignment1", "assignment2"}
Entities == {"tenant", "company", "user", "membership", "identity",
             "role", "permission", "rolePermission"} \cup Branches \cup Assignments

EntityStatus == {"NONE", "PROVISIONING", "DRAFT", "PENDING", "ACTIVE", "INACTIVE",
                 "SUSPENDED", "CLOSING", "CLOSED", "REVOKED", "DISABLED"}

Kind(e) == IF e \in Branches THEN "branch" ELSE e

(* A row satisfies the constraints of its table. *)
EntityRow(e) == {r \in [status : EntityStatus, version : 0..MaxEntityVersion,
                        headquarters : BOOLEAN, profile : StoredProfiles] :
                   r.status # "NONE" => PassesConstraints(Kind(e), r.profile)}

StatusOf(e) == entity[e].status
Operational(e) == StatusOf(e) = "ACTIVE"

-----------------------------------------------------------------------------
(* The status a new row gets, and the transitions each domain allows. *)
InitialStatus(e) ==
  CASE e = "tenant"                          -> "PROVISIONING"
    [] e \in {"company"} \cup Branches       -> "DRAFT"
    [] e \in {"user", "membership"}          -> "PENDING"
    [] OTHER                                 -> "ACTIVE"

TenantPath ==
  ({"PROVISIONING"} \X {"ACTIVE", "CLOSING"}) \cup ({"ACTIVE"} \X {"SUSPENDED", "CLOSING"})
  \cup ({"SUSPENDED"} \X {"ACTIVE", "CLOSING"}) \cup ({"CLOSING"} \X {"ACTIVE", "CLOSED"})
CompanyPath ==
  ({"DRAFT"} \X {"ACTIVE", "CLOSED"}) \cup ({"ACTIVE"} \X {"INACTIVE", "CLOSED"})
  \cup ({"INACTIVE"} \X {"ACTIVE", "CLOSED"})
BranchPath ==
  ({"DRAFT"} \X {"ACTIVE", "CLOSED"}) \cup ({"ACTIVE"} \X {"INACTIVE", "CLOSED"})
  \cup ({"INACTIVE"} \X {"ACTIVE", "CLOSED"})
UserPath ==
  ({"PENDING"} \X {"ACTIVE", "CLOSED"}) \cup ({"ACTIVE"} \X {"SUSPENDED", "CLOSED"})
  \cup ({"SUSPENDED"} \X {"ACTIVE", "CLOSED"})
MembershipPath ==
  ({"PENDING"} \X {"ACTIVE", "REVOKED"}) \cup ({"ACTIVE"} \X {"SUSPENDED", "REVOKED"})
  \cup ({"SUSPENDED"} \X {"ACTIVE", "REVOKED"})
IdentityPath == {<<"ACTIVE", "DISABLED">>, <<"DISABLED", "ACTIVE">>}
AssignmentPath == {<<"ACTIVE", "REVOKED">>}

Path(e) ==
  CASE e = "tenant"      -> TenantPath
    [] e = "company"     -> CompanyPath
    [] e \in Branches    -> BranchPath
    [] e = "user"        -> UserPath
    [] e = "membership"  -> MembershipPath
    [] e = "identity"    -> IdentityPath
    [] e \in Assignments -> AssignmentPath
    [] OTHER             -> {}

(* The rows a new row refers to, by foreign keys. *)
Owners(e) ==
  CASE e \in {"company", "role"}  -> {"tenant"}
    [] e \in Branches             -> {"company"}
    [] e = "membership"           -> {"tenant", "user"}
    [] e = "identity"             -> {"user"}
    [] e = "rolePermission"       -> {"role", "permission"}
    [] e \in Assignments          -> {"membership", "role"}
    [] OTHER                      -> {}

(* The parents that must be operational for e to become ACTIVE: company    *)
(* under its tenant, branch under its company and tenant, membership under *)
(* its tenant and user.                                                    *)
ActivationParents(e) ==
  CASE e = "company"    -> {"tenant"}
    [] e \in Branches   -> {"tenant", "company"}
    [] e = "membership" -> {"tenant", "user"}
    [] OTHER            -> {}

ParentsOperational(e) == \A parent \in ActivationParents(e) : Operational(parent)

-----------------------------------------------------------------------------
(* What the rows that take no part hold. *)
AnyWord == CHOOSE w \in Words : TRUE
SettledProfile(e) ==
  [f \in Field |->
     IF f \in FieldsOf(Kind(e)) \cap {"code", "name", "country", "timezone", "currency"}
     THEN AnyWord ELSE NoWord]
AnyCode == <<AnyWord, "canonical">>

(* since is a history variable of the call: what it needed and did not     *)
(* have at any moment since it began (an access check) or since its UPDATE *)
(* began (a transition).                                                   *)
IdleCall == [at |-> "idle"]
TransitionCall == [at : {"read", "statement"}, e : Entities, from : EntityStatus,
                   to : EntityStatus, version : 0..MaxEntityVersion,
                   grounds : BOOLEAN, since : SUBSET (Entities \cup {"authority"})]

NotOperational(table, es) == {e \in es : table[e].status # "ACTIVE"}

(* What an activation needs and does not have. *)
TransitionLacks(c, table) ==
  IF c.to = "ACTIVE" THEN NotOperational(table, ActivationParents(c.e)) ELSE {}

MovingRow == [status |-> "NONE", version |-> 0, headquarters |-> FALSE, profile |-> NoProfile]
SettledRow(e) ==
  [status |-> "ACTIVE", version |-> IF InitialStatus(e) = "ACTIVE" THEN 1 ELSE 2,
   headquarters |-> e = "branch2", profile |-> SettledProfile(e)]

(* Entities that take no part are there, settled by earlier requests, but  *)
(* for the second assignment.                                              *)
LifecycleInit(m) ==
  /\ moving = m
  /\ entity = [e \in Entities |-> IF e \in m \/ e = "assignment2" THEN MovingRow ELSE SettledRow(e)]
  /\ call = [p \in Callers |-> IdleCall]

EntityTypeOK ==
  /\ DOMAIN entity = Entities /\ \A e \in Entities : entity[e] \in EntityRow(e)
  /\ moving \subseteq Entities

-----------------------------------------------------------------------------
(* INSERT.  An existing row is a conflict, a missing owner a foreign-key   *)
(* violation.                                                              *)
OwnersExist(e) == \A owner \in Owners(e) : StatusOf(owner) # "NONE"

(* The partial unique index on (tenant_id, company_id) WHERE               *)
(* is_headquarters: a CLOSED branch still counts.                          *)
HeadquartersFree(e) ==
  \A b \in Branches \ {e} : StatusOf(b) # "NONE" => ~entity[b].headquarters

(* The unique indexes on codes and on tax identifiers. *)
ProfileFree(e, p) ==
  \A d \in Entities \ {e} :
    Kind(d) = Kind(e) /\ StatusOf(d) # "NONE" => ~Clash(p, entity[d].profile)

Created(e, inputs, flags) ==
  /\ e \in moving /\ StatusOf(e) = "NONE" /\ OwnersExist(e)
  /\ \E input \in inputs, headquarters \in flags :
       /\ Accepts(Kind(e), input)
       /\ ProfileFree(e, Normalized(Kind(e), input))
       /\ headquarters => HeadquartersFree(e)
       /\ entity' = [entity EXCEPT ![e] =
            [status |-> InitialStatus(e), version |-> 1, headquarters |-> headquarters,
             profile |-> Normalized(Kind(e), input)]]

NoInput == [f \in Field |-> Missing]

CreateTenant(inputs) == Created("tenant", inputs, {FALSE})
CreateCompany(inputs) == Created("company", inputs, {FALSE})
CreateBranch(inputs) == \E b \in Branches : Created(b, inputs, BOOLEAN)
CreateUser(inputs) == Created("user", inputs, {FALSE})
CreateMembership == Created("membership", {NoInput}, {FALSE})
LinkIdentity == Created("identity", {NoInput}, {FALSE})

(* One UPDATE with the caller's version, whatever the status. *)
ProfileUpdated(e, inputs, flags) ==
  /\ e \in moving /\ StatusOf(e) # "NONE" /\ entity[e].version < MaxEntityVersion
  /\ \E input \in inputs, headquarters \in flags :
       LET p == Replaced(Kind(e), entity[e].profile, input) IN
       /\ Accepts(Kind(e), [input EXCEPT !["code"] = IF e = "user" THEN @ ELSE AnyCode])
       /\ ProfileFree(e, p)
       /\ headquarters => HeadquartersFree(e)
       /\ entity' = [entity EXCEPT ![e].version = @ + 1, ![e].headquarters = headquarters,
                                   ![e].profile = p]

UpdateTenantProfile(inputs) == ProfileUpdated("tenant", inputs, {FALSE})
UpdateCompanyProfile(inputs) == ProfileUpdated("company", inputs, {FALSE})
UpdateBranchProfile(inputs) == \E b \in Branches : ProfileUpdated(b, inputs, BOOLEAN)
UpdateUserProfile(inputs) == ProfileUpdated("user", inputs, {FALSE})

(* The SELECT of transitionStatus and its checks: the version, the path,   *)
(* for an activation the parents.                                          *)
ReadForTransition(p, es) ==
  \E e \in moving \cap es, to \in EntityStatus :
    /\ call[p].at \in {"idle", "granted"}
    /\ entity[e].version \in 1..(MaxEntityVersion - 1)
    /\ <<StatusOf(e), to>> \in Path(e)
    /\ to = "ACTIVE" => ParentsOperational(e)
    /\ call' = [call EXCEPT ![p] =
         [at |-> "read", e |-> e, from |-> StatusOf(e), to |-> to,
          version |-> entity[e].version, grounds |-> FALSE, since |-> {}]]

TransitionTenant(p) == ReadForTransition(p, {"tenant"})
TransitionCompany(p) == ReadForTransition(p, {"company"})
TransitionBranch(p) == ReadForTransition(p, Branches)
TransitionUser(p) == ReadForTransition(p, {"user"})
TransitionMembership(p) == ReadForTransition(p, {"membership"})
TransitionIdentity(p) == ReadForTransition(p, {"identity"})

(* The UPDATE takes its snapshot: EXISTS of the parents is decided here.   *)
SnapshotForTransition(p) ==
  LET c == call[p] IN
  /\ c.at = "read"
  /\ call' = [call EXCEPT ![p].at = "statement",
                          ![p].grounds = c.to # "ACTIVE" \/ ParentsOperational(c.e),
                          ![p].since = TransitionLacks(c, entity)]

(* Mutant of TransitionMatches: the row is written whatever it has become. *)
TransitionMatchesAny(c) == c.grounds

(* Mutant of TransitionMatches: without EXISTS. *)
TransitionMatchesParentless(c) == StatusOf(c.e) = c.from /\ entity[c.e].version = c.version

(* The rest of WHERE, on the row as it is when its lock is granted. *)
TransitionMatches(c) ==
  c.grounds /\ StatusOf(c.e) = c.from /\ entity[c.e].version = c.version

(* It writes the row, or none: the answer is an error and nothing changed. *)
TransitionStatus(c) ==
  IF TransitionMatches(c) /\ entity[c.e].version < MaxEntityVersion
  THEN entity' = [entity EXCEPT ![c.e].status = c.to, ![c.e].version = @ + 1]
  ELSE UNCHANGED entity

-----------------------------------------------------------------------------
OneHeadquarters ==
  \A b, d \in Branches : entity[b].headquarters /\ entity[d].headquarters => b = d

(* A status is checked against the transitions of the domain in one query  *)
(* and written in another: no two requests together make a transition the  *)
(* domain forbids, and what is closed or revoked stays so.                 *)
StatusPathsLegal ==
  [][\A e \in Entities : entity[e].status \notin {"NONE", entity'[e].status} =>
       <<entity[e].status, entity'[e].status>> \in Path(e)]_entity

(* Nothing becomes ACTIVE under a parent that has not been operational at  *)
(* any moment since the UPDATE began.                                      *)
ActivatedOnLiveGround ==
  [][\A p \in Callers :
       call[p].at = "statement" =>
         LET e == call[p].e IN
         entity'[e].status = "ACTIVE" /\ entity[e].status # "ACTIVE" /\ call'[p] = IdleCall
           => call[p].since = {}]_<<entity, call>>
==============================================================================
