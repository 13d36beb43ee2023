------------------------ MODULE TenantAccess_proofs -------------------------
(***************************************************************************)
(* Theorems about the organization, the identities and the access of a     *)
(* tenant, of the whole TenantAdministration: for every number of callers  *)
(* and words and every value of the bounds.                                *)
(***************************************************************************)
EXTENDS TenantRows_proofs

(***************************************************************************)
(* Profiles: whatever the domain accepts, the tables accept.               *)
(***************************************************************************)
LEMMA GivenWord ==
  ASSUME NEW t \in Text, Given(t)
  PROVE  t[1] \in Words /\ t[1] # NoWord
BY WordsAssumption DEF Text, Given

LEMMA NormalizedFields ==
  ASSUME NEW kind, NEW input \in [Field -> Text]
  PROVE  /\ Normalized(kind, input) \in StoredProfiles
         /\ \A f \in FieldsOf(kind) \cap Field :
              Normalized(kind, input)[f] = NoWord <=> ~Given(input[f])
         /\ \A f \in Field \ FieldsOf(kind) : Normalized(kind, input)[f] = NoWord
<1>1. \A f \in Field : Given(input[f]) => input[f][1] \in Words /\ input[f][1] # NoWord
  BY GivenWord
<1> QED
  BY <1>1 DEF Normalized, StoredProfiles

(* A creation that the domain lets through violates no NOT NULL and no     *)
(* CHECK of its table (the company's and branch's tax pair, the branch's   *)
(* country of a tax identifier).                                           *)
THEOREM CreationsPassConstraints ==
  ASSUME NEW kind, NEW input \in [Field -> Text], Accepts(kind, input)
  PROVE  PassesConstraints(kind, Normalized(kind, input))
<1> DEFINE p == Normalized(kind, input)
<1>1. /\ \A f \in FieldsOf(kind) \cap Field : p[f] = NoWord <=> ~Given(input[f])
      /\ \A f \in Field \ FieldsOf(kind) : p[f] = NoWord
  BY NormalizedFields
<1>2. p = [f \in Field |-> p[f]]
  BY DEF Normalized
<1> HIDE DEF p
<1>3. ~Given(Missing)
  BY DEF Given
<1>4. CASE kind = "tenant"
  <2>1. \A f \in {"code", "name", "timezone", "currency"} : Given(input[f])
    BY <1>4 DEF Accepts, TenantAccepts
  <2>2. \A f \in {"code", "name", "timezone", "currency"} : p[f] # NoWord
    BY <1>1, <1>4, <2>1 DEF FieldsOf, Field
  <2> QED
    BY <1>4, <2>2 DEF PassesConstraints, p
<1>5. CASE kind = "company"
  <2>1. /\ \A f \in {"code", "name", "country"} : Given(input[f])
        /\ Given(input["taxType"]) <=> Given(input["taxId"])
    BY <1>3, <1>5 DEF Accepts, CompanyAccepts, CompanyTaxIdentifier, BothOrNeither
  <2>2. \A f \in Field : p[f] = NoWord <=> ~Given(input[f])
    BY <1>1, <1>5 DEF FieldsOf
  <2>3. /\ \A f \in {"code", "name", "country"} : p[f] # NoWord
        /\ (p["taxType"] = NoWord) = (p["taxId"] = NoWord)
    BY <2>1, <2>2 DEF Field
  <2> QED
    BY <1>5, <2>3 DEF PassesConstraints, p
<1>6. CASE kind = "branch"
  <2>1. /\ \A f \in {"code", "name"} : Given(input[f])
        /\ Given(input["taxType"]) <=> Given(input["taxId"])
        /\ Given(input["taxId"]) => Given(input["country"])
    BY <1>3, <1>6 DEF Accepts, BranchAccepts, BranchTaxIdentifier, BothOrNeither
  <2>2. \A f \in Field \ {"label"} : p[f] = NoWord <=> ~Given(input[f])
    BY <1>1, <1>6 DEF FieldsOf
  <2>3. /\ \A f \in {"code", "name"} : p[f] # NoWord
        /\ (p["taxType"] = NoWord) = (p["taxId"] = NoWord)
        /\ p["taxId"] # NoWord => p["country"] # NoWord
    BY <2>1, <2>2 DEF Field
  <2> QED
    BY <1>6, <2>3 DEF PassesConstraints, p
<1>7. CASE kind = "user"
  <2>1. \A f \in {"code", "name"} : Given(input[f])
    BY <1>7 DEF Accepts, UserAccepts
  <2>2. \A f \in {"code", "name"} : p[f] # NoWord
    BY <1>1, <1>7, <2>1 DEF FieldsOf, Field
  <2> QED
    BY <1>7, <2>2 DEF PassesConstraints, p
<1>8. CASE kind \notin {"tenant", "company", "branch", "user"}
  <2>1. FieldsOf(kind) = {}
    BY <1>8 DEF FieldsOf
  <2>2. p = NoProfile
    BY <1>1, <1>2, <2>1 DEF NoProfile
  <2> QED
    BY <1>8, <2>2 DEF PassesConstraints, p
<1> QED
  BY <1>4, <1>5, <1>6, <1>7, <1>8
LEMMA TextsOfWords ==
  /\ AnyWord \in Words /\ AnyCode \in Text /\ Given(AnyCode)
  /\ Missing \in Text /\ NoInput \in [Field -> Text]
<1>1. AnyWord \in Words
  BY WordsAssumption DEF AnyWord
<1>2. AnyCode \in Text
  BY <1>1 DEF AnyCode, Text
<1>3. Missing \in Text
  BY DEF Text
<1>4. Given(AnyCode)
  BY DEF AnyCode, Given, Missing, Malformed
<1> QED
  BY <1>1, <1>2, <1>3, <1>4 DEF NoInput

(* A replaced profile keeps its code unless it is a user's.                *)
THEOREM UpdatesPassConstraints ==
  ASSUME NEW kind \in {"tenant", "company", "branch", "user"},
         NEW stored \in StoredProfiles, PassesConstraints(kind, stored),
         NEW input \in [Field -> Text],
         Accepts(kind, [input EXCEPT !["code"] = IF kind = "user" THEN @ ELSE AnyCode])
  PROVE  /\ Replaced(kind, stored, input) \in StoredProfiles
         /\ PassesConstraints(kind, Replaced(kind, stored, input))
<1> DEFINE given == [input EXCEPT !["code"] = IF kind = "user" THEN @ ELSE AnyCode]
           p == Normalized(kind, given)
           q == Replaced(kind, stored, input)
<1>1. given \in [Field -> Text]
  BY TextsOfWords
<1>2. PassesConstraints(kind, p) /\ p \in StoredProfiles
  BY <1>1, CreationsPassConstraints, NormalizedFields
<1>3. stored["code"] # NoWord /\ stored["code"] \in Words \cup {NoWord}
  BY DEF PassesConstraints, StoredProfiles, Field
<1>4. Normalized(kind, input) \in StoredProfiles
  BY NormalizedFields
<1>5. q = [Normalized(kind, input) EXCEPT !["code"] = IF kind = "user" THEN @ ELSE stored["code"]]
  BY DEF Replaced
<1>6. q \in StoredProfiles
  BY <1>3, <1>4, <1>5 DEF StoredProfiles
<1>7. \A f \in Field : f # "code" => given[f] = input[f]
  OBVIOUS
<1>8. \A f \in Field : f # "code" => q[f] = p[f]
  BY <1>4, <1>5, <1>7 DEF Normalized, StoredProfiles
<1>9. q["code"] # NoWord
  <2>1. CASE kind = "user"
    <3>1. given = input
      BY <2>1
    <3>2. q["code"] = p["code"]
      BY <1>4, <1>5, <2>1, <3>1 DEF StoredProfiles, Field
    <3> QED
      BY <1>2, <2>1, <3>2 DEF PassesConstraints
  <2>2. CASE kind # "user"
    BY <1>3, <1>4, <1>5, <2>2 DEF StoredProfiles, Field
  <2> QED
    BY <2>1, <2>2
<1> HIDE DEF p, q, given
<1>10. PassesConstraints(kind, q)
  BY <1>2, <1>8, <1>9 DEF PassesConstraints, Field
<1> QED
  BY <1>6, <1>10 DEF q

-----------------------------------------------------------------------------
(***************************************************************************)
(* The rows of the organization and the identities.                        *)
(***************************************************************************)
HeadquartersOnRows ==
  /\ OneHeadquarters
  /\ \A b \in Branches : entity[b].headquarters => StatusOf(b) # "NONE"

(* What a call knows of the rows: its path is legal; its activation had    *)
(* all its grounds when its UPDATE began; an access check lacked nothing   *)
(* ever since it began but what it lacks now, and had a usable identity.   *)
CallKnows(c) ==
  /\ c.at \in {"read", "statement"} => <<c.from, c.to>> \in Path(c.e)
  /\ c.at = "statement" => (c.grounds => c.since = {})
  /\ Checking(c) =>
       /\ c.since \subseteq AccessLacks(c.requested, entity, scopes)
       /\ "identity" \notin c.since

AccessInv ==
  /\ AccessTypeOK /\ moving \subseteq Entities
  /\ HeadquartersOnRows
  /\ \A p \in Callers : CallKnows(call[p])

(* What any step of the whole does to one of these rows.                   *)
EntityMoves(e, row) ==
  /\ row \in EntityRow(e) /\ row.status # "NONE"
  /\ entity' = [entity EXCEPT ![e] = row]
  /\ StatusOf(e) \notin {"NONE", row.status} => <<StatusOf(e), row.status>> \in Path(e)
  /\ row.headquarters => HeadquartersFree(e) \/ entity[e].headquarters

EntityStep ==
  UNCHANGED entity \/ \E e \in Entities : \E row \in EntityRow(e) : EntityMoves(e, row)

LEMMA RowOfEntity ==
  ASSUME AccessInv, NEW e \in Entities
  PROVE  /\ entity[e] \in [status : EntityStatus, version : 0..MaxEntityVersion,
                            headquarters : BOOLEAN, profile : StoredProfiles]
         /\ StatusOf(e) # "NONE" => PassesConstraints(Kind(e), entity[e].profile)
BY DEF AccessInv, AccessTypeOK, EntityTypeOK, EntityRow, StatusOf

LEMMA CreatedMoves ==
  ASSUME AccessInv, NEW e \in Entities, NEW inputs, inputs \subseteq [Field -> Text],
         NEW flags \in SUBSET BOOLEAN, Created(e, inputs, flags)
  PROVE  \E row \in EntityRow(e) : EntityMoves(e, row)
<1>1. PICK input \in inputs, headquarters \in flags :
        /\ Accepts(Kind(e), input)
        /\ headquarters => HeadquartersFree(e)
        /\ entity' = [entity EXCEPT ![e] =
             [status |-> InitialStatus(e), version |-> 1, headquarters |-> headquarters,
              profile |-> Normalized(Kind(e), input)]]
  BY DEF Created
<1> DEFINE profile == Normalized(Kind(e), input)
           row == [status |-> InitialStatus(e), version |-> 1, headquarters |-> headquarters,
                   profile |-> profile]
<1>2. profile \in StoredProfiles /\ PassesConstraints(Kind(e), profile)
  BY <1>1, NormalizedFields, CreationsPassConstraints
<1>3. InitialStatus(e) \in EntityStatus /\ InitialStatus(e) # "NONE"
  BY DEF InitialStatus, EntityStatus
<1>4. 1 \in 0..MaxEntityVersion
  BY EntityVersionAssumption
<1>5. entity' = [entity EXCEPT ![e] = row]
  BY <1>1
<1>6. StatusOf(e) = "NONE"
  BY DEF Created
<1> HIDE DEF profile
<1>7. row \in EntityRow(e) /\ row.status = InitialStatus(e) /\ row.headquarters = headquarters
  BY <1>2, <1>3, <1>4 DEF EntityRow
<1> HIDE DEF row
<1> QED
  BY <1>1, <1>3, <1>5, <1>6, <1>7 DEF EntityMoves

LEMMA ProfileUpdatedMoves ==
  ASSUME AccessInv, NEW e \in {"tenant", "company", "user"} \cup Branches,
         NEW inputs, inputs \subseteq [Field -> Text],
         NEW flags \in SUBSET BOOLEAN, ProfileUpdated(e, inputs, flags)
  PROVE  \E row \in EntityRow(e) : EntityMoves(e, row)
<1>0. e \in Entities /\ Kind(e) \in {"tenant", "company", "branch", "user"}
      /\ (e = "user" <=> Kind(e) = "user")
  BY DEF Entities, Branches, Kind
<1> DEFINE stored == entity[e].profile
<1>1. PICK input \in inputs, headquarters \in flags :
        /\ Accepts(Kind(e), [input EXCEPT !["code"] = IF e = "user" THEN @ ELSE AnyCode])
        /\ headquarters => HeadquartersFree(e)
        /\ entity' = [entity EXCEPT ![e].version = @ + 1, ![e].headquarters = headquarters,
                                    ![e].profile = Replaced(Kind(e), stored, input)]
  BY DEF ProfileUpdated
<1>2. StatusOf(e) # "NONE" /\ entity[e].version < MaxEntityVersion
  BY DEF ProfileUpdated
<1>3. /\ entity[e] \in [status : EntityStatus, version : 0..MaxEntityVersion,
                         headquarters : BOOLEAN, profile : StoredProfiles]
      /\ PassesConstraints(Kind(e), stored)
  BY <1>0, <1>2, RowOfEntity
<1> DEFINE profile == Replaced(Kind(e), stored, input)
           row == [entity[e] EXCEPT !.version = @ + 1, !.headquarters = headquarters,
                                    !.profile = profile]
<1>4. input \in [Field -> Text] /\ headquarters \in BOOLEAN
  OBVIOUS
<1>5. Accepts(Kind(e), [input EXCEPT !["code"] = IF Kind(e) = "user" THEN @ ELSE AnyCode])
  BY <1>0, <1>1
<1>6. profile \in StoredProfiles /\ PassesConstraints(Kind(e), profile)
  BY <1>0, <1>3, <1>4, <1>5, UpdatesPassConstraints
<1>7. entity[e].version + 1 \in 0..MaxEntityVersion
  BY <1>2, <1>3, EntityVersionAssumption
<1>8. entity' = [entity EXCEPT ![e] = row]
  BY <1>1
<1> HIDE DEF profile, stored
<1>9. /\ row \in EntityRow(e) /\ row.status = StatusOf(e) /\ row.headquarters = headquarters
  BY <1>3, <1>4, <1>6, <1>7 DEF EntityRow, StatusOf
<1> HIDE DEF row
<1> QED
  BY <1>1, <1>2, <1>8, <1>9 DEF EntityMoves
LEMMA StatusMoves ==
  ASSUME AccessInv, NEW e \in Entities, NEW to \in EntityStatus, to # "NONE",
         StatusOf(e) # "NONE", entity[e].version < MaxEntityVersion,
         <<StatusOf(e), to>> \in Path(e),
         entity' = [entity EXCEPT ![e].status = to, ![e].version = @ + 1]
  PROVE  \E row \in EntityRow(e) : EntityMoves(e, row)
<1> DEFINE row == [entity[e] EXCEPT !.status = to, !.version = @ + 1]
<1>1. /\ entity[e] \in [status : EntityStatus, version : 0..MaxEntityVersion,
                         headquarters : BOOLEAN, profile : StoredProfiles]
      /\ PassesConstraints(Kind(e), entity[e].profile)
  BY RowOfEntity
<1>2. entity[e].version + 1 \in 0..MaxEntityVersion
  BY <1>1, EntityVersionAssumption
<1>3. entity' = [entity EXCEPT ![e] = row]
  OBVIOUS
<1>4. /\ row \in EntityRow(e) /\ row.status = to
      /\ row.headquarters = entity[e].headquarters
  BY <1>1, <1>2 DEF EntityRow
<1> HIDE DEF row
<1> QED
  BY <1>3, <1>4 DEF EntityMoves

(* What the calls and the checks are, by their stage.                      *)
Calls == {IdleCall} \cup TransitionCall \cup AccessCall

LEMMA CallKinds ==
  ASSUME NEW c \in Calls
  PROVE  /\ Checking(c) => c \in AccessCall /\ c.at \notin {"read", "statement"}
         /\ c.at \in {"read", "statement"} => c \in TransitionCall /\ ~Checking(c)
BY DEF Calls, Checking, IdleCall, TransitionCall, AccessCall

RealStatus == EntityStatus \ {"NONE"}

LEMMA ProductIn ==
  ASSUME NEW A, NEW B, A \subseteq RealStatus, B \subseteq RealStatus
  PROVE  A \X B \subseteq RealStatus \X RealStatus
OBVIOUS

LEMMA EveryPathIsOfStatuses ==
  ASSUME NEW e \in Entities, NEW from, NEW to, <<from, to>> \in Path(e)
  PROVE  to \in EntityStatus /\ to # "NONE" /\ from # "NONE"
<1> USE DEF RealStatus, EntityStatus
<1>1. TenantPath \subseteq RealStatus \X RealStatus
  <2>1. {"PROVISIONING"} \X {"ACTIVE", "CLOSING"} \subseteq RealStatus \X RealStatus
    BY ProductIn
  <2>2. {"ACTIVE"} \X {"SUSPENDED", "CLOSING"} \subseteq RealStatus \X RealStatus
    BY ProductIn
  <2>3. {"SUSPENDED"} \X {"ACTIVE", "CLOSING"} \subseteq RealStatus \X RealStatus
    BY ProductIn
  <2>4. {"CLOSING"} \X {"ACTIVE", "CLOSED"} \subseteq RealStatus \X RealStatus
    BY ProductIn
  <2> HIDE DEF RealStatus
  <2> QED
    BY <2>1, <2>2, <2>3, <2>4 DEF TenantPath
<1>2. CompanyPath \subseteq RealStatus \X RealStatus /\ BranchPath = CompanyPath
  <2>1. {"DRAFT"} \X {"ACTIVE", "CLOSED"} \subseteq RealStatus \X RealStatus
    BY ProductIn
  <2>2. {"ACTIVE"} \X {"INACTIVE", "CLOSED"} \subseteq RealStatus \X RealStatus
    BY ProductIn
  <2>3. {"INACTIVE"} \X {"ACTIVE", "CLOSED"} \subseteq RealStatus \X RealStatus
    BY ProductIn
  <2> HIDE DEF RealStatus
  <2> QED
    BY <2>1, <2>2, <2>3 DEF CompanyPath, BranchPath
<1>3. UserPath \subseteq RealStatus \X RealStatus
  <2>1. {"PENDING"} \X {"ACTIVE", "CLOSED"} \subseteq RealStatus \X RealStatus
    BY ProductIn
  <2>2. {"ACTIVE"} \X {"SUSPENDED", "CLOSED"} \subseteq RealStatus \X RealStatus
    BY ProductIn
  <2>3. {"SUSPENDED"} \X {"ACTIVE", "CLOSED"} \subseteq RealStatus \X RealStatus
    BY ProductIn
  <2> HIDE DEF RealStatus
  <2> QED
    BY <2>1, <2>2, <2>3 DEF UserPath
<1>4. MembershipPath \subseteq RealStatus \X RealStatus
  <2>1. {"PENDING"} \X {"ACTIVE", "REVOKED"} \subseteq RealStatus \X RealStatus
    BY ProductIn
  <2>2. {"ACTIVE"} \X {"SUSPENDED", "REVOKED"} \subseteq RealStatus \X RealStatus
    BY ProductIn
  <2>3. {"SUSPENDED"} \X {"ACTIVE", "REVOKED"} \subseteq RealStatus \X RealStatus
    BY ProductIn
  <2> HIDE DEF RealStatus
  <2> QED
    BY <2>1, <2>2, <2>3 DEF MembershipPath
<1>5. IdentityPath \cup AssignmentPath \subseteq RealStatus \X RealStatus
  BY DEF IdentityPath, AssignmentPath
<1>6. Path(e) \in {TenantPath, CompanyPath, BranchPath, UserPath, MembershipPath,
                   IdentityPath, AssignmentPath, {}}
  BY DEF Path
<1> HIDE DEF RealStatus
<1>7. <<from, to>> \in RealStatus \X RealStatus
  BY <1>1, <1>2, <1>3, <1>4, <1>5, <1>6
<1>8. from \in RealStatus /\ to \in RealStatus
  BY <1>7
<1> QED
  BY <1>8 DEF RealStatus

LEMMA AdministrationMoves ==
  ASSUME AccessInv, NEW inputs, inputs \subseteq [Field -> Text], Administration(inputs)
  PROVE  EntityStep
<1> USE DEF EntityStep
<1>1. NoInput \in [Field -> Text] /\ {NoInput} \subseteq [Field -> Text]
      /\ {FALSE} \in SUBSET BOOLEAN /\ BOOLEAN \in SUBSET BOOLEAN
  BY TextsOfWords
<1>2. CASE OrganizationAdministration(inputs)
  <2>1. \/ \E e \in {"tenant", "company", "user"} :
             Created(e, inputs, {FALSE}) \/ ProfileUpdated(e, inputs, {FALSE})
        \/ \E b \in Branches : Created(b, inputs, BOOLEAN) \/ ProfileUpdated(b, inputs, BOOLEAN)
    BY <1>2 DEF OrganizationAdministration, CreateTenant, CreateCompany, CreateBranch,
                CreateUser, UpdateTenantProfile, UpdateCompanyProfile, UpdateBranchProfile,
                UpdateUserProfile
  <2>2. {"tenant", "company", "user"} \cup Branches \subseteq Entities
    BY DEF Entities, Branches
  <2> QED
    BY <1>1, <2>1, <2>2, CreatedMoves, ProfileUpdatedMoves
<1>3. CASE AccessAdministration
  <2>1. ASSUME NEW e \in Entities, Created(e, {NoInput}, {FALSE}) PROVE EntityStep
    BY <1>1, <2>1, CreatedMoves
  <2>2. CASE RevokeAssignment
    <3>1. PICK a \in moving \cap Assignments :
            /\ StatusOf(a) = "ACTIVE" /\ entity[a].version < MaxEntityVersion
            /\ entity' = [entity EXCEPT ![a].status = "REVOKED", ![a].version = @ + 1]
      BY <2>2 DEF RevokeAssignment, Operational
    <3>2. a \in Entities
      BY DEF Entities
    <3>3. <<"ACTIVE", "REVOKED">> \in Path(a)
      BY DEF Path, AssignmentPath, Assignments, Branches
    <3>4. \E row \in EntityRow(a) : EntityMoves(a, row)
      BY <3>1, <3>2, <3>3, StatusMoves DEF EntityStatus
    <3> QED
      BY <3>2, <3>4
  <2>3. {"membership", "identity", "permission", "role", "rolePermission"} \cup Assignments
          \subseteq Entities
    BY DEF Entities
  <2> QED
    BY <1>3, <2>1, <2>2, <2>3
       DEF AccessAdministration, CreateMembership, LinkIdentity, CreatePermission, CreateRole,
           GrantPermission, AssignRole
<1> QED
  BY <1>2, <1>3 DEF Administration

LEMMA TransitionMoves ==
  ASSUME AccessInv, NEW p \in Callers, call[p].at = "statement", TransitionStatus(call[p])
  PROVE  EntityStep
<1> USE DEF EntityStep
<1> DEFINE c == call[p]
<1>1. CASE UNCHANGED entity
  BY <1>1
<1>2. CASE ~UNCHANGED entity
  <2>1. /\ StatusOf(c.e) = c.from /\ entity[c.e].version < MaxEntityVersion
        /\ entity' = [entity EXCEPT ![c.e].status = c.to, ![c.e].version = @ + 1]
    BY <1>2 DEF TransitionStatus, TransitionMatches
  <2>2. c \in Calls /\ CallKnows(c)
    BY DEF AccessInv, AccessTypeOK, Calls
  <2>3. c.e \in Entities
    BY <2>2, CallKinds DEF TransitionCall
  <2>4. <<c.from, c.to>> \in Path(c.e)
    BY <2>2 DEF CallKnows
  <2>5. \E row \in EntityRow(c.e) : EntityMoves(c.e, row)
    BY <2>1, <2>3, <2>4, EveryPathIsOfStatuses, StatusMoves
  <2> QED
    BY <2>3, <2>5
<1> QED
  BY <1>1, <1>2

LEMMA EntityStepKeepsRows ==
  ASSUME AccessInv, EntityStep
  PROVE  DOMAIN entity' = Entities /\ (\A e \in Entities : entity'[e] \in EntityRow(e))
         /\ HeadquartersOnRows'
<1>1. DOMAIN entity = Entities /\ (\A e \in Entities : entity[e] \in EntityRow(e))
      /\ HeadquartersOnRows
  BY DEF AccessInv, AccessTypeOK, EntityTypeOK
<1>2. CASE UNCHANGED entity
  BY <1>1, <1>2 DEF HeadquartersOnRows, OneHeadquarters, StatusOf
<1>3. ASSUME NEW e \in Entities, NEW row \in EntityRow(e), EntityMoves(e, row)
      PROVE  /\ DOMAIN entity' = Entities /\ \A d \in Entities : entity'[d] \in EntityRow(d)
             /\ HeadquartersOnRows'
  <2>1. /\ DOMAIN entity' = Entities
        /\ \A d \in Entities : entity'[d] = IF d = e THEN row ELSE entity[d]
    BY <1>1, <1>3 DEF EntityMoves
  <2>2. \A d \in Entities : entity'[d] \in EntityRow(d)
    BY <1>1, <2>1
  <2>3. Branches \subseteq Entities
    BY DEF Entities
  <2>4. row.status # "NONE"
        /\ (row.headquarters => HeadquartersFree(e) \/ entity[e].headquarters)
    BY <1>3 DEF EntityMoves
  <2>5. \A b \in Branches : entity'[b].headquarters => entity'[b].status # "NONE"
    BY <1>1, <2>1, <2>3, <2>4 DEF HeadquartersOnRows, StatusOf
  <2>6. ASSUME NEW b \in Branches, NEW d \in Branches, b # d,
               entity'[b].headquarters, entity'[d].headquarters
        PROVE  FALSE
    <3>1. ASSUME NEW x \in Branches, NEW y \in Branches, x # y, x = e,
                 entity'[x].headquarters, entity'[y].headquarters
          PROVE  FALSE
      <4>1. entity[y].headquarters /\ row.headquarters /\ StatusOf(y) # "NONE"
        BY <1>1, <2>1, <2>3, <3>1 DEF HeadquartersOnRows
      <4>2. ~HeadquartersFree(e)
        BY <3>1, <4>1 DEF HeadquartersFree
      <4>3. entity[e].headquarters
        BY <2>4, <4>1, <4>2
      <4> QED
        BY <1>1, <3>1, <4>1, <4>3 DEF HeadquartersOnRows, OneHeadquarters
    <3>2. CASE b # e /\ d # e
      BY <1>1, <2>1, <2>3, <2>6, <3>2 DEF HeadquartersOnRows, OneHeadquarters
    <3> QED
      BY <2>6, <3>1, <3>2
  <2> QED
    BY <2>1, <2>2, <2>5, <2>6 DEF HeadquartersOnRows, OneHeadquarters, StatusOf
<1> QED
  BY <1>2, <1>3 DEF EntityStep
-----------------------------------------------------------------------------
(***************************************************************************)
(* The calls, watched while the rows change.                               *)
(***************************************************************************)
LEMMA WatchingKeepsCall ==
  ASSUME NEW table, NEW granted, NEW q \in Callers, call[q] \in Calls
  PROVE  LET c == call[q]
             w == Watching(table, granted)[q] IN
         /\ w \in Calls /\ w.at = c.at
         /\ c.at \in {"read", "statement"} =>
              w.from = c.from /\ w.to = c.to /\ w.e = c.e /\ w.grounds = c.grounds
         /\ c.at = "statement" => w.since \subseteq c.since
         /\ Checking(c) => /\ w.requested = c.requested
                           /\ w.since = c.since \cap AccessLacks(c.requested, table, granted)
<1> DEFINE c == call[q]
           w == Watching(table, granted)[q]
<1>1. CASE Checking(c)
  <2>1. c \in AccessCall /\ c.at \notin {"read", "statement"}
    BY <1>1, CallKinds
  <2> DEFINE lacks == AccessLacks(c.requested, table, granted)
  <2>2. w = [c EXCEPT !.since = c.since \cap lacks]
    BY <1>1 DEF Watching
  <2> HIDE DEF w, lacks
  <2>3. w \in AccessCall /\ w.at = c.at /\ w.requested = c.requested
        /\ w.since = c.since \cap lacks
    BY <2>1, <2>2 DEF AccessCall
  <2> QED
    BY <1>1, <2>1, <2>3 DEF Calls, w, lacks
<1>2. CASE c.at = "statement"
  <2>1. c \in TransitionCall /\ ~Checking(c)
    BY <1>2, CallKinds
  <2> DEFINE lacks == TransitionLacks(c, table)
  <2>2. w = [c EXCEPT !.since = c.since \cap lacks]
    BY <1>2, <2>1 DEF Watching
  <2> HIDE DEF w, lacks
  <2>3. /\ w \in TransitionCall /\ w.at = c.at /\ w.from = c.from /\ w.to = c.to
        /\ w.e = c.e /\ w.grounds = c.grounds /\ w.since = c.since \cap lacks
    BY <2>1, <2>2 DEF TransitionCall
  <2> QED
    BY <1>2, <2>1, <2>3 DEF Calls, w
<1>3. CASE ~Checking(c) /\ c.at # "statement"
  <2>1. w = c
    BY <1>3 DEF Watching
  <2> QED
    BY <1>3, <2>1
<1> QED
  BY <1>1, <1>2, <1>3

LEMMA WatchingKnows ==
  ASSUME AccessInv, NEW q \in Callers, call'[q] = Watching(entity', scopes')[q]
  PROVE  call'[q] \in Calls /\ CallKnows(call[q])'
<1> DEFINE c == call[q]
           w == call'[q]
<1>1. c \in Calls /\ CallKnows(c)
  BY DEF AccessInv, AccessTypeOK, Calls
<1>2. /\ w \in Calls /\ w.at = c.at
      /\ c.at \in {"read", "statement"} =>
           w.from = c.from /\ w.to = c.to /\ w.e = c.e /\ w.grounds = c.grounds
      /\ c.at = "statement" => w.since \subseteq c.since
      /\ Checking(c) => /\ w.requested = c.requested
                        /\ w.since = c.since \cap AccessLacks(c.requested, entity', scopes')
  BY <1>1, WatchingKeepsCall
<1>3. w.at \in {"read", "statement"} => <<w.from, w.to>> \in Path(w.e)
  BY <1>1, <1>2 DEF CallKnows
<1>4. w.at = "statement" => (w.grounds => w.since = {})
  BY <1>1, <1>2 DEF CallKnows
<1>5. Checking(w) => /\ w.since \subseteq AccessLacks(w.requested, entity', scopes')
                     /\ "identity" \notin w.since
  BY <1>1, <1>2 DEF CallKnows, Checking
<1> QED
  BY <1>2, <1>3, <1>4, <1>5 DEF CallKnows

LEMMA UntouchedKnows ==
  ASSUME AccessInv, NEW q \in Callers, call'[q] = call[q], UNCHANGED <<entity, scopes>>
  PROVE  call'[q] \in Calls /\ CallKnows(call[q])'
<1>1. call[q] \in Calls /\ CallKnows(call[q])
  BY DEF AccessInv, AccessTypeOK, Calls
<1> QED
  BY <1>1 DEF CallKnows

LEMMA IdleKnows ==
  ASSUME NEW q \in Callers, call'[q] = IdleCall
  PROVE  call'[q] \in Calls /\ CallKnows(call[q])'
BY DEF Calls, IdleCall, CallKnows, Checking

(* A call that begins a transition, and one whose UPDATE begins.           *)
LEMMA ReadKnows ==
  ASSUME AccessInv, NEW p \in Callers, NEW es, ReadForTransition(p, es),
         UNCHANGED <<entity, scopes>>, NEW q \in Callers
  PROVE  call'[q] \in Calls /\ CallKnows(call[q])'
<1>1. PICK e \in moving \cap es, to \in EntityStatus :
        /\ entity[e].version \in 1..(MaxEntityVersion - 1)
        /\ <<StatusOf(e), to>> \in Path(e)
        /\ call' = [call EXCEPT ![p] =
             [at |-> "read", e |-> e, from |-> StatusOf(e), to |-> to,
              version |-> entity[e].version, grounds |-> FALSE, since |-> {}]]
  BY DEF ReadForTransition
<1> DEFINE c == [at |-> "read", e |-> e, from |-> StatusOf(e), to |-> to,
                 version |-> entity[e].version, grounds |-> FALSE, since |-> {}]
<1>2. call \in [Callers -> Calls] /\ e \in Entities
  BY DEF AccessInv, AccessTypeOK, Calls
<1>3. CASE q # p
  BY <1>1, <1>2, <1>3, UntouchedKnows
<1>4. CASE q = p
  <2>1. call'[q] = c
    BY <1>1, <1>2, <1>4
  <2>2. StatusOf(e) \in EntityStatus /\ entity[e].version \in 0..MaxEntityVersion
    BY <1>2, RowOfEntity DEF StatusOf
  <2>3. c \in TransitionCall /\ c.at = "read" /\ c.e = e /\ c.from = StatusOf(e) /\ c.to = to
    BY <1>2, <2>2 DEF TransitionCall
  <2>4. c \in Calls
    BY <2>3 DEF Calls
  <2>5. ~Checking(c)
    BY <2>3 DEF Checking
  <2> HIDE DEF c
  <2> QED
    BY <1>1, <2>1, <2>3, <2>4, <2>5 DEF CallKnows
<1> QED
  BY <1>3, <1>4

LEMMA SnapshotKnows ==
  ASSUME AccessInv, NEW p \in Callers, SnapshotForTransition(p),
         UNCHANGED <<entity, scopes>>, NEW q \in Callers
  PROVE  call'[q] \in Calls /\ CallKnows(call[q])'
<1> DEFINE c == call[p]
           grounds == c.to # "ACTIVE" \/ ParentsOperational(c.e)
           lacks == TransitionLacks(c, entity)
           w == [c EXCEPT !.at = "statement", !.grounds = grounds, !.since = lacks]
<1>1. c.at = "read" /\ call' = [call EXCEPT ![p] = w]
  BY DEF SnapshotForTransition
<1>2. call \in [Callers -> Calls] /\ c \in TransitionCall /\ CallKnows(c)
  <2>1. call \in [Callers -> Calls] /\ CallKnows(c)
    BY DEF AccessInv, AccessTypeOK, Calls
  <2> QED
    BY <1>1, <2>1, CallKinds
<1>3. CASE q # p
  BY <1>1, <1>2, <1>3, UntouchedKnows
<1>4. CASE q = p
  <2>1. call'[q] = w
    BY <1>1, <1>2, <1>4
  <2>2. grounds \in BOOLEAN
    OBVIOUS
  <2>3. lacks \subseteq Entities \cup {"authority"}
    <3>1. ActivationParents(c.e) \subseteq Entities
      BY DEF ActivationParents, Entities
    <3> QED
      BY <3>1 DEF TransitionLacks, NotOperational
  <2>4. grounds => lacks = {}
    BY DEF TransitionLacks, NotOperational, ParentsOperational, Operational, StatusOf
  <2>5. <<c.from, c.to>> \in Path(c.e)
    BY <1>1, <1>2 DEF CallKnows
  <2> HIDE DEF grounds, lacks
  <2>6. /\ w \in TransitionCall /\ w.at = "statement" /\ w.e = c.e /\ w.from = c.from
        /\ w.to = c.to /\ w.since = lacks /\ w.grounds = grounds
    BY <1>2, <2>2, <2>3 DEF TransitionCall
  <2>7. w \in Calls /\ ~Checking(w)
    BY <2>6 DEF Calls, Checking
  <2> HIDE DEF w
  <2> QED
    BY <2>1, <2>4, <2>5, <2>6, <2>7 DEF CallKnows
<1> QED
  BY <1>3, <1>4
(* A check that goes on, or ends.                                          *)
LEMMA ContinueKnows ==
  ASSUME AccessInv, NEW p \in Callers, Checking(call[p]), NEW found,
         NEW at \in {"membership", "permission", "scope", "granted"},
         Continue(p, found, at), UNCHANGED <<entity, scopes>>, NEW q \in Callers
  PROVE  call'[q] \in Calls /\ CallKnows(call[q])'
<1> DEFINE c == call[p]
           w == [c EXCEPT !.at = at]
<1>1. call \in [Callers -> Calls] /\ c \in AccessCall /\ CallKnows(c)
  BY CallKinds DEF AccessInv, AccessTypeOK, Calls
<1>2. call' = [call EXCEPT ![p] = IF found THEN w ELSE IdleCall]
  BY DEF Continue
<1>3. CASE q # p
  BY <1>1, <1>2, <1>3, UntouchedKnows
<1>4. CASE q = p /\ ~found
  <2>1. call'[q] = IdleCall
    BY <1>1, <1>2, <1>4
  <2> QED
    BY <2>1, IdleKnows
<1>5. CASE q = p /\ found
  <2>1. call'[q] = w
    BY <1>1, <1>2, <1>5
  <2>2. /\ w \in AccessCall /\ w.at = at /\ w.requested = c.requested /\ w.since = c.since
    BY <1>1 DEF AccessCall
  <2>3. /\ c.since \subseteq AccessLacks(c.requested, entity, scopes)
        /\ "identity" \notin c.since
    BY <1>1 DEF CallKnows
  <2> HIDE DEF w
  <2> QED
    BY <2>1, <2>2, <2>3 DEF CallKnows, Calls
<1> QED
  BY <1>3, <1>4, <1>5

LEMMA ResolveIdentityKnows ==
  ASSUME AccessInv, NEW p \in Callers, ResolveIdentity(p), UNCHANGED <<entity, scopes>>,
         NEW q \in Callers
  PROVE  call'[q] \in Calls /\ CallKnows(call[q])'
<1>1. PICK requested \in Requestable :
        call' = [call EXCEPT ![p] =
          IF IdentityUsable
          THEN [at |-> "user", requested |-> requested,
                since |-> AccessLacks(requested, entity, scopes)]
          ELSE IdleCall]
  BY DEF ResolveIdentity
<1> DEFINE lacks == AccessLacks(requested, entity, scopes)
           w == [at |-> "user", requested |-> requested, since |-> lacks]
<1>2. call \in [Callers -> Calls]
  BY DEF AccessInv, AccessTypeOK, Calls
<1>3. CASE q # p
  BY <1>1, <1>2, <1>3, UntouchedKnows
<1>4. CASE q = p /\ ~IdentityUsable
  <2>1. call'[q] = IdleCall
    BY <1>1, <1>2, <1>4
  <2> QED
    BY <2>1, IdleKnows
<1>5. CASE q = p /\ IdentityUsable
  <2>1. call'[q] = w
    BY <1>1, <1>2, <1>5
  <2>2. lacks \subseteq Entities \cup {"authority"}
    BY DEF AccessLacks, NotOperational, PermissionRows, Entities
  <2>3. "identity" \notin lacks
    BY <1>5 DEF AccessLacks, NotOperational, IdentityUsable, Operational, StatusOf
  <2> HIDE DEF lacks
  <2>4. w \in AccessCall /\ w.at = "user" /\ w.requested = requested /\ w.since = lacks
    BY <2>2, ScopesAssumption DEF AccessCall
  <2> HIDE DEF w
  <2> QED
    BY <2>1, <2>3, <2>4 DEF CallKnows, Calls, lacks
<1> QED
  BY <1>3, <1>4, <1>5

LEMMA AuthorizedOperationKnows ==
  ASSUME AccessInv, NEW p \in Callers, AuthorizedOperation(p), NEW q \in Callers
  PROVE  call'[q] \in Calls /\ CallKnows(call[q])'
<1>1. UNCHANGED <<entity, scopes>>
  BY DEF AuthorizedOperation
<1>2. CASE ResolveIdentity(p)
  BY <1>1, <1>2, ResolveIdentityKnows
<1>3. CASE ResolveUser(p) \/ ResolveMembership(p) \/ RequirePermission(p) \/ RequireScope(p)
  <2>1. Checking(call[p])
    BY <1>3 DEF Checking, ResolveUser, ResolveMembership, RequirePermission, RequireScope
  <2> QED
    BY <1>1, <1>3, <2>1, ContinueKnows
       DEF ResolveUser, ResolveMembership, RequirePermission, RequireScope
<1> QED
  BY <1>2, <1>3 DEF AuthorizedOperation

-----------------------------------------------------------------------------
(***************************************************************************)
(* Every step of the whole, as the access part sees it.                    *)
(***************************************************************************)
ScopesMove ==
  \/ UNCHANGED scopes
  \/ \E a \in Assignments, s \in ScopeTarget : scopes' = [scopes EXCEPT ![a] = @ \cup {s}]

(* An administrative write, watched by all calls. *)
AdministrativeStep == EntityStep /\ ScopesMove /\ call' = Watching(entity', scopes')

TransitionStep(p) ==
  /\ call[p].at = "statement" /\ TransitionStatus(call[p]) /\ EntityStep
  /\ call' = [Watching(entity', scopes) EXCEPT ![p] = IdleCall]
  /\ UNCHANGED scopes

CallStep(p) ==
  /\ \/ TransitionRead(p) \/ SnapshotForTransition(p) \/ AuthorizedOperation(p)
  /\ UNCHANGED <<entity, scopes>>

AccessStep ==
  /\ UNCHANGED moving
  /\ \/ UNCHANGED <<entity, call, scopes>>
     \/ AdministrativeStep
     \/ \E p \in Callers : TransitionStep(p) \/ CallStep(p)

LEMMA AdministrationIsStep ==
  ASSUME AccessInv, NEW inputs, inputs \subseteq [Field -> Text], Administration(inputs)
  PROVE  AccessStep
<1>1. EntityStep \/ (AssignScope /\ UNCHANGED entity)
  BY AdministrationMoves
<1>2. EntityStep
  BY <1>1 DEF EntityStep
<1>3. ScopesMove
  BY ScopesAssumption DEF Administration, AssignScope, ScopesMove
<1> QED
  BY <1>2, <1>3 DEF Administration, AccessStep, AdministrativeStep

LEMMA NextIsAccessStep ==
  ASSUME AccessInv, [Next]_tenantVars
  PROVE  AccessStep
<1>1. CASE UNCHANGED accessVars
  BY <1>1 DEF AccessStep, accessVars
<1>2. CASE ProfilesNext
  <2>1. ProfileInputs \subseteq [Field -> Text]
    BY InputsAssumption
  <2> QED
    BY <1>2, <2>1, AdministrationIsStep DEF ProfilesNext
<1>3. CASE AccessNext
  <2>1. CASE Administration(PlainInputs)
    <3>1. PlainInputs \subseteq [Field -> Text]
      BY InputsAssumption
    <3> QED
      BY <2>1, <3>1, AdministrationIsStep
  <2>2. ASSUME NEW p \in Callers, AdministrativeCall(p) PROVE AccessStep
    <3>1. CASE (TransitionRead(p) \/ SnapshotForTransition(p)) /\ UNCHANGED entity
      BY <2>2, <3>1 DEF AdministrativeCall, AccessStep, CallStep
    <3>2. CASE /\ call[p].at = "statement" /\ TransitionStatus(call[p])
               /\ call' = [Watching(entity', scopes) EXCEPT ![p] = IdleCall]
      <4>1. EntityStep
        BY <3>2, TransitionMoves
      <4> QED
        BY <2>2, <3>2, <4>1 DEF AdministrativeCall, AccessStep, TransitionStep
    <3> QED
      BY <2>2, <3>1, <3>2 DEF AdministrativeCall
  <2>3. ASSUME NEW p \in Callers, AuthorizedOperation(p) PROVE AccessStep
    BY <2>3 DEF AuthorizedOperation, AccessStep, CallStep
  <2> QED
    BY <1>3, <2>1, <2>2, <2>3 DEF AccessNext
<1> QED
  BY <1>1, <1>2, <1>3 DEF Next, tenantVars

LEMMA AccessStepKeepsInv ==
  ASSUME AccessInv, AccessStep
  PROVE  AccessInv'
<1>1. /\ DOMAIN entity = Entities /\ call \in [Callers -> Calls]
      /\ scopes \in [Assignments -> SUBSET ScopeTarget]
      /\ moving \subseteq Entities /\ UNCHANGED moving
  BY DEF AccessInv, AccessTypeOK, EntityTypeOK, AccessStep, Calls
<1>2. EntityStep
  BY DEF AccessStep, AdministrativeStep, TransitionStep, CallStep, EntityStep
<1>3. /\ DOMAIN entity' = Entities /\ \A e \in Entities : entity'[e] \in EntityRow(e)
      /\ HeadquartersOnRows'
  BY <1>2, EntityStepKeepsRows
<1>4. scopes' \in [Assignments -> SUBSET ScopeTarget]
  <2>1. ScopesMove
    BY DEF AccessStep, AdministrativeStep, TransitionStep, CallStep, ScopesMove
  <2> QED
    BY <1>1, <2>1 DEF ScopesMove
<1>5. /\ call' \in [Callers -> Calls]
      /\ \A q \in Callers : CallKnows(call[q])'
  <2>1. CASE UNCHANGED <<entity, call, scopes>>
    BY <1>1, <2>1, UntouchedKnows
  <2>2. CASE AdministrativeStep
    <3>1. \A q \in Callers : call'[q] \in Calls /\ CallKnows(call[q])'
      BY <2>2, WatchingKnows DEF AdministrativeStep
    <3>2. call' = [q \in Callers |-> call'[q]]
      BY <2>2 DEF AdministrativeStep, Watching
    <3> QED
      BY <3>1, <3>2
  <2>3. ASSUME NEW p \in Callers, TransitionStep(p)
        PROVE  /\ call' \in [Callers -> Calls]
               /\ \A q \in Callers : CallKnows(call[q])'
    <3> DEFINE W == Watching(entity', scopes)
    <3>1. W = [q \in Callers |-> W[q]]
      BY DEF Watching
    <3> HIDE DEF W
    <3>2. /\ call' = [W EXCEPT ![p] = IdleCall] /\ UNCHANGED scopes
      BY <2>3 DEF TransitionStep, W
    <3>3. /\ call' = [q \in Callers |-> call'[q]]
          /\ call'[p] = IdleCall /\ \A q \in Callers \ {p} : call'[q] = W[q]
      BY <3>1, <3>2
    <3>4. ASSUME NEW q \in Callers PROVE call'[q] \in Calls /\ CallKnows(call[q])'
      <4>1. CASE q = p
        BY <3>3, <4>1, IdleKnows
      <4>2. CASE q # p
        BY <3>2, <3>3, <4>2, WatchingKnows DEF W
      <4> QED
        BY <4>1, <4>2
    <3> QED
      BY <3>3, <3>4
  <2>4. ASSUME NEW p \in Callers, CallStep(p)
        PROVE  /\ call' \in [Callers -> Calls]
               /\ \A q \in Callers : CallKnows(call[q])'
    <3>1. ASSUME NEW q \in Callers PROVE call'[q] \in Calls /\ CallKnows(call[q])'
      <4>1. CASE TransitionRead(p)
        BY <2>4, <4>1, ReadKnows
           DEF CallStep, TransitionRead, TransitionTenant, TransitionCompany, TransitionBranch,
               TransitionUser, TransitionMembership, TransitionIdentity
      <4>2. CASE SnapshotForTransition(p)
        BY <2>4, <4>2, SnapshotKnows DEF CallStep
      <4>3. CASE AuthorizedOperation(p)
        BY <4>3, AuthorizedOperationKnows
      <4> QED
        BY <2>4, <4>1, <4>2, <4>3 DEF CallStep
    <3>2. \E c : call' = [call EXCEPT ![p] = c]
      BY <2>4 DEF CallStep, TransitionRead, TransitionTenant, TransitionCompany,
                  TransitionBranch, TransitionUser, TransitionMembership, TransitionIdentity,
                  ReadForTransition, SnapshotForTransition, AuthorizedOperation,
                  ResolveIdentity, ResolveUser, ResolveMembership, RequirePermission,
                  RequireScope, Continue
    <3>3. call' = [q \in Callers |-> call'[q]]
      BY <1>1, <3>2
    <3> QED
      BY <3>1, <3>3
  <2> QED
    BY <2>1, <2>2, <2>3, <2>4 DEF AccessStep
<1> QED
  BY <1>1, <1>3, <1>4, <1>5 DEF AccessInv, AccessTypeOK, EntityTypeOK, Calls
LEMMA SettledRowType ==
  ASSUME NEW e \in Entities
  PROVE  SettledRow(e) \in EntityRow(e) /\ SettledRow(e).status = "ACTIVE"
         /\ (SettledRow(e).headquarters <=> e = "branch2")
<1> DEFINE p == SettledProfile(e)
           version == IF InitialStatus(e) = "ACTIVE" THEN 1 ELSE 2
           hq == e = "branch2"
<1>1. AnyWord \in Words /\ AnyWord # NoWord
  BY TextsOfWords, WordsAssumption
<1>2. p \in StoredProfiles
  BY <1>1 DEF SettledProfile, StoredProfiles
<1>3. PassesConstraints(Kind(e), p)
  <2> DEFINE named == FieldsOf(Kind(e)) \cap {"code", "name", "country", "timezone", "currency"}
  <2>1. \A f \in Field : p[f] = IF f \in named THEN AnyWord ELSE NoWord
    BY DEF SettledProfile
  <2>2. CASE Kind(e) = "tenant"
    <3>1. named = {"code", "name", "timezone", "currency"}
      BY <2>2 DEF FieldsOf
    <3> QED
      BY <1>1, <2>1, <2>2, <3>1 DEF PassesConstraints, Field
  <2>3. CASE Kind(e) = "company"
    <3>1. named = {"code", "name", "country", "timezone", "currency"}
      BY <2>3 DEF FieldsOf, Field
    <3>2. /\ \A f \in {"code", "name", "country"} : p[f] # NoWord
          /\ p["taxType"] = NoWord /\ p["taxId"] = NoWord
      BY <1>1, <2>1, <3>1 DEF Field
    <3> HIDE DEF p
    <3> QED
      BY <2>3, <3>2 DEF PassesConstraints
  <2>4. CASE Kind(e) = "branch"
    <3>1. named = {"code", "name", "country", "timezone", "currency"}
      BY <2>4 DEF FieldsOf, Field
    <3>2. /\ \A f \in {"code", "name", "country"} : p[f] # NoWord
          /\ p["taxType"] = NoWord /\ p["taxId"] = NoWord
      BY <1>1, <2>1, <3>1 DEF Field
    <3> HIDE DEF p
    <3> QED
      BY <2>4, <3>2 DEF PassesConstraints
  <2>5. CASE Kind(e) = "user"
    <3>1. named = {"code", "name", "timezone"}
      BY <2>5 DEF FieldsOf
    <3> QED
      BY <1>1, <2>1, <2>5, <3>1 DEF PassesConstraints, Field
  <2>6. CASE Kind(e) \notin {"tenant", "company", "branch", "user"}
    <3>1. named = {}
      BY <2>6 DEF FieldsOf
    <3>2. p = NoProfile
      BY <3>1 DEF SettledProfile, NoProfile
    <3> HIDE DEF p
    <3> QED
      BY <2>6, <3>2 DEF PassesConstraints
  <2> QED
    BY <2>2, <2>3, <2>4, <2>5, <2>6
<1>4. version \in 0..MaxEntityVersion
  BY EntityVersionAssumption
<1>5. SettledRow(e) = [status |-> "ACTIVE", version |-> version,
                       headquarters |-> hq, profile |-> p]
  BY DEF SettledRow
<1>6. "ACTIVE" \in EntityStatus /\ hq \in BOOLEAN
  BY DEF EntityStatus
<1> HIDE DEF p, version, hq
<1>7. SettledRow(e) \in EntityRow(e) /\ SettledRow(e).status = "ACTIVE"
      /\ SettledRow(e).headquarters = hq
  BY <1>2, <1>3, <1>4, <1>5, <1>6 DEF EntityRow
<1> QED
  BY <1>7 DEF hq

LEMMA AccessInitInv ==
  ASSUME Init
  PROVE  AccessInv
<1>1. PICK m \in FamiliesOf(subject) : AccessInit(m)
  BY DEF Init
<1>2. m \subseteq Entities
  BY FamiliesAssumption DEF FamiliesOf
<1>3. /\ moving = m /\ call = [p \in Callers |-> IdleCall]
      /\ entity = [e \in Entities |->
            IF e \in m \/ e = "assignment2" THEN MovingRow ELSE SettledRow(e)]
  BY <1>1 DEF AccessInit, LifecycleInit
<1>4. \A e \in Entities : MovingRow \in EntityRow(e) /\ ~MovingRow.headquarters
  <2>1. NoProfile \in StoredProfiles /\ 0 \in 0..MaxEntityVersion
    BY EntityVersionAssumption DEF NoProfile, StoredProfiles
  <2> QED
    BY <2>1 DEF MovingRow, EntityRow, EntityStatus
<1>5. DOMAIN entity = Entities /\ \A e \in Entities : entity[e] \in EntityRow(e)
  BY <1>3, <1>4, SettledRowType
<1>6. HeadquartersOnRows
  <2>1. Branches \subseteq Entities
    BY DEF Entities
  <2>2. \A b \in Branches : entity[b].headquarters =>
          b = "branch2" /\ StatusOf(b) = "ACTIVE"
    BY <1>3, <1>4, <2>1, SettledRowType DEF StatusOf
  <2> QED
    BY <2>2 DEF HeadquartersOnRows, OneHeadquarters
<1>7. scopes \in [Assignments -> SUBSET ScopeTarget]
  <2>1. PICK granted \in Grantable :
          scopes = [a \in Assignments |->
                      IF a = "assignment1" /\ a \notin m THEN {granted} ELSE {}]
    BY <1>1 DEF AccessInit
  <2> QED
    BY <2>1, ScopesAssumption
<1>8. call \in [Callers -> Calls]
  BY <1>3 DEF Calls
<1>9. \A p \in Callers : CallKnows(call[p])
  BY <1>3 DEF CallKnows, Checking, IdleCall
<1> QED
  BY <1>2, <1>3, <1>5, <1>6, <1>7, <1>8, <1>9 DEF AccessInv, AccessTypeOK, EntityTypeOK, Calls

LEMMA NextKeepsAccessInv ==
  ASSUME AccessInv, [Next]_tenantVars
  PROVE  AccessInv'
BY NextIsAccessStep, AccessStepKeepsInv

-----------------------------------------------------------------------------
(* The rows of the organization satisfy the constraints of their tables,   *)
(* in every behaviour, and the calls and scopes have their types.          *)
THEOREM AccessTypes == Spec => []AccessTypeOK
<1>1. AccessInv => AccessTypeOK
  BY DEF AccessInv
<1> QED
  BY <1>1, AccessInitInv, NextKeepsAccessInv, PTL DEF Spec

(* One ACTIVE override or rule per target and one headquarters per company,*)
(* whatever the requests interleave.                                       *)
THEOREM UniqueIndexes == Spec => []UniqueIndexesHold
<1>1. AccessInv => OneHeadquarters
  BY DEF AccessInv, HeadquartersOnRows
<1>2. Spec => []OneHeadquarters
  BY <1>1, AccessInitInv, NextKeepsAccessInv, PTL DEF Spec
<1> QED
  BY <1>2, OneActiveRow, PTL DEF UniqueIndexesHold

(* No interleaving of requests makes a transition of status that the       *)
(* domain forbids.                                                         *)
LEMMA EntityStepLegal ==
  ASSUME AccessInv, EntityStep
  PROVE  [\A e \in Entities : entity[e].status \notin {"NONE", entity'[e].status} =>
            <<entity[e].status, entity'[e].status>> \in Path(e)]_entity
<1>1. ASSUME NEW d \in Entities, NEW row \in EntityRow(d), EntityMoves(d, row),
             NEW e \in Entities, entity[e].status \notin {"NONE", entity'[e].status}
      PROVE  <<entity[e].status, entity'[e].status>> \in Path(e)
  <2>1. DOMAIN entity = Entities
    BY DEF AccessInv, AccessTypeOK, EntityTypeOK
  <2>2. e = d /\ entity'[e] = row
    BY <1>1, <2>1 DEF EntityMoves
  <2> QED
    BY <1>1, <2>2 DEF EntityMoves, StatusOf
<1> QED
  BY <1>1 DEF EntityStep

THEOREM StatusesFollowPaths == Spec => StatusPathsLegal
<1>1. AccessInv /\ [Next]_tenantVars => EntityStep
  BY NextIsAccessStep
     DEF AccessStep, AdministrativeStep, TransitionStep, CallStep, EntityStep
<1>2. AccessInv /\ [Next]_tenantVars =>
        [\A e \in Entities : entity[e].status \notin {"NONE", entity'[e].status} =>
           <<entity[e].status, entity'[e].status>> \in Path(e)]_entity
  BY <1>1, EntityStepLegal
<1> QED
  BY <1>2, AccessInitInv, NextKeepsAccessInv, PTL DEF Spec, StatusPathsLegal

(***************************************************************************)
(* What the last step of a call says.                                      *)
(***************************************************************************)
LEMMA WatchedStage ==
  ASSUME AccessInv, NEW table, NEW granted, NEW p \in Callers
  PROVE  Watching(table, granted)[p].at = call[p].at
<1>1. call[p] \in Calls
  BY DEF AccessInv, AccessTypeOK, Calls
<1> QED
  BY <1>1, WatchingKeepsCall

(* Its UPDATE ends a transition, and writes on the grounds it found.       *)
LEMMA TransitionEnds ==
  ASSUME AccessInv, AccessStep, NEW p \in Callers, call[p].at = "statement",
         entity'[call[p].e].status # entity[call[p].e].status, call'[p] = IdleCall
  PROVE  call[p].since = {}
<1> DEFINE c == call[p]
<1>1. c \in Calls /\ CallKnows(c) /\ call \in [Callers -> Calls] /\ DOMAIN entity = Entities
  BY DEF AccessInv, AccessTypeOK, EntityTypeOK, Calls
<1>2. c \in TransitionCall /\ c.e \in Entities /\ IdleCall.at = "idle"
  BY <1>1, CallKinds DEF TransitionCall, IdleCall
<1>3. ~UNCHANGED entity
  OBVIOUS
<1>4. ~AdministrativeStep
  <2>1. call' = Watching(entity', scopes') => call'[p].at = "statement"
    BY WatchedStage
  <2> QED
    BY <1>2, <2>1 DEF AdministrativeStep
<1>5. PICK q \in Callers : TransitionStep(q)
  BY <1>3, <1>4 DEF AccessStep, CallStep
<1>6. q = p
  <2> SUFFICES ASSUME q # p PROVE FALSE
    OBVIOUS
  <2> DEFINE W == Watching(entity', scopes)
  <2>1. W = [o \in Callers |-> W[o]]
    BY DEF Watching
  <2>2. W[p].at = "statement"
    BY WatchedStage
  <2> HIDE DEF W
  <2>3. call'[p] = W[p]
    BY <1>5, <2>1 DEF TransitionStep, W
  <2> QED
    BY <1>2, <2>2, <2>3
<1>7. TransitionMatches(c)
  BY <1>3, <1>5, <1>6 DEF TransitionStep, TransitionStatus
<1> QED
  BY <1>1, <1>7 DEF TransitionMatches, CallKnows

(* Nothing is activated under parents that were never operational since    *)
(* the UPDATE began.                                                       *)
THEOREM ActivationsHaveGround == Spec => ActivatedOnLiveGround
<1>1. AccessInv /\ [Next]_tenantVars =>
        [\A p \in Callers :
           call[p].at = "statement" =>
             LET e == call[p].e IN
             entity'[e].status = "ACTIVE" /\ entity[e].status # "ACTIVE" /\ call'[p] = IdleCall
               => call[p].since = {}]_<<entity, call>>
  BY NextIsAccessStep, TransitionEnds
<1> QED
  BY <1>1, AccessInitInv, NextKeepsAccessInv, PTL DEF Spec, ActivatedOnLiveGround

(* The SQL of hasScopedPermission grants exactly what the domain's contract*)
(* of scopes covers.                                                       *)
THEOREM SqlScopeIsContract ==
  ASSUME NEW granted \in ScopeTarget, NEW requested \in ScopeTarget
  PROVE  ScopeMatches(granted, requested) <=> ScopeCovers(granted, requested)
<1>1. /\ Null \notin Companies /\ Null \notin Branches
  BY DEF Null, Companies, Branches
<1> QED
  BY <1>1 DEF ScopeMatches, ScopeCovers, SqlEqual, ScopeTarget

(* The last query of a check finds what the check needs.                   *)
LEMMA GrantedLacksNothing ==
  ASSUME AccessInv, NEW requested \in ScopeTarget, HasScopedPermission(requested)
  PROVE  AccessLacks(requested, entity, scopes) \subseteq {"identity"}
<1>1. scopes \in [Assignments -> SUBSET ScopeTarget]
  BY DEF AccessInv, AccessTypeOK
<1>2. PICK a \in Assignments : Operational(a) /\ \E os \in scopes[a] : ScopeMatches(os, requested)
  BY DEF HasScopedPermission
<1>3. PICK os \in scopes[a] : ScopeMatches(os, requested)
  BY <1>2
<1>4. os \in ScopeTarget /\ ScopeCovers(os, requested)
  BY <1>1, <1>3, SqlScopeIsContract
<1>5. \A e \in PermissionRows : entity[e].status = "ACTIVE"
  BY DEF HasScopedPermission, Operational, StatusOf
<1>6. entity[a].status = "ACTIVE"
  BY <1>2 DEF Operational, StatusOf
<1> QED
  BY <1>2, <1>3, <1>4, <1>5, <1>6 DEF AccessLacks, NotOperational

LEMMA CheckEnds ==
  ASSUME AccessInv, AccessStep, NEW p \in Callers,
         call[p].at = "scope", call'[p].at = "granted"
  PROVE  call[p].since = {}
<1> DEFINE c == call[p]
<1>1. c \in Calls /\ CallKnows(c) /\ call \in [Callers -> Calls]
  BY DEF AccessInv, AccessTypeOK, Calls
<1>2. Checking(c) /\ c \in AccessCall /\ IdleCall.at = "idle"
  BY <1>1, CallKinds DEF Checking, IdleCall
<1>3. ~AdministrativeStep
  <2>1. call' = Watching(entity', scopes') => call'[p].at = "scope"
    BY WatchedStage
  <2> QED
    BY <2>1 DEF AdministrativeStep
<1>4. ASSUME NEW q \in Callers, TransitionStep(q) PROVE FALSE
  <2> DEFINE W == Watching(entity', scopes)
  <2>1. W = [o \in Callers |-> W[o]]
    BY DEF Watching
  <2>2. W[p].at = "scope"
    BY WatchedStage
  <2> HIDE DEF W
  <2>3. call'[p] = W[p] \/ call'[p] = IdleCall
    BY <1>4, <2>1 DEF TransitionStep, W
  <2> QED
    BY <1>2, <2>2, <2>3
<1>5. PICK q \in Callers : CallStep(q)
  BY <1>3, <1>4 DEF AccessStep
<1>6. q = p /\ RequireScope(p)
  <2>1. CASE TransitionRead(q) \/ SnapshotForTransition(q)
    BY <1>1, <1>5, <2>1
       DEF TransitionRead, TransitionTenant, TransitionCompany, TransitionBranch,
           TransitionUser, TransitionMembership, TransitionIdentity,
           ReadForTransition, SnapshotForTransition
  <2>2. CASE AuthorizedOperation(q)
    <3>1. q = p
      BY <1>1, <2>2
         DEF AuthorizedOperation, ResolveIdentity, ResolveUser, ResolveMembership,
             RequirePermission, RequireScope, Continue
    <3> QED
      BY <1>1, <2>2, <3>1
         DEF AuthorizedOperation, ResolveIdentity, ResolveUser, ResolveMembership,
             RequirePermission, RequireScope, Continue
  <2> QED
    BY <1>5, <2>1, <2>2 DEF CallStep
<1>7. HasScopedPermission(c.requested)
  BY <1>1, <1>2, <1>6 DEF RequireScope, Continue
<1>8. c.requested \in ScopeTarget
  BY <1>2 DEF AccessCall
<1>9. c.since \subseteq {"identity"} /\ "identity" \notin c.since
  BY <1>1, <1>2, <1>7, <1>8, GrantedLacksNothing DEF CallKnows
<1> QED
  BY <1>9

(* Access is granted only to a request that lacked nothing from its first  *)
(* query to its last.                                                      *)
THEOREM GrantsHaveGround == Spec => GrantedOnLiveGround
<1>1. AccessInv /\ [Next]_tenantVars =>
        [\A p \in Callers :
           call[p].at = "scope" /\ call'[p].at = "granted" => call[p].since = {}]_call
  BY NextIsAccessStep, CheckEnds
<1> QED
  BY <1>1, AccessInitInv, NextKeepsAccessInv, PTL DEF Spec, GrantedOnLiveGround
==============================================================================
