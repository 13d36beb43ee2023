------------------------ MODULE TenantAdministration -------------------------
(***************************************************************************)
(* The administration of a tenant as a whole: overrides of a configuration *)
(* definition, targeting rules of a feature flag, and the organization,    *)
(* its identities and their access.  They write different tables: what the *)
(* first two read of the others is the membership of a user (catalog) and  *)
(* companies and branches, which are never deleted.  So a behaviour        *)
(* exercises one of them, its subject, and the others stay as they are:    *)
(* their product would show nothing more.                                  *)
(***************************************************************************)
EXTENDS Configuration, FeatureFlags, AccessControl

CONSTANTS
  Subjects, \* of "configuration", "flags", "profiles", "access"
  Casts,    \* bound of the model: which requests and readers take part
  Families, \* bound of the model: which entities change, when access is the subject
  ProfileFamilies, \* and when profiles are
  PlainInputs,     \* what requests write into profiles, when access is the subject
  ProfileInputs    \* and when profiles are

ASSUME FamiliesAssumption == Families \cup ProfileFamilies \subseteq SUBSET Entities
ASSUME InputsAssumption == PlainInputs \cup ProfileInputs \subseteq [Field -> Text]

VARIABLES subject, cast

tenantVars == <<rowVars, readVars, accessVars, subject, cast>>

TypeOK ==
  /\ RowsTypeOK
  /\ ReadsTypeOK
  /\ AccessTypeOK
  /\ subject \in Subjects /\ cast \in Casts \cup {{}}

Organizational == subject \in {"profiles", "access"}

CatalogInit ==
  /\ catalog = [active |-> TRUE, policy |-> "NONE", member |-> TRUE, changes |-> 0]
  /\ reading = [q \in Readers |-> NotReading]

FamiliesOf(s) ==
  CASE s = "access"   -> Families
    [] s = "profiles" -> ProfileFamilies
    [] OTHER          -> {{}}

Init ==
  /\ RowsInit
  /\ CatalogInit
  /\ subject \in Subjects
  /\ cast \in IF Organizational THEN {{}} ELSE Casts
  /\ \E m \in FamiliesOf(subject) : AccessInit(m)

-----------------------------------------------------------------------------
ConfigurationNext ==
  /\ subject = "configuration"
  /\ \/ \E p \in Requests \cap cast : ConfigurationWrite(p)
     \/ \E q \in Readers \cap cast : ConfigurationRead(q)
     \/ \E p \in Requests \cap cast : CommitSeen(p)
     \/ \E q \in Readers \cap cast : AbandonReading(q)
     \/ PlatformChange({"NONE"})

FlagsNext ==
  /\ subject = "flags"
  /\ \/ \E p \in Requests \cap cast : FlagWrite(p)
     \/ \E q \in Readers \cap cast : FlagRead(q)
     \/ \E p \in Requests \cap cast : CommitSeen(p)
     \/ \E q \in Readers \cap cast : AbandonReading(q)
     \/ PlatformChange(Policy) \/ MembershipChange

AccessNext ==
  /\ subject = "access"
  /\ \/ Administration(PlainInputs)
     \/ \E p \in Callers : AdministrativeCall(p)
     \/ \E p \in Callers : AuthorizedOperation(p)

ProfilesNext == subject = "profiles" /\ Administration(ProfileInputs)

Next ==
  \/ ConfigurationNext /\ UNCHANGED <<accessVars, subject, cast>>
  \/ FlagsNext /\ UNCHANGED <<accessVars, subject, cast>>
  \/ ProfilesNext /\ UNCHANGED <<rowVars, readVars, subject, cast>>
  \/ AccessNext /\ UNCHANGED <<rowVars, readVars, subject, cast>>

Spec == Init /\ [][Next]_tenantVars

-----------------------------------------------------------------------------
(* One ACTIVE override or rule per target (0012, 0013) and one             *)
(* headquarters per company (0004), whatever the requests interleave.      *)
UniqueIndexesHold == OneActivePerKey /\ OneHeadquarters
==============================================================================
