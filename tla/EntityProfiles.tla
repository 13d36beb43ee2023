---------------------------- MODULE EntityProfiles ----------------------------
(***************************************************************************)
(* The profiles of tenants, companies, branches and users: how the domain  *)
(* modules normalize what a request gives (normalize...Creation and        *)
(* normalize...ProfileUpdate), and what the tables accept (migrations 0002 *)
(* to 0005).  A text is a word, that word spelled otherwise (padded, in    *)
(* another case, a tax identifier with its punctuation), nothing at all,   *)
(* or nothing acceptable: that is what the patterns and lengths tell apart.*)
(***************************************************************************)
CONSTANTS
  Words,  \* what a normalized text may be
  NoWord  \* NULL

ASSUME WordsAssumption == NoWord \notin Words /\ Words # {}

(* The code of a user is the e-mail address, the name of a company its     *)
(* legal name; label is the display name of a company, the locale of a user.*)
Field == {"code", "name", "label", "country", "taxType", "taxId", "timezone", "currency"}
NoProfile == [f \in Field |-> NoWord]

StoredProfiles == [Field -> Words \cup {NoWord}]

Missing == <<"missing">>
Malformed == <<"malformed">>
Text == (Words \X {"canonical", "respelled"}) \cup {Missing, Malformed}

Given(t) == t \notin {Missing, Malformed}
OptionalText(t) == t # Malformed
BothOrNeither(a, b) == (a = Missing /\ b = Missing) \/ (Given(a) /\ Given(b))

-----------------------------------------------------------------------------
(* What is refused before any statement. *)
TenantAccepts(input) == \A f \in {"code", "name", "timezone", "currency"} : Given(input[f])

CompanyTaxIdentifier(input) == BothOrNeither(input["taxType"], input["taxId"])

CompanyLocale(input) == \A f \in {"timezone", "currency"} : OptionalText(input[f])

CompanyAccepts(input) ==
  /\ \A f \in {"code", "name", "country"} : Given(input[f])
  /\ OptionalText(input["label"])
  /\ CompanyLocale(input)
  /\ CompanyTaxIdentifier(input)

(* Mutant of BranchTaxIdentifier: like that of a company. *)
BranchTaxIdentifierAnywhere(input) == BothOrNeither(input["taxType"], input["taxId"])

BranchTaxIdentifier(input) ==
  /\ BothOrNeither(input["taxType"], input["taxId"])
  /\ Given(input["taxId"]) => Given(input["country"])

BranchLocale(input) == \A f \in {"timezone", "currency"} : OptionalText(input[f])

BranchAccepts(input) ==
  /\ \A f \in {"code", "name"} : Given(input[f])
  /\ OptionalText(input["country"])
  /\ BranchLocale(input)
  /\ BranchTaxIdentifier(input)

UserLocale(input) == \A f \in {"label", "timezone"} : OptionalText(input[f])

UserAccepts(input) == (\A f \in {"code", "name"} : Given(input[f])) /\ UserLocale(input)

Accepts(kind, input) ==
  CASE kind = "tenant"  -> TenantAccepts(input)
    [] kind = "company" -> CompanyAccepts(input)
    [] kind = "branch"  -> BranchAccepts(input)
    [] kind = "user"    -> UserAccepts(input)
    [] OTHER            -> TRUE

FieldsOf(kind) ==
  CASE kind = "tenant"  -> {"code", "name", "timezone", "currency"}
    [] kind = "company" -> Field
    [] kind = "branch"  -> Field \ {"label"}
    [] kind = "user"    -> {"code", "name", "label", "timezone"}
    [] OTHER            -> {}

Normalized(kind, input) ==
  [f \in Field |-> IF f \in FieldsOf(kind) /\ Given(input[f]) THEN input[f][1] ELSE NoWord]

(* A profile update replaces every field; only users may change the code.  *)
Replaced(kind, stored, input) ==
  [Normalized(kind, input) EXCEPT !["code"] = IF kind = "user" THEN @ ELSE stored["code"]]

-----------------------------------------------------------------------------
(* The NOT NULL and CHECK constraints. *)
PassesConstraints(kind, p) ==
  CASE kind = "tenant"  -> \A f \in {"code", "name", "timezone", "currency"} : p[f] # NoWord
    [] kind = "company" -> /\ \A f \in {"code", "name", "country"} : p[f] # NoWord
                           /\ (p["taxType"] = NoWord) = (p["taxId"] = NoWord)
    [] kind = "branch"  -> /\ \A f \in {"code", "name"} : p[f] # NoWord
                           /\ (p["taxType"] = NoWord) = (p["taxId"] = NoWord)
                           /\ p["taxId"] # NoWord => p["country"] # NoWord
    [] kind = "user"    -> \A f \in {"code", "name"} : p[f] # NoWord
    [] OTHER            -> p = NoProfile

(* The unique indexes: a code, and a tax identifier within its country.    *)
Clash(p, q) ==
  \/ p["code"] = q["code"]
  \/ p["taxId"] # NoWord /\ \A f \in {"country", "taxType", "taxId"} : p[f] = q[f]
=============================================================================
