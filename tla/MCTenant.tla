------------------------------ MODULE MCTenant -------------------------------
EXTENDS TenantAdministration, TLC

CONSTANTS w1, w2, q1, r1, r2, s1, s2, c1, c2, a1, a2

(* Requests, rows, settings and callers are interchangeable. *)
Interchangeable ==
  Permutations({w1, w2}) \cup Permutations({r1, r2})
  \cup Permutations({s1, s2}) \cup Permutations({c1, c2})

MCAllowedScopes == {<<"BRANCH">>, <<"TENANT">>}
MCRollouts == {5000}
MCTargets == {"TENANT", "USER"}
MCRuleKeys == {<<"USER", "production">>, <<"TENANT", "*">>}
MCKeys == Scope \cup (MCTargets \X {"production", "*"})
MCPrecedence ==
  << <<"BRANCH">>, <<"COMPANY">>, <<"TENANT">>,
     <<"USER", "production">>, <<"USER", "*">>,
     <<"TENANT", "production">>, <<"TENANT", "*">> >>
MCValues == ValidSettings \cup [enabled : BOOLEAN, rollout : MCRollouts]
MCSubjects == {"configuration", "flags", "profiles", "access"}
MCFamilies ==
  {{"tenant", "company"}, {"tenant", "branch1"}, {"company", "branch1"},
   {"tenant", "membership"}, {"user", "membership"}, {"user", "identity"},
   {"assignment1", "assignment2"}, {"role", "permission", "rolePermission", "assignment1"}}


(* What requests write: a code that no settled row has and the rest        *)
(* canonical; or codes of two words in two spellings, and what may be      *)
(* missing or unacceptable in the other fields.                            *)
Given1 == {<<a1, "canonical">>}
Free1 == {<<a1, "canonical">>, Missing}
MCPlainInputs ==
  [code : (Words \ {AnyWord}) \X {"canonical"}, name : Given1, label : {Missing},
   country : Given1, taxType : {Missing}, taxId : {Missing}, timezone : Given1, currency : Given1]
MCProfileInputs ==
  [code : {<<a1, "canonical">>, <<a1, "respelled">>, <<a2, "respelled">>, Malformed},
   name : Given1, label : {<<a1, "respelled">>, Missing}, country : Free1, taxType : Free1,
   taxId : {<<a1, "respelled">>, Missing, Malformed},
   timezone : Free1 \cup {Malformed}, currency : Given1]
MCProfileFamilies == {{"tenant", "company"}, {"branch1", "branch2"}, {"user"}}

OnCompany == [level |-> "COMPANY", company |-> "company", branch |-> Null]
OnBranch1 == [level |-> "BRANCH", company |-> "company", branch |-> "branch1"]
MCGrantable == {OnCompany, OnBranch1}
MCRequestable == {OnCompany, OnBranch1}
==============================================================================
