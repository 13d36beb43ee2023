------------------------ MODULE TenantReads_proofs --------------------------
(***************************************************************************)
(* Theorems about the readings of a tenant's configuration and feature     *)
(* flags, of the whole TenantAdministration: for every number of readers,  *)
(* requests, rows, keys and values and every value of the bounds.          *)
(*                                                                         *)
(* What has to be known of a reading is what has been there ever since it  *)
(* began: all of it is there now, nothing of it is among the candidates    *)
(* that were passed over, and the candidates still to come are ordered by  *)
(* precedence.                                                             *)
(***************************************************************************)
EXTENDS TenantAccess_proofs, WellFoundedInduction, SequenceTheorems

Ordered(chain) ==
  \A i, j \in DOMAIN chain : i < j => Rank(chain[i]) < Rank(chain[j])

(* A flag's candidates come in pairs: for this environment, for all. *)
Paired(chain) ==
  \A i \in 1..Len(chain) : i % 2 = 1 =>
    /\ i + 1 \in 1..Len(chain)
    /\ \E t \in Targets : chain[i] = <<t, Environment>> /\ chain[i + 1] = <<t, Everywhere>>

BusyRecord(r) == r.at \in {"policy", "candidates"}

(* What a reading in progress has seen of the catalog and passed over. *)
PassedOver(r) ==
  /\ \A i \in DOMAIN r.chain : i < r.next => r.chain[i] \notin r.steady
  /\ Killed \notin r.steady
  /\ r.policy # "ON" => ByPolicy \notin r.steady
  /\ r.policy = "ON" => \E s \in r.winners : Rank(s) <= Rank(ByPolicy)

Knows(r, cat, table) ==
  BusyRecord(r) =>
    /\ Ordered(r.chain)
    /\ subject = "flags" => Paired(r.chain) /\ r.next % 2 = 1
    /\ r.steady \subseteq Present(r.chain, cat, table) /\ InError \notin r.steady
    /\ Winner(r.chain, cat, table) \in r.winners
    /\ \A s \in Source : r.winners = {s} => s \in r.steady
    /\ IF r.at = "policy" THEN r.next = 1 ELSE PassedOver(r)

(* No environment policy concerns a configuration. *)
NoPolicy == subject = "configuration" => catalog.policy = "NONE"

ReadsInv ==
  /\ ReadsTypeOK /\ NoPolicy
  /\ \A q \in Readers : Knows(reading[q], catalog, rows)

-----------------------------------------------------------------------------
(***************************************************************************)
(* Ranks, and the source that wins at one moment.                          *)
(***************************************************************************)
LEMMA RankOfKey ==
  ASSUME NEW k \in Keys
  PROVE  \E i \in DOMAIN Precedence :
           Precedence[i] = k /\ Rank(k) = 1 + i /\ i \in 1..Len(Precedence)
<1>1. PICK i \in DOMAIN Precedence : Precedence[i] = k
  BY PrecedenceAssumption
<1>2. i \in 1..Len(Precedence) /\ DOMAIN Precedence = 1..Len(Precedence)
  BY PrecedenceAssumption
<1>3. (CHOOSE j \in DOMAIN Precedence : Precedence[j] = k) = i
  BY <1>1, PrecedenceAssumption
<1>4. k # InError /\ k # Killed /\ k # ByPolicy /\ k # ByDefault
  BY SourcesAssumption
<1>5. Rank(k) = 1 + CHOOSE j \in DOMAIN Precedence : Precedence[j] = k
  BY <1>4, Zenon DEF Rank
<1> QED
  BY <1>1, <1>2, <1>3, <1>5

LEMMA OtherRanks ==
  /\ Rank(InError) = 0
  /\ Rank(Killed) = 1
  /\ Rank(ByPolicy) = Len(Precedence) + 2
  /\ Rank(ByDefault) = Len(Precedence) + 3
<1>1. /\ InError # Killed /\ InError # ByPolicy /\ InError # ByDefault
      /\ Killed # ByPolicy /\ Killed # ByDefault /\ ByPolicy # ByDefault
  BY DEF InError, Killed, ByPolicy, ByDefault
<1> QED
  BY <1>1, Zenon DEF Rank

LEMMA RankType ==
  ASSUME NEW s \in Source
  PROVE  Rank(s) \in Nat /\ Rank(s) <= Rank(ByDefault)
<1>1. Len(Precedence) \in Nat
  BY PrecedenceAssumption
<1>2. CASE s \in Keys
  BY <1>1, <1>2, RankOfKey, OtherRanks
<1>3. CASE s \in {InError, Killed, ByPolicy, ByDefault}
  BY <1>1, <1>3, OtherRanks
<1> QED
  BY <1>2, <1>3 DEF Source

LEMMA RankInjective ==
  ASSUME NEW s \in Source, NEW t \in Source, Rank(s) = Rank(t)
  PROVE  s = t
<1>1. Len(Precedence) \in Nat
  BY PrecedenceAssumption
<1>2. CASE s \in Keys /\ t \in Keys
  BY <1>2, RankOfKey
<1>3. CASE s \in Keys /\ t \notin Keys
  BY <1>1, <1>3, RankOfKey, OtherRanks DEF Source
<1>4. CASE s \notin Keys /\ t \in Keys
  BY <1>1, <1>4, RankOfKey, OtherRanks DEF Source
<1>5. CASE s \notin Keys /\ t \notin Keys
  BY <1>1, <1>5, OtherRanks DEF Source
<1> QED
  BY <1>2, <1>3, <1>4, <1>5

LEMMA LeastRank ==
  ASSUME NEW S, S \subseteq Source, S # {}
  PROVE  \E s \in S : \A t \in S : Rank(s) <= Rank(t)
<1> DEFINE T == {Rank(s) : s \in S}
<1>1. T \subseteq Nat /\ T # {}
  BY RankType
<1>2. \E n \in T : \A m \in T : <<m, n>> \notin OpToRel(<, Nat)
  <2> HIDE DEF T
  <2> QED
    BY <1>1, WFMin, NatLessThanWellFounded, Zenon
<1>3. PICK n \in T : \A m \in T : <<m, n>> \notin OpToRel(<, Nat)
  BY <1>2
<1>4. \A m \in T : ~(m < n)
  <2> HIDE DEF T
  <2> QED
    BY <1>1, <1>3, Zenon DEF OpToRel
<1>5. PICK s \in S : n = Rank(s)
  OBVIOUS
<1>6. \A t \in S : Rank(t) \in T /\ Rank(t) \in Nat
  BY RankType
<1> HIDE DEF T
<1> QED
  BY <1>1, <1>4, <1>5, <1>6

LEMMA PresentIs ==
  ASSUME NEW chain, NEW cat \in Catalog, NEW table
  PROVE  \A s : s \in Present(chain, cat, table) <=>
           \/ s = ByDefault /\ cat.active
           \/ s = InError /\ ~cat.active
           \/ s = Killed /\ cat.policy = "OFF"
           \/ s = ByPolicy /\ cat.policy = "ON"
           \/ \E i \in DOMAIN chain : s = chain[i] /\ ActiveRows(table, chain[i]) # {}
<1> DEFINE C == CASE cat.policy = "OFF"  -> {Killed}
                  [] cat.policy = "ON"   -> {ByPolicy}
                  [] cat.policy = "NONE" -> {}
<1>1. cat.active \in BOOLEAN /\ cat.policy \in {"NONE", "ON", "OFF"}
  BY DEF Catalog, Policy
<1>2. cat.policy = "OFF" => C = {Killed}
  BY Zenon
<1>3. cat.policy = "ON" => C = {ByPolicy}
  BY Zenon
<1>4. cat.policy = "NONE" => C = {}
  BY Zenon
<1>5. Present(chain, cat, table) =
        {IF cat.active THEN ByDefault ELSE InError}
        \cup C
        \cup {chain[i] : i \in {j \in DOMAIN chain : ActiveRows(table, chain[j]) # {}}}
  BY DEF Present
<1> HIDE DEF C
<1> QED
  BY <1>1, <1>2, <1>3, <1>4, <1>5

LEMMA PresentSources ==
  ASSUME NEW chain \in Seq(Keys), NEW cat \in Catalog, NEW table
  PROVE  /\ Present(chain, cat, table) \subseteq Source
         /\ Present(chain, cat, table) # {}
<1>1. \A i \in DOMAIN chain : chain[i] \in Keys
  BY ElementOfSeq
<1>2. cat.active \in BOOLEAN
  BY DEF Catalog
<1>3. ASSUME NEW s \in Present(chain, cat, table) PROVE s \in Source
  <2>1. \/ s = ByDefault \/ s = InError \/ s = Killed \/ s = ByPolicy
        \/ \E i \in DOMAIN chain : s = chain[i]
    BY <1>3, PresentIs, SMTT(30)
  <2> QED
    BY <1>1, <2>1 DEF Source
<1>4. (IF cat.active THEN ByDefault ELSE InError) \in Present(chain, cat, table)
  BY <1>2, PresentIs
<1> QED
  BY <1>3, <1>4

(* The winner is there, and nothing that is there is more specific.        *)
LEMMA WinnerIsFirst ==
  ASSUME NEW chain \in Seq(Keys), NEW cat \in Catalog, NEW table
  PROVE  /\ Winner(chain, cat, table) \in Present(chain, cat, table)
         /\ Winner(chain, cat, table) \in Source
         /\ \A s \in Present(chain, cat, table) : Rank(Winner(chain, cat, table)) <= Rank(s)
<1> DEFINE S == Present(chain, cat, table)
<1>1. S \subseteq Source /\ S # {}
  BY PresentSources
<1>2. \E s \in S : \A t \in S : Rank(s) <= Rank(t)
  <2> HIDE DEF S
  <2> QED
    BY <1>1, LeastRank
<1> QED
  BY <1>1, <1>2 DEF Winner

(* What of a candidate is there says whether a row of it is ACTIVE.        *)
LEMMA PresentCandidate ==
  ASSUME NEW chain \in Seq(Keys), NEW cat \in Catalog, NEW table, NEW i \in DOMAIN chain
  PROVE  chain[i] \in Present(chain, cat, table) <=> ActiveRows(table, chain[i]) # {}
<1>1. chain[i] \in Keys
  BY ElementOfSeq
<1>2. chain[i] \notin {InError, Killed, ByPolicy, ByDefault}
  BY <1>1, SourcesAssumption
<1> QED
  BY <1>2, PresentIs

LEMMA PresentOthers ==
  ASSUME NEW chain \in Seq(Keys), NEW cat \in Catalog, NEW table
  PROVE  /\ InError \in Present(chain, cat, table) <=> ~cat.active
         /\ Killed \in Present(chain, cat, table) <=> cat.policy = "OFF"
         /\ ByPolicy \in Present(chain, cat, table) <=> cat.policy = "ON"
<1>1. \A i \in DOMAIN chain : chain[i] \notin {InError, Killed, ByPolicy, ByDefault}
  BY ElementOfSeq, SourcesAssumption
<1>2. /\ InError # Killed /\ InError # ByPolicy /\ InError # ByDefault
      /\ Killed # ByPolicy /\ Killed # ByDefault /\ ByPolicy # ByDefault
  BY DEF InError, Killed, ByPolicy, ByDefault
<1> QED
  BY <1>1, <1>2, PresentIs DEF Catalog
-----------------------------------------------------------------------------
(***************************************************************************)
(* The candidates of a reading follow the precedence.                      *)
(***************************************************************************)
OrderedIn(chain, K) == chain \in Seq(K) /\ Ordered(chain)

LEMMA ConcatOrdered ==
  ASSUME NEW K \in SUBSET Keys, NEW L \in SUBSET Keys, NEW s, NEW t,
         OrderedIn(s, K), OrderedIn(t, L),
         \A k \in K, l \in L : Rank(k) < Rank(l)
  PROVE  OrderedIn(s \o t, K \cup L)
<1> DEFINE M == K \cup L
<1>1. s \in Seq(M) /\ t \in Seq(M)
  <2>1. s \in Seq(K) /\ t \in Seq(L) /\ K \subseteq M /\ L \subseteq M
    BY DEF OrderedIn
  <2> HIDE DEF M
  <2> QED
    BY <2>1, SeqMonotonic
<1>2. /\ s \o t \in Seq(M)
      /\ Len(s \o t) = Len(s) + Len(t)
      /\ \A i \in 1..Len(s) + Len(t) :
           (s \o t)[i] = IF i <= Len(s) THEN s[i] ELSE t[i - Len(s)]
  <2> HIDE DEF M
  <2> QED
    BY <1>1, ConcatProperties
<1>3. /\ \A i \in 1..Len(s) : s[i] \in K
      /\ \A i \in 1..Len(t) : t[i] \in L
      /\ Len(s) \in Nat /\ Len(t) \in Nat
      /\ DOMAIN s = 1..Len(s) /\ DOMAIN t = 1..Len(t)
  BY ElementOfSeq DEF OrderedIn
<1>4. DOMAIN (s \o t) = 1..Len(s) + Len(t)
  <2> HIDE DEF M
  <2> QED
    BY <1>2
<1>5. ASSUME NEW i \in 1..Len(s) + Len(t), NEW j \in 1..Len(s) + Len(t), i < j
      PROVE  Rank((s \o t)[i]) < Rank((s \o t)[j])
  <2>1. CASE j <= Len(s)
    <3>1. i \in 1..Len(s) /\ j \in 1..Len(s)
      BY <1>3, <1>5, <2>1
    <3> QED
      BY <1>2, <1>3, <1>5, <3>1 DEF OrderedIn, Ordered
  <2>2. CASE i <= Len(s) /\ ~(j <= Len(s))
    <3>1. i \in 1..Len(s) /\ j - Len(s) \in 1..Len(t)
      BY <1>3, <1>5, <2>2
    <3> QED
      BY <1>2, <1>3, <2>2, <3>1
  <2>3. CASE ~(i <= Len(s))
    <3>1. i - Len(s) \in 1..Len(t) /\ j - Len(s) \in 1..Len(t) /\ i - Len(s) < j - Len(s)
      BY <1>3, <1>5, <2>3
    <3>2. (s \o t)[i] = t[i - Len(s)] /\ (s \o t)[j] = t[j - Len(s)]
      BY <1>2, <1>3, <1>5, <2>3
    <3> QED
      BY <1>3, <3>1, <3>2 DEF OrderedIn, Ordered
  <2> QED
    BY <1>3, <2>1, <2>2, <2>3
<1> QED
  BY <1>2, <1>4, <1>5 DEF OrderedIn, Ordered

LEMMA OddAfterEven ==
  ASSUME NEW l \in Nat, NEW m \in Nat, NEW i \in 1..(l + m), l % 2 = 0, i % 2 = 1, ~(i <= l)
  PROVE  \E j \in 1..m : j = i - l /\ i = j + l /\ j % 2 = 1
<1>1. i - l \in 1..m /\ i = (i - l) + l /\ (i - l) % 2 = 1
  OBVIOUS
<1> QED
  BY <1>1

LEMMA ConcatPaired ==
  ASSUME NEW s \in Seq(Keys), NEW t \in Seq(Keys), Paired(s), Paired(t)
  PROVE  Paired(s \o t)
<1>1. /\ Len(s) \in Nat /\ Len(t) \in Nat
      /\ Len(s \o t) = Len(s) + Len(t)
      /\ \A i \in 1..Len(s) + Len(t) :
           (s \o t)[i] = IF i <= Len(s) THEN s[i] ELSE t[i - Len(s)]
  BY ConcatProperties, LenProperties
<1>2. Len(s) % 2 = 0
  <2>1. CASE Len(s) = 0
    BY <2>1
  <2>2. CASE Len(s) \in 1..Len(s)
    <3>1. ~(Len(s) + 1 \in 1..Len(s))
      BY <1>1
    <3>2. Len(s) % 2 # 1
      BY <2>2, <3>1 DEF Paired
    <3> QED
      BY <1>1, <3>2
  <2> QED
    BY <1>1, <2>1, <2>2
<1>3. ASSUME NEW i \in 1..Len(s) + Len(t), i % 2 = 1
      PROVE  /\ i + 1 \in 1..Len(s) + Len(t)
             /\ \E u \in Targets : /\ (s \o t)[i] = <<u, Environment>>
                                   /\ (s \o t)[i + 1] = <<u, Everywhere>>
  <2>1. CASE i <= Len(s)
    <3>1. i \in 1..Len(s)
      BY <1>1, <2>1
    <3>2. /\ i + 1 \in 1..Len(s)
          /\ \E u \in Targets : s[i] = <<u, Environment>> /\ s[i + 1] = <<u, Everywhere>>
      BY <1>3, <3>1 DEF Paired
    <3>3. (s \o t)[i] = s[i] /\ (s \o t)[i + 1] = s[i + 1] /\ i + 1 \in 1..Len(s) + Len(t)
      BY <1>1, <3>1, <3>2
    <3> QED
      BY <3>2, <3>3
  <2>2. CASE ~(i <= Len(s))
    <3>1. PICK j \in 1..Len(t) : j = i - Len(s) /\ i = j + Len(s) /\ j % 2 = 1
      BY <1>1, <1>2, <1>3, <2>2, OddAfterEven
    <3>2. j \in 1..Len(t) /\ j % 2 = 1 /\ i = j + Len(s)
      BY <3>1
    <3>3. /\ j + 1 \in 1..Len(t)
          /\ \E u \in Targets : t[j] = <<u, Environment>> /\ t[j + 1] = <<u, Everywhere>>
      BY <3>2 DEF Paired
    <3>4. /\ i + 1 - Len(s) = j + 1 /\ ~(i + 1 <= Len(s))
          /\ i \in 1..Len(s) + Len(t) /\ i + 1 \in 1..Len(s) + Len(t)
      <4>1. Len(s) \in Nat /\ Len(t) \in Nat /\ i \in Int /\ j + 1 \in 1..Len(t)
        BY <1>1, <3>3
      <4> QED
        BY <2>2, <3>2, <4>1
    <3>5. (s \o t)[i] = t[i - Len(s)] /\ (s \o t)[i + 1] = t[i + 1 - Len(s)]
      BY <1>1, <2>2, <3>4
    <3>6. (s \o t)[i] = t[j] /\ (s \o t)[i + 1] = t[j + 1]
      BY <3>1, <3>4, <3>5
    <3> QED
      BY <3>3, <3>4, <3>6
  <2> QED
    BY <1>1, <2>1, <2>2
<1> QED
  BY <1>1, <1>3 DEF Paired

LEMMA ScopeCandidate ==
  ASSUME NEW scope \in Scope, NEW asked
  PROVE  OrderedIn(Candidate(scope, asked), {scope})
BY DEF Candidate, OrderedIn, Ordered

(* BRANCH before COMPANY before TENANT. *)
LEMMA ResolutionOrdered ==
  ASSUME NEW scope \in Scope
  PROVE  OrderedIn(ResolutionCandidates(scope), Scope)
<1> DEFINE B == {<<"BRANCH">>}
           C == {<<"COMPANY">>}
           T == {<<"TENANT">>}
<1>1. B \subseteq Keys /\ C \subseteq Keys /\ T \subseteq Keys /\ B \cup C \cup T = Scope
  BY SettingsAssumption DEF Scope
<1>2. /\ Rank(<<"BRANCH">>) \in Nat /\ Rank(<<"COMPANY">>) \in Nat /\ Rank(<<"TENANT">>) \in Nat
      /\ Rank(<<"BRANCH">>) < Rank(<<"COMPANY">>) /\ Rank(<<"COMPANY">>) < Rank(<<"TENANT">>)
  BY <1>1, RankType, ScopePrecedence DEF Source
<1>3. /\ \A k \in B, l \in C : Rank(k) < Rank(l)
      /\ \A k \in B \cup C, l \in T : Rank(k) < Rank(l)
  BY <1>2
<1> DEFINE b == Candidate(<<"BRANCH">>, scope = <<"BRANCH">>)
           c == Candidate(<<"COMPANY">>, scope \in {<<"BRANCH">>, <<"COMPANY">>})
           t == Candidate(<<"TENANT">>, TRUE)
<1>4. OrderedIn(b, B) /\ OrderedIn(c, C) /\ OrderedIn(t, T)
  BY ScopeCandidate DEF Scope
<1>5. ResolutionCandidates(scope) = b \o c \o t
  BY DEF ResolutionCandidates
<1> HIDE DEF B, C, T, b, c, t
<1>6. OrderedIn(b \o c, B \cup C)
  BY <1>1, <1>3, <1>4, ConcatOrdered
<1>7. OrderedIn((b \o c) \o t, (B \cup C) \cup T)
  BY <1>1, <1>3, <1>4, <1>6, ConcatOrdered
<1> QED
  BY <1>1, <1>5, <1>7

TargetKeys(T) == T \X {Environment, Everywhere}

LEMMA TargetCandidate ==
  ASSUME NEW t \in DOMAIN Specificity, NEW context \in SUBSET Targets
  PROVE  /\ OrderedIn(TargetCandidates(t, context), TargetKeys({t} \cap context))
         /\ Paired(TargetCandidates(t, context))
<1> DEFINE c == << <<t, Environment>>, <<t, Everywhere>> >>
           K == TargetKeys({t} \cap context)
<1>1. CASE t \in context
  <2>1. t \in Targets
    BY <1>1
  <2>2. c \in Seq(K) /\ Len(c) = 2
    BY <1>1 DEF TargetKeys
  <2>3. Rank(c[1]) < Rank(c[2])
    BY <2>1, RulePrecedence
  <2>4. Ordered(c)
    <3>1. DOMAIN c = {1, 2}
      BY <2>2
    <3> QED
      BY <2>3, <3>1 DEF Ordered
  <2>5. Paired(c)
    BY <2>1 DEF Paired
  <2> QED
    BY <1>1, <2>2, <2>4, <2>5 DEF TargetCandidates, OrderedIn
<1>2. CASE t \notin context
  BY <1>2 DEF TargetCandidates, OrderedIn, Ordered, Paired
<1> QED
  BY <1>1, <1>2

(* One more target, less specific than those before it. *)
LEMMA MoreCandidates ==
  ASSUME NEW context \in SUBSET Targets, NEW T \in SUBSET DOMAIN Specificity, NEW chain,
         OrderedIn(chain, TargetKeys(T \cap context)), Paired(chain),
         NEW u \in DOMAIN Specificity, \A t \in T : Specificity[t] < Specificity[u]
  PROVE  /\ OrderedIn(chain \o TargetCandidates(u, context), TargetKeys((T \cup {u}) \cap context))
         /\ Paired(chain \o TargetCandidates(u, context))
<1> DEFINE c == TargetCandidates(u, context)
           K == TargetKeys(T \cap context)
           L == TargetKeys({u} \cap context)
<1>1. K \subseteq Keys /\ L \subseteq Keys /\ K \cup L = TargetKeys((T \cup {u}) \cap context)
  BY RulesAssumption DEF TargetKeys, RuleKey
<1>2. ASSUME NEW k \in K, NEW l \in L PROVE Rank(k) < Rank(l)
  <2>1. PICK t \in T \cap context, e \in {Environment, Everywhere} : k = <<t, e>>
    BY DEF TargetKeys
  <2>2. PICK f \in {Environment, Everywhere} : u \in context /\ l = <<u, f>>
    BY DEF TargetKeys
  <2>3. /\ t \in Targets /\ u \in Targets /\ Specificity[t] < Specificity[u]
        /\ <<t, Environment>> \in Source /\ <<t, Everywhere>> \in Source
        /\ <<u, Environment>> \in Source /\ <<u, Everywhere>> \in Source
    BY <2>2, RulesAssumption DEF RuleKey, Source
  <2>4. /\ Rank(<<t, Environment>>) \in Nat /\ Rank(<<t, Everywhere>>) \in Nat
        /\ Rank(<<u, Environment>>) \in Nat /\ Rank(<<u, Everywhere>>) \in Nat
    BY <2>3, RankType
  <2>5. /\ Rank(<<t, Environment>>) < Rank(<<t, Everywhere>>)
        /\ Rank(<<t, Everywhere>>) < Rank(<<u, Environment>>)
        /\ Rank(<<u, Environment>>) < Rank(<<u, Everywhere>>)
    BY <2>3, RulePrecedence
  <2> QED
    BY <2>1, <2>2, <2>4, <2>5
<1>3. OrderedIn(c, L) /\ Paired(c)
  BY TargetCandidate
<1> HIDE DEF c, K, L
<1>4. OrderedIn(chain, K)
  BY DEF K
<1>5. OrderedIn(chain \o c, K \cup L)
  BY <1>1, <1>2, <1>3, <1>4, ConcatOrdered
<1>6. chain \in Seq(Keys) /\ c \in Seq(Keys)
  <2>1. chain \in Seq(K) /\ c \in Seq(L)
    BY <1>3, <1>4 DEF OrderedIn
  <2> QED
    BY <1>1, <2>1, SeqMonotonic
<1>7. Paired(chain \o c)
  BY <1>3, <1>6, ConcatPaired
<1> QED
  BY <1>1, <1>5, <1>7 DEF c

(* USER before BRANCH before COMPANY before TENANT before PLAN. *)
LEMMA EvaluationOrdered ==
  ASSUME NEW context \in SUBSET Targets
  PROVE  /\ OrderedIn(EvaluationCandidates(context), Keys)
         /\ Paired(EvaluationCandidates(context))
<1> DEFINE u == TargetCandidates("USER", context)
           b == TargetCandidates("BRANCH", context)
           c == TargetCandidates("COMPANY", context)
           t == TargetCandidates("TENANT", context)
           p == TargetCandidates("PLAN", context)
           K(T) == TargetKeys(T \cap context)
<1>1. DOMAIN Specificity = {"USER", "BRANCH", "COMPANY", "TENANT", "PLAN"}
  BY DEF Specificity
<1>2. /\ Specificity["USER"] = 1 /\ Specificity["BRANCH"] = 2 /\ Specificity["COMPANY"] = 3
      /\ Specificity["TENANT"] = 4 /\ Specificity["PLAN"] = 5
  BY DEF Specificity
<1>3. OrderedIn(u, K({"USER"})) /\ Paired(u)
  BY <1>1, TargetCandidate
<1>4. /\ OrderedIn(u \o b, K({"USER"} \cup {"BRANCH"}))
      /\ Paired(u \o b)
  <2>1. \A x \in {"USER"} : Specificity[x] < Specificity["BRANCH"]
    BY <1>2
  <2>2. {"USER"} \in SUBSET DOMAIN Specificity /\ "BRANCH" \in DOMAIN Specificity
    BY <1>1
  <2>3. OrderedIn(u, TargetKeys({"USER"} \cap context)) /\ Paired(u)
    BY <1>3
  <2> HIDE DEF u, b, c, t, p, K
  <2> QED
    BY <2>1, <2>2, <2>3, MoreCandidates DEF K, b
<1>5. /\ OrderedIn(u \o b \o c, K({"USER", "BRANCH"} \cup {"COMPANY"}))
      /\ Paired(u \o b \o c)
  <2>1. \A x \in {"USER", "BRANCH"} : Specificity[x] < Specificity["COMPANY"]
    BY <1>2
  <2>2. {"USER", "BRANCH"} \in SUBSET DOMAIN Specificity /\ "COMPANY" \in DOMAIN Specificity
    BY <1>1
  <2>3. OrderedIn(u \o b, TargetKeys({"USER", "BRANCH"} \cap context)) /\ Paired(u \o b)
    BY <1>4
  <2> HIDE DEF u, b, c, t, p, K
  <2> QED
    BY <2>1, <2>2, <2>3, MoreCandidates DEF K, c
<1>6. /\ OrderedIn(u \o b \o c \o t, K({"USER", "BRANCH", "COMPANY"} \cup {"TENANT"}))
      /\ Paired(u \o b \o c \o t)
  <2>1. \A x \in {"USER", "BRANCH", "COMPANY"} : Specificity[x] < Specificity["TENANT"]
    BY <1>2
  <2>2. {"USER", "BRANCH", "COMPANY"} \in SUBSET DOMAIN Specificity /\ "TENANT" \in DOMAIN Specificity
    BY <1>1
  <2>3. OrderedIn(u \o b \o c, TargetKeys({"USER", "BRANCH", "COMPANY"} \cap context)) /\ Paired(u \o b \o c)
    BY <1>5
  <2> HIDE DEF u, b, c, t, p, K
  <2> QED
    BY <2>1, <2>2, <2>3, MoreCandidates DEF K, t
<1>7. /\ OrderedIn(u \o b \o c \o t \o p, K({"USER", "BRANCH", "COMPANY", "TENANT"} \cup {"PLAN"}))
      /\ Paired(u \o b \o c \o t \o p)
  <2>1. \A x \in {"USER", "BRANCH", "COMPANY", "TENANT"} : Specificity[x] < Specificity["PLAN"]
    BY <1>2
  <2>2. {"USER", "BRANCH", "COMPANY", "TENANT"} \in SUBSET DOMAIN Specificity /\ "PLAN" \in DOMAIN Specificity
    BY <1>1
  <2>3. OrderedIn(u \o b \o c \o t, TargetKeys({"USER", "BRANCH", "COMPANY", "TENANT"} \cap context)) /\ Paired(u \o b \o c \o t)
    BY <1>6
  <2> HIDE DEF u, b, c, t, p, K
  <2> QED
    BY <2>1, <2>2, <2>3, MoreCandidates DEF K, p
<1> DEFINE chain == u \o b \o c \o t \o p
<1>8. EvaluationCandidates(context) = chain
  BY DEF EvaluationCandidates
<1> HIDE DEF chain
<1>9. K({"USER", "BRANCH", "COMPANY", "TENANT"} \cup {"PLAN"}) \subseteq Keys
  BY RulesAssumption DEF TargetKeys, RuleKey
<1>10. OrderedIn(chain, K({"USER", "BRANCH", "COMPANY", "TENANT"} \cup {"PLAN"})) /\ Paired(chain)
  BY <1>7 DEF chain
<1> HIDE DEF K
<1>11. chain \in Seq(Keys) /\ Ordered(chain)
  BY <1>9, <1>10, SeqMonotonic DEF OrderedIn
<1> QED
  BY <1>8, <1>10, <1>11 DEF OrderedIn
-----------------------------------------------------------------------------
(***************************************************************************)
(* What a step does to the readings.                                       *)
(***************************************************************************)
RightAnswer(r, s, on) ==
  /\ \A t \in r.steady : Rank(s) <= Rank(t)
  /\ {InError, Killed} \cap r.steady # {} => ~on
  /\ \A t \in r.winners : r.winners = {t} => s = t

Quiet ==
  /\ UNCHANGED <<reading, rows>>
  /\ catalog' \in Catalog
  /\ catalog'.active = catalog.active /\ catalog'.policy = catalog.policy

Observed ==
  /\ reading' = Watched(catalog', rows')
  /\ catalog' \in Catalog
  /\ subject = "configuration" => catalog'.policy = "NONE"

ReaderMoves(q, r) ==
  /\ r \in Reading /\ Knows(r, catalog, rows)
  /\ BusyRecord(reading[q]) /\ r.at = "answered" => RightAnswer(reading[q], r.source, r.enabled)
  /\ reading' = [reading EXCEPT ![q] = r]
  /\ UNCHANGED <<catalog, rows>>

ReadsStep == Quiet \/ Observed \/ \E q \in Readers, r \in Reading : ReaderMoves(q, r)

LEMMA RanksOfOthers ==
  /\ \A s \in Source : s # InError => Rank(Killed) <= Rank(s)
  /\ \A k \in Keys : Rank(k) <= Rank(ByPolicy)
  /\ Rank(ByPolicy) <= Rank(ByDefault)
  /\ {InError, Killed, ByPolicy, ByDefault} \subseteq Source
<1>1. Len(Precedence) \in Nat
  BY PrecedenceAssumption
<1>2. \A k \in Keys : Rank(k) \in 2..Len(Precedence) + 1
  BY <1>1, RankOfKey
<1> QED
  BY <1>1, <1>2, OtherRanks DEF Source

(* An answer that is as specific as all that has been there ever since, and *)
(* no more specific than some winner, is right.                             *)
LEMMA AnswerIsRight ==
  ASSUME NEW r \in Reading, NEW cat \in Catalog, NEW table, BusyRecord(r), Knows(r, cat, table),
         NEW s \in Source, NEW on, Killed \in r.steady => ~on,
         \A t \in r.steady : Rank(s) <= Rank(t),
         \E w \in r.winners : Rank(w) <= Rank(s)
  PROVE  RightAnswer(r, s, on)
<1>1. InError \notin r.steady /\ r.steady \subseteq Source /\ r.winners \subseteq Source
  BY DEF Knows, Reading
<1>2. ASSUME NEW t \in r.winners, r.winners = {t} PROVE s = t
  <2>1. t \in Source /\ t \in r.steady
    BY <1>1, <1>2 DEF Knows
  <2>2. Rank(t) <= Rank(s) /\ Rank(s) <= Rank(t)
    BY <1>2, <2>1
  <2>3. Rank(t) \in Nat /\ Rank(s) \in Nat
    BY <2>1, RankType
  <2>4. Rank(t) = Rank(s)
    BY <2>2, <2>3
  <2> QED
    BY <2>1, <2>4, RankInjective
<1> QED
  BY <1>1, <1>2 DEF RightAnswer

(* What of a reading's steady sources is not behind it. *)
LEMMA StillToCome ==
  ASSUME NEW r \in Reading, NEW cat \in Catalog, NEW table,
         r.at = "candidates", Knows(r, cat, table), NEW s \in r.steady
  PROVE  \/ s = ByDefault
         \/ s = ByPolicy /\ r.policy = "ON"
         \/ \E i \in DOMAIN r.chain : r.next <= i /\ s = r.chain[i]
<1>1. /\ s \in Present(r.chain, cat, table) /\ s # InError /\ s # Killed
      /\ s = ByPolicy => r.policy = "ON"
      /\ \A i \in DOMAIN r.chain : i < r.next => s # r.chain[i]
  BY DEF Knows, BusyRecord, PassedOver
<1>2. r.chain \in Seq(Keys) /\ r.next \in Nat
  BY DEF Reading
<1>3. \A i \in DOMAIN r.chain : i \in Nat
  BY <1>2, ElementOfSeq
<1>4. \/ s = ByDefault \/ s = ByPolicy
      \/ \E i \in DOMAIN r.chain : s = r.chain[i]
  <2>1. \/ s = ByDefault \/ s = InError \/ s = Killed \/ s = ByPolicy
        \/ \E i \in DOMAIN r.chain : s = r.chain[i] /\ ActiveRows(table, r.chain[i]) # {}
    <3> DEFINE chain == r.chain
    <3>1. s \in Present(chain, cat, table)
      BY <1>1
    <3> HIDE DEF chain
    <3>2. \/ s = ByDefault \/ s = InError \/ s = Killed \/ s = ByPolicy
          \/ \E i \in DOMAIN chain : s = chain[i] /\ ActiveRows(table, chain[i]) # {}
      BY <3>1, PresentIs, SMTT(30)
    <3> QED
      BY <3>2 DEF chain
  <2> QED
    BY <1>1, <2>1
<1> QED
  BY <1>1, <1>2, <1>3, <1>4

LEMMA BusyReading ==
  ASSUME ReadsInv, NEW q \in Readers
  PROVE  /\ reading[q] \in Reading /\ Knows(reading[q], catalog, rows) /\ catalog \in Catalog
         /\ reading[q].chain \in Seq(Keys) /\ reading[q].next \in Nat
         /\ Len(reading[q].chain) \in Nat
         /\ DOMAIN reading[q].chain = 1..Len(reading[q].chain)
<1>1. reading[q] \in Reading /\ Knows(reading[q], catalog, rows) /\ catalog \in Catalog
  BY DEF ReadsInv, ReadsTypeOK
<1>2. reading[q].chain \in Seq(Keys) /\ reading[q].next \in Nat
  BY <1>1 DEF Reading
<1> QED
  BY <1>1, <1>2, LenProperties

(* The winner of this moment is among the winners, and comes before        *)
(* whatever is there.                                                      *)
LEMMA WinnerBefore ==
  ASSUME ReadsInv, NEW q \in Readers, BusyRecord(reading[q]), NEW s \in Source,
         s \in Present(reading[q].chain, catalog, rows) \/ s = ByDefault
  PROVE  \E w \in reading[q].winners : Rank(w) <= Rank(s)
<1> DEFINE r == reading[q]
           w == Winner(r.chain, catalog, rows)
<1>1. w \in r.winners
  BY BusyReading DEF Knows
<1>2. w \in Source /\ \A t \in Present(r.chain, catalog, rows) : Rank(w) <= Rank(t)
  BY BusyReading, WinnerIsFirst
<1>3. Rank(w) <= Rank(ByDefault)
  BY <1>2, RankType
<1> QED
  BY <1>1, <1>2, <1>3

(* The first candidate with an ACTIVE row is a right answer. *)
LEMMA CandidateIsRight ==
  ASSUME ReadsInv, NEW q \in Readers, reading[q].at = "candidates",
         NEW n \in DOMAIN reading[q].chain, reading[q].next <= n,
         ActiveRows(rows, reading[q].chain[n]) # {},
         \A i \in DOMAIN reading[q].chain :
           reading[q].next <= i /\ i < n => ActiveRows(rows, reading[q].chain[i]) = {},
         NEW on
  PROVE  reading[q].chain[n] \in Source /\ RightAnswer(reading[q], reading[q].chain[n], on)
<1> DEFINE r == reading[q]
           s == r.chain[n]
<1>1. /\ r \in Reading /\ Knows(r, catalog, rows) /\ catalog \in Catalog
      /\ r.chain \in Seq(Keys) /\ r.next \in Nat /\ DOMAIN r.chain = 1..Len(r.chain)
      /\ BusyRecord(r)
  BY BusyReading DEF BusyRecord
<1>2. s \in Keys /\ s \in Source
  BY <1>1, ElementOfSeq DEF Source
<1>3. s \in Present(r.chain, catalog, rows)
  BY <1>1, PresentCandidate
<1>4. ASSUME NEW t \in r.steady PROVE Rank(s) <= Rank(t)
  <2>1. CASE t = ByDefault \/ t = ByPolicy
    <3>1. Rank(s) <= Rank(ByPolicy)
      BY <1>2, RanksOfOthers
    <3>2. Rank(s) <= Rank(ByDefault)
      BY <1>2, RankType
    <3> QED
      BY <2>1, <3>1, <3>2
  <2>2. CASE \E i \in DOMAIN r.chain : r.next <= i /\ t = r.chain[i]
    <3>1. PICK i \in DOMAIN r.chain : r.next <= i /\ t = r.chain[i]
      BY <2>2
    <3>2. t \in Present(r.chain, catalog, rows)
      BY <1>1 DEF Knows
    <3>3. ActiveRows(rows, r.chain[i]) # {}
      BY <1>1, <3>1, <3>2, PresentCandidate
    <3>4. i \in Nat /\ n \in Nat /\ ~(i < n)
      <4>1. i \in 1..Len(r.chain) /\ n \in 1..Len(r.chain) /\ Len(r.chain) \in Nat
        BY <1>1, <3>1, BusyReading
      <4>2. ~(i < n)
        BY <3>1, <3>3
      <4> HIDE DEF r
      <4> QED
        BY <4>1, <4>2
    <3>5. i = n \/ n < i
      BY <3>4
    <3>6. n < i => Rank(s) < Rank(t)
      <4>1. Ordered(r.chain)
        BY <1>1 DEF Knows
      <4> QED
        BY <3>1, <4>1 DEF Ordered
    <3>7. t \in Source
      BY <1>1 DEF Reading
    <3>8. Rank(s) \in Nat /\ Rank(t) \in Nat
      BY <1>2, <3>7, RankType
    <3> QED
      BY <3>1, <3>5, <3>6, <3>8
  <2> QED
    BY <1>1, <2>1, <2>2, StillToCome
<1>5. Killed \notin r.steady
  BY <1>1 DEF Knows, PassedOver
<1>6. \E w \in r.winners : Rank(w) <= Rank(s)
  BY <1>1, <1>2, <1>3, WinnerBefore
<1> HIDE DEF r, s
<1>7. RightAnswer(r, s, on)
  BY <1>1, <1>2, <1>4, <1>5, <1>6, AnswerIsRight
<1> QED
  BY <1>2, <1>7 DEF r, s

(* When no candidate is left: the policy that is ON, or the default. *)
LEMMA FallbackIsRight ==
  ASSUME ReadsInv, NEW q \in Readers, reading[q].at = "candidates",
         reading[q].next > Len(reading[q].chain), NEW on
  PROVE  /\ reading[q].policy = "ON" => RightAnswer(reading[q], ByPolicy, on)
         /\ ByPolicy \notin reading[q].steady => RightAnswer(reading[q], ByDefault, on)
<1> DEFINE r == reading[q]
<1>1. /\ r \in Reading /\ Knows(r, catalog, rows) /\ catalog \in Catalog
      /\ r.next \in Nat /\ Len(r.chain) \in Nat /\ DOMAIN r.chain = 1..Len(r.chain)
      /\ BusyRecord(r)
  BY BusyReading DEF BusyRecord
<1>2. ByPolicy \in Source /\ ByDefault \in Source
      /\ Rank(ByPolicy) \in Nat /\ Rank(ByDefault) \in Nat /\ Rank(ByPolicy) <= Rank(ByDefault)
  BY RanksOfOthers, RankType
<1>3. \A t \in r.steady : t = ByDefault \/ t = ByPolicy
  <2>1. \A i \in DOMAIN r.chain : ~(r.next <= i)
    BY <1>1
  <2> QED
    BY <1>1, <2>1, StillToCome
<1>4. Killed \notin r.steady
  BY <1>1 DEF Knows, PassedOver
<1>5. \E w \in r.winners : Rank(w) <= Rank(ByDefault)
  BY <1>1, <1>2, WinnerBefore
<1>6. r.policy = "ON" => \E w \in r.winners : Rank(w) <= Rank(ByPolicy)
  BY <1>1 DEF Knows, PassedOver
<1>7. /\ \A t \in r.steady : Rank(ByPolicy) <= Rank(t)
      /\ ByPolicy \notin r.steady => \A t \in r.steady : Rank(ByDefault) <= Rank(t)
  BY <1>2, <1>3
<1> HIDE DEF r
<1>8. r.policy = "ON" => RightAnswer(r, ByPolicy, on)
  BY <1>1, <1>2, <1>4, <1>6, <1>7, AnswerIsRight
<1>9. ByPolicy \notin r.steady => RightAnswer(r, ByDefault, on)
  BY <1>1, <1>2, <1>4, <1>5, <1>7, AnswerIsRight
<1> QED
  BY <1>8, <1>9 DEF r

(* The kill switch comes before everything a reading that found the flag   *)
(* can find.                                                               *)
LEMMA KilledIsRight ==
  ASSUME ReadsInv, NEW q \in Readers, BusyRecord(reading[q]), catalog.policy = "OFF"
  PROVE  RightAnswer(reading[q], Killed, FALSE)
<1> DEFINE r == reading[q]
<1>1. r \in Reading /\ Knows(r, catalog, rows) /\ catalog \in Catalog /\ r.chain \in Seq(Keys)
  BY BusyReading
<1>2. Killed \in Present(r.chain, catalog, rows)
  BY <1>1, PresentOthers
<1>3. Killed \in Source /\ \A t \in r.steady : t \in Source /\ t # InError
  BY <1>1, RanksOfOthers DEF Knows, Reading
<1>4. \A t \in r.steady : Rank(Killed) <= Rank(t)
  BY <1>3, RanksOfOthers
<1>5. \E w \in r.winners : Rank(w) <= Rank(Killed)
  BY <1>2, <1>3, WinnerBefore
<1> HIDE DEF r
<1>6. RightAnswer(r, Killed, FALSE)
  BY <1>1, <1>3, <1>4, <1>5, AnswerIsRight DEF r
<1> QED
  BY <1>6 DEF r
-----------------------------------------------------------------------------
(***************************************************************************)
(* Every action of a reader is such a move.                                *)
(***************************************************************************)
LEMMA AtRest ==
  /\ NotReading \in Reading
  /\ \A s \in Source, on \in BOOLEAN :
       LET r == [NotReading EXCEPT !.at = "answered", !.source = s, !.enabled = on]
       IN  r \in Reading /\ ~BusyRecord(r) /\ r.at = "answered" /\ r.source = s /\ r.enabled = on
  /\ ~BusyRecord(NotReading) /\ NotReading.at = "idle"
<1>1. InError \in Source
  BY DEF Source
<1>2. NotReading \in Reading
  <2>1. <<>> \in Seq(Keys)
    OBVIOUS
  <2> HIDE DEF InError
  <2> QED
    BY <1>1, <2>1 DEF NotReading, Reading, Policy
<1>3. ASSUME NEW s \in Source, NEW on \in BOOLEAN
      PROVE  LET r == [NotReading EXCEPT !.at = "answered", !.source = s, !.enabled = on]
             IN  r \in Reading /\ ~BusyRecord(r) /\ r.at = "answered" /\ r.source = s /\ r.enabled = on
  BY <1>2 DEF Reading, BusyRecord
<1>4. ~BusyRecord(NotReading) /\ NotReading.at = "idle"
  BY DEF NotReading, BusyRecord
<1> QED
  BY <1>2, <1>3, <1>4

LEMMA FailedMoves ==
  ASSUME ReadsInv, NEW q \in Readers, Failed(q), UNCHANGED <<catalog, rows>>
  PROVE  ReadsStep
<1>1. ReaderMoves(q, NotReading)
  BY AtRest DEF Failed, ReaderMoves, Knows
<1> QED
  BY <1>1, AtRest DEF ReadsStep

LEMMA AnsweredMoves ==
  ASSUME ReadsInv, NEW q \in Readers, NEW s \in Source, NEW on \in BOOLEAN,
         BusyRecord(reading[q]) => RightAnswer(reading[q], s, on),
         Answered(q, s, on), UNCHANGED <<catalog, rows>>
  PROVE  ReadsStep
<1> DEFINE r == [NotReading EXCEPT !.at = "answered", !.source = s, !.enabled = on]
<1>1. r \in Reading /\ ~BusyRecord(r) /\ r.at = "answered" /\ r.source = s /\ r.enabled = on
  BY AtRest
<1>2. reading' = [reading EXCEPT ![q] = r]
  BY DEF Answered
<1> HIDE DEF r
<1>3. ReaderMoves(q, r)
  BY <1>1, <1>2 DEF ReaderMoves, Knows
<1> QED
  BY <1>1, <1>3 DEF ReadsStep

(* A reading begins by what is there. *)
LEMMA BegunMoves ==
  ASSUME ReadsInv, NEW q \in Readers, CanStart(q), catalog.active,
         NEW chain \in Seq(Keys), Ordered(chain), subject = "flags" => Paired(chain),
         NEW at \in {"policy", "candidates"},
         at = "candidates" => catalog.policy = "NONE",
         Begun(q, chain, at), UNCHANGED <<catalog, rows>>
  PROVE  ReadsStep
<1> DEFINE P == Present(chain, catalog, rows)
           w == Winner(chain, catalog, rows)
           r == [NotReading EXCEPT !.at = at, !.chain = chain, !.steady = P, !.winners = {w}]
<1>1. catalog \in Catalog
  BY DEF ReadsInv, ReadsTypeOK
<1>2. P \subseteq Source /\ w \in Source /\ w \in P
  BY <1>1, PresentSources, WinnerIsFirst
<1>3. InError \notin P /\ (at = "candidates" => Killed \notin P /\ ByPolicy \notin P)
  BY <1>1, PresentOthers
<1>4. reading' = [reading EXCEPT ![q] = r]
  BY DEF Begun
<1> HIDE DEF P, w
<1>5. /\ r.at = at /\ r.chain = chain /\ r.next = 1 /\ r.policy = "NONE"
      /\ r.steady = P /\ r.winners = {w}
  BY DEF NotReading
<1>6. r \in Reading
  <2>1. NotReading \in Reading
    BY AtRest
  <2> QED
    BY <1>2, <2>1 DEF Reading
<1> HIDE DEF r
<1>7. \A i \in DOMAIN chain : ~(i < 1)
  <2>1. DOMAIN chain = 1..Len(chain) /\ Len(chain) \in Nat
    BY LenProperties
  <2> QED
    BY <2>1
<1>8. at = "candidates" => PassedOver(r)
  BY <1>3, <1>5, <1>7 DEF PassedOver
<1>9. Knows(r, catalog, rows)
  BY <1>2, <1>3, <1>5, <1>8 DEF Knows, P, w
<1>10. ReaderMoves(q, r)
  BY <1>4, <1>5, <1>6, <1>9 DEF ReaderMoves
<1> QED
  BY <1>6, <1>10 DEF ReadsStep

(* A candidate without an ACTIVE row now has none throughout. *)
LEMMA NextMoves ==
  ASSUME ReadsInv, NEW q \in Readers, reading[q].at = "candidates",
         NEW n \in {1, 2}, subject = "flags" => n = 2,
         \A i \in DOMAIN reading[q].chain :
           reading[q].next <= i /\ i < reading[q].next + n =>
             ActiveRows(rows, reading[q].chain[i]) = {},
         NextCandidate(q, n), UNCHANGED <<catalog, rows>>
  PROVE  ReadsStep
<1> DEFINE b == reading[q]
           r == [b EXCEPT !.next = b.next + n]
<1>1. /\ b \in Reading /\ Knows(b, catalog, rows) /\ BusyRecord(b) /\ b.next \in Nat
      /\ b.chain \in Seq(Keys) /\ catalog \in Catalog
      /\ DOMAIN b.chain = 1..Len(b.chain) /\ Len(b.chain) \in Nat
  BY BusyReading DEF BusyRecord
<1>2. reading' = [reading EXCEPT ![q] = r]
  BY DEF NextCandidate
<1>3. /\ r \in Reading /\ r.at = "candidates" /\ r.chain = b.chain /\ r.next = b.next + n
      /\ r.policy = b.policy /\ r.steady = b.steady /\ r.winners = b.winners
  BY <1>1 DEF Reading
<1>4. b.steady \subseteq Present(b.chain, catalog, rows) /\ PassedOver(b)
  BY <1>1 DEF Knows
<1>5. ASSUME NEW i \in DOMAIN b.chain, i < b.next + n PROVE b.chain[i] \notin b.steady
  <2>1. CASE i < b.next
    BY <1>4, <2>1 DEF PassedOver
  <2>2. CASE ~(i < b.next)
    <3>1. i \in Nat
      BY <1>1
    <3>2. b.next <= i
      BY <1>1, <2>2, <3>1
    <3>3. ActiveRows(rows, b.chain[i]) = {}
      BY <1>5, <3>2
    <3>4. b.chain[i] \notin Present(b.chain, catalog, rows)
      BY <1>1, <3>3, PresentCandidate
    <3> QED
      BY <1>4, <3>4
  <2> QED
    BY <2>1, <2>2
<1> HIDE DEF b, r
<1>6. PassedOver(r)
  BY <1>3, <1>4, <1>5 DEF PassedOver
<1>7. subject = "flags" => Paired(r.chain) /\ r.next % 2 = 1
  BY <1>1, <1>3 DEF Knows
<1>8. Knows(r, catalog, rows)
  BY <1>1, <1>3, <1>6, <1>7 DEF Knows, BusyRecord
<1>9. ReaderMoves(q, r)
  BY <1>2, <1>3, <1>8 DEF ReaderMoves
<1> QED
  BY <1>3, <1>9 DEF ReadsStep

(* The policy a flag's reading found is in force or was at its winner's     *)
(* moment; the one it did not find is not steady.                           *)
LEMMA PolicyMoves ==
  ASSUME ReadsInv, NEW q \in Readers, EvaluatePolicy(q), UNCHANGED <<catalog, rows>>
  PROVE  ReadsStep
<1> DEFINE b == reading[q]
           r == [b EXCEPT !.at = "candidates", !.policy = catalog.policy]
<1>1. /\ b \in Reading /\ Knows(b, catalog, rows) /\ BusyRecord(b) /\ b.at = "policy"
      /\ b.chain \in Seq(Keys) /\ catalog \in Catalog
      /\ DOMAIN b.chain = 1..Len(b.chain) /\ Len(b.chain) \in Nat
  BY BusyReading DEF BusyRecord, EvaluatePolicy
<1>2. CASE catalog.policy = "OFF"
  <2>1. Answered(q, Killed, FALSE)
    BY <1>2 DEF EvaluatePolicy, KillSwitch, FindActiveEnvironmentPolicy
  <2>2. RightAnswer(reading[q], Killed, FALSE) /\ Killed \in Source
    BY <1>1, <1>2, KilledIsRight, RanksOfOthers
  <2> QED
    BY <2>1, <2>2, AnsweredMoves
<1>3. CASE catalog.policy # "OFF"
  <2>1. reading' = [reading EXCEPT ![q] = r]
    BY <1>3 DEF EvaluatePolicy, KillSwitch, FindActiveEnvironmentPolicy
  <2>2. /\ r \in Reading /\ r.at = "candidates" /\ r.chain = b.chain /\ r.next = b.next
        /\ r.policy = catalog.policy /\ r.steady = b.steady /\ r.winners = b.winners
    BY <1>1 DEF Reading, Catalog
  <2>3. b.steady \subseteq Present(b.chain, catalog, rows) /\ b.next = 1
    BY <1>1 DEF Knows
  <2>4. /\ Killed \notin Present(b.chain, catalog, rows)
        /\ ByPolicy \in Present(b.chain, catalog, rows) <=> catalog.policy = "ON"
    BY <1>1, <1>3, PresentOthers
  <2>5. catalog.policy = "ON" => \E w \in b.winners : Rank(w) <= Rank(ByPolicy)
    BY <1>1, <2>4, RanksOfOthers, WinnerBefore
  <2>6. \A i \in DOMAIN b.chain : ~(i < 1)
    BY <1>1
  <2> HIDE DEF b, r
  <2>7. PassedOver(r)
    BY <2>2, <2>3, <2>4, <2>5, <2>6 DEF PassedOver
  <2>8. Knows(r, catalog, rows)
    BY <1>1, <2>2, <2>7 DEF Knows, BusyRecord
  <2>9. ReaderMoves(q, r)
    BY <2>1, <2>2, <2>8 DEF ReaderMoves
  <2> QED
    BY <2>2, <2>9 DEF ReadsStep
<1> QED
  BY <1>2, <1>3

LEMMA ConfigurationReadMoves ==
  ASSUME ReadsInv, subject = "configuration", NEW q \in Readers, ConfigurationRead(q)
  PROVE  ReadsStep
<1> DEFINE b == reading[q]
<1>1. UNCHANGED <<catalog, rows>> /\ catalog.policy = "NONE" /\ InError \in Source
  BY RanksOfOthers DEF ConfigurationRead, rowVars, ReadsInv, NoPolicy
<1>2. CASE ResolveEffective(q)
  <2>1. PICK scope \in Scope :
          IF catalog.active THEN Begun(q, ResolutionCandidates(scope), "candidates")
                            ELSE Answered(q, InError, FALSE)
    BY <1>2 DEF ResolveEffective, ActiveDefinition
  <2>2. CanStart(q) /\ ~BusyRecord(b)
    BY <1>2 DEF ResolveEffective, CanStart, BusyRecord
  <2>3. /\ ResolutionCandidates(scope) \in Seq(Keys)
        /\ Ordered(ResolutionCandidates(scope))
    <3>1. OrderedIn(ResolutionCandidates(scope), Scope)
      BY ResolutionOrdered
    <3> QED
      BY <3>1, SettingsAssumption, SeqMonotonic DEF OrderedIn
  <2>4. CASE catalog.active
    BY <1>1, <2>1, <2>2, <2>3, <2>4, BegunMoves
  <2>5. CASE ~catalog.active
    BY <1>1, <2>1, <2>2, <2>5, AnsweredMoves
  <2> QED
    BY <2>4, <2>5
<1>3. CASE ResolveCandidate(q)
  <2>1. /\ b.at = "candidates" /\ b.next <= Len(b.chain) /\ b.next \in Nat
        /\ Len(b.chain) \in Nat /\ DOMAIN b.chain = 1..Len(b.chain)
    BY <1>3, BusyReading DEF ResolveCandidate
  <2>2. ActiveRows(rows, b.chain[b.next]) # {} => Answered(q, b.chain[b.next], TRUE)
    BY <1>3 DEF ResolveCandidate, FindActiveSetting
  <2>3. ActiveRows(rows, b.chain[b.next]) = {} => NextCandidate(q, 1)
    BY <1>3 DEF ResolveCandidate, FindActiveSetting
  <2>4. \A i \in DOMAIN b.chain : b.next <= i /\ i < b.next + 1 => i = b.next
    BY <2>1
  <2>5. \A i \in DOMAIN b.chain : ~(b.next <= i /\ i < b.next)
    BY <2>1
  <2>6. CASE ActiveRows(rows, b.chain[b.next]) = {}
    BY <1>1, <2>1, <2>3, <2>4, <2>6, NextMoves
  <2>7. CASE ActiveRows(rows, b.chain[b.next]) # {}
    <3>1. b.next \in DOMAIN b.chain /\ b.next <= b.next
      <4>1. b.next >= 1
        <5>1. b \in Reading
          BY BusyReading
        <5>2. b.next \in Nat \ {0}
          BY <5>1 DEF Reading
        <5> QED
          BY <5>2
      <4> QED
        BY <2>1, <4>1
    <3>2. b.chain[b.next] \in Source /\ RightAnswer(b, b.chain[b.next], TRUE)
      BY <2>1, <2>5, <2>7, <3>1, CandidateIsRight
    <3> QED
      BY <1>1, <2>2, <2>7, <3>2, AnsweredMoves
  <2> QED
    BY <2>6, <2>7
<1>4. CASE ResolveDefault(q)
  <2>1. /\ b.at = "candidates" /\ b.next > Len(b.chain) /\ BusyRecord(b)
        /\ Failed(q) \/ Answered(q, ByDefault, TRUE)
    BY <1>4 DEF ResolveDefault, BusyRecord
  <2>2. ByPolicy \notin b.steady
    <3>1. b.chain \in Seq(Keys) /\ catalog \in Catalog /\ Knows(b, catalog, rows)
      BY BusyReading
    <3>2. ByPolicy \notin Present(b.chain, catalog, rows)
      BY <1>1, <3>1, PresentOthers
    <3> QED
      BY <2>1, <3>1, <3>2 DEF Knows
  <2>3. RightAnswer(b, ByDefault, TRUE) /\ ByDefault \in Source
    BY <2>1, <2>2, FallbackIsRight, RanksOfOthers
  <2> QED
    BY <1>1, <2>1, <2>3, FailedMoves, AnsweredMoves
<1> QED
  BY <1>2, <1>3, <1>4 DEF ConfigurationRead

(* A flag's reading looks for both rules of a target in one step. *)
LEMMA FlagReadMoves ==
  ASSUME ReadsInv, subject = "flags", NEW q \in Readers, FlagRead(q)
  PROVE  ReadsStep
<1> DEFINE b == reading[q]
<1>1. UNCHANGED <<catalog, rows>> /\ {InError, ByPolicy, ByDefault} \subseteq Source
  BY RanksOfOthers DEF FlagRead, rowVars
<1>2. CASE Evaluate(q)
  <2>1. PICK context \in SUBSET Targets :
          IF catalog.active THEN Begun(q, EvaluationCandidates(context), "policy")
                            ELSE Answered(q, InError, FALSE)
    BY <1>2 DEF Evaluate, FlagActive, AuthorizedContexts
  <2>2. CanStart(q) /\ ~BusyRecord(b)
    BY <1>2 DEF Evaluate, CanStart, BusyRecord
  <2>3. /\ EvaluationCandidates(context) \in Seq(Keys)
        /\ Ordered(EvaluationCandidates(context)) /\ Paired(EvaluationCandidates(context))
    BY EvaluationOrdered DEF OrderedIn
  <2>4. CASE catalog.active
    BY <1>1, <2>1, <2>2, <2>3, <2>4, BegunMoves
  <2>5. CASE ~catalog.active
    BY <1>1, <2>1, <2>2, <2>5, AnsweredMoves
  <2> QED
    BY <2>4, <2>5
<1>3. CASE EvaluatePolicy(q)
  BY <1>1, <1>3, PolicyMoves
<1>4. CASE EvaluateCandidate(q)
  <2>1. /\ b.at = "candidates" /\ b.next <= Len(b.chain) /\ b.next \in Nat /\ BusyRecord(b)
        /\ Len(b.chain) \in Nat /\ DOMAIN b.chain = 1..Len(b.chain)
    BY <1>4, BusyReading DEF EvaluateCandidate, BusyRecord
  <2>2. Knows(b, catalog, rows)
    BY BusyReading
  <2>3. Paired(b.chain) /\ b.next % 2 = 1
    BY <2>1, <2>2 DEF Knows
  <2> DEFINE n == b.next
  <2>4. n \in 1..Len(b.chain)
    <3> HIDE DEF b
    <3>1. n # 0
      BY <2>3
    <3> QED
      BY <2>1, <3>1
  <2>5. PICK t \in Targets : b.chain[n] = <<t, Environment>> /\ b.chain[n + 1] = <<t, Everywhere>>
    BY <2>3, <2>4 DEF Paired
  <2>6. n + 1 \in 1..Len(b.chain)
    BY <2>3, <2>4 DEF Paired
  <2> DEFINE here == ActiveRows(rows, b.chain[n])
             all == ActiveRows(rows, b.chain[n + 1])
             found == IF here # {} THEN here ELSE all
  <2>7. FindActiveRule(b.chain[b.next][1]) = found
    BY <2>5 DEF FindActiveRule
  <2>8. CASE found = {}
    <3>1. NextCandidate(q, 2)
      BY <1>4, <2>7, <2>8 DEF EvaluateCandidate
    <3>2. \A i \in DOMAIN b.chain : n <= i /\ i < n + 2 => i = n \/ i = n + 1
      BY <2>1
    <3>3. here = {} /\ all = {}
      BY <2>8
    <3>4. \A i \in DOMAIN b.chain : n <= i /\ i < n + 2 => ActiveRows(rows, b.chain[i]) = {}
      BY <3>2, <3>3
    <3> QED
      BY <1>1, <2>1, <3>1, <3>4, NextMoves
  <2>9. CASE found # {}
    <3>1. PICK rule \in found, bucket \in Buckets :
            Answered(q, rows[rule].key, RolloutDecision(rows[rule].value, bucket))
      BY <1>4, <2>7, <2>9 DEF EvaluateCandidate
    <3> DEFINE on == RolloutDecision(rows[rule].value, bucket)
    <3>0. on \in BOOLEAN
      BY DEF RolloutDecision
    <3> HIDE DEF on
    <3>2. CASE here # {}
      <4>1. rows[rule].key = b.chain[n]
        BY <3>1, <3>2 DEF ActiveRows
      <4>2. \A i \in DOMAIN b.chain : ~(n <= i /\ i < n)
        BY <2>1
      <4>3. n <= n
        BY <2>1
      <4>4. b.chain[n] \in Source /\ RightAnswer(b, b.chain[n], on)
        BY <2>1, <2>4, <3>2, <4>2, <4>3, CandidateIsRight
      <4>5. Answered(q, rows[rule].key, on)
        BY <3>1 DEF on
      <4> QED
        BY <1>1, <3>0, <4>1, <4>4, <4>5, AnsweredMoves
    <3>3. CASE here = {}
      <4>1. rows[rule].key = b.chain[n + 1] /\ all # {}
        BY <2>9, <3>1, <3>3 DEF ActiveRows
      <4>2. \A i \in DOMAIN b.chain : n <= i /\ i < n + 1 => ActiveRows(rows, b.chain[i]) = {}
        <5>1. \A i \in DOMAIN b.chain : n <= i /\ i < n + 1 => i = n
          BY <2>1
        <5> QED
          BY <3>3, <5>1
      <4>3. n <= n + 1
        BY <2>1
      <4>4. b.chain[n + 1] \in Source /\ RightAnswer(b, b.chain[n + 1], on)
        BY <2>1, <2>6, <4>1, <4>2, <4>3, CandidateIsRight
      <4>5. Answered(q, rows[rule].key, on)
        BY <3>1 DEF on
      <4> QED
        BY <1>1, <3>0, <4>1, <4>4, <4>5, AnsweredMoves
    <3> QED
      BY <3>2, <3>3
  <2> QED
    BY <2>8, <2>9
<1>5. CASE EvaluateFallback(q)
  <2>1. b.at = "candidates" /\ b.next > Len(b.chain) /\ BusyRecord(b)
    BY <1>5 DEF EvaluateFallback, BusyRecord
  <2>2. CASE b.policy = "ON"
    <3>1. PICK on \in BOOLEAN : Answered(q, ByPolicy, on)
      BY <1>5, <2>2 DEF EvaluateFallback, RolloutDecision
    <3>2. RightAnswer(b, ByPolicy, on)
      BY <2>1, <2>2, FallbackIsRight
    <3> QED
      BY <1>1, <3>1, <3>2, AnsweredMoves
  <2>3. CASE b.policy # "ON"
    <3>1. PICK on \in BOOLEAN : Answered(q, ByDefault, on)
      BY <1>5, <2>3 DEF EvaluateFallback
    <3>2. ByPolicy \notin b.steady
      BY <2>1, <2>3, BusyReading DEF Knows, PassedOver
    <3>3. RightAnswer(b, ByDefault, on)
      BY <2>1, <3>2, FallbackIsRight
    <3> QED
      BY <1>1, <3>1, <3>3, AnsweredMoves
  <2> QED
    BY <2>2, <2>3
<1> QED
  BY <1>2, <1>3, <1>4, <1>5 DEF FlagRead
-----------------------------------------------------------------------------
(* What is watched is known: the steady sources are those that are still   *)
(* there, and a source that is the only winner is.                         *)
LEMMA WatchedKnows ==
  ASSUME NEW r \in Reading, NEW cat, NEW table, Knows(r, cat, table), BusyRecord(r),
         NEW now \in Catalog, NEW after
  PROVE  LET w == [r EXCEPT !.steady = @ \cap Present(r.chain, now, after),
                            !.winners = @ \cup {Winner(r.chain, now, after)}]
         IN  w \in Reading /\ Knows(w, now, after) /\ w.at = r.at
<1> DEFINE P == Present(r.chain, now, after)
           x == Winner(r.chain, now, after)
           w == [r EXCEPT !.steady = @ \cap P, !.winners = @ \cup {x}]
<1>1. r.chain \in Seq(Keys)
  BY DEF Reading
<1>2. P \subseteq Source /\ x \in Source /\ x \in P
  BY <1>1, PresentSources, WinnerIsFirst
<1> HIDE DEF P, x
<1>3. /\ w \in Reading /\ w.at = r.at /\ w.chain = r.chain /\ w.next = r.next
      /\ w.policy = r.policy /\ w.steady = r.steady \cap P /\ w.winners = r.winners \cup {x}
  BY <1>2 DEF Reading
<1> HIDE DEF w
<1>4. ASSUME NEW s \in Source, w.winners = {s} PROVE s \in w.steady
  <2>1. Winner(r.chain, cat, table) \in r.winners
    BY DEF Knows
  <2>2. r.winners = {s} /\ x = s
    BY <1>3, <1>4, <2>1
  <2>3. s \in r.steady
    BY <2>2 DEF Knows
  <2> QED
    BY <1>2, <1>3, <2>2, <2>3
<1>5. PassedOver(r) => PassedOver(w)
  BY <1>3 DEF PassedOver
<1>6. Knows(w, now, after)
  BY <1>3, <1>4, <1>5 DEF Knows, BusyRecord, P, x
<1> QED
  BY <1>3, <1>6 DEF w, P, x

(* Nothing of a request's own is seen before its COMMIT. *)
LEMMA WritesLeaveRows ==
  ASSUME NEW p \in Requests, ConfigurationWrite(p) \/ FlagWrite(p)
  PROVE  UNCHANGED <<rows, catalog, reading>>
<1> USE DEF Prepare, Written, RolledBack, readVars
<1>1. CASE ConfigurationWrite(p)
  BY <1>1 DEF ConfigurationWrite, PutOverride, PrepareCreate, PrepareUpdate, TransitionOverride,
              CreateOverride, UpdateOverride, TransitionStatement, InsertRow, UpdateRow, Abandon
<1>2. CASE FlagWrite(p)
  BY <1>2 DEF FlagWrite, PutRule, PrepareCreateRule, PrepareUpdateRule, TransitionRuleStatus,
              RestoreRuleVersion, CreateRule, UpdateRule, TransitionRuleStatement,
              RestoreStatement, InsertRow, UpdateRow, Abandon
<1> QED
  BY <1>1, <1>2

LEMMA NextIsReadsStep ==
  ASSUME ReadsInv, [Next]_tenantVars
  PROVE  ReadsStep /\ UNCHANGED <<subject, cast>>
<1>1. catalog \in Catalog
  BY DEF ReadsInv, ReadsTypeOK
<1>2. CASE UNCHANGED <<rowVars, readVars, subject, cast>>
  BY <1>1, <1>2 DEF ReadsStep, Quiet, rowVars, readVars
<1>3. ASSUME NEW p \in Requests, ConfigurationWrite(p) \/ FlagWrite(p) PROVE ReadsStep
  BY <1>1, <1>3, WritesLeaveRows DEF ReadsStep, Quiet
<1>4. ASSUME NEW p \in Requests, CommitSeen(p) PROVE ReadsStep
  BY <1>1, <1>4 DEF ReadsStep, Observed, CommitSeen, ReadsInv, NoPolicy
<1>5. ASSUME NEW q \in Readers, AbandonReading(q) PROVE ReadsStep
  BY <1>5, FailedMoves DEF AbandonReading, rowVars
<1>6. ASSUME NEW policies \in SUBSET Policy, PlatformChange(policies),
             subject = "configuration" => policies = {"NONE"}
      PROVE  ReadsStep
  <2>1. PICK a \in BOOLEAN, p \in policies :
          catalog' = [catalog EXCEPT !.active = a, !.policy = p, !.changes = @ + 1]
    BY <1>6 DEF PlatformChange
  <2>2. catalog.changes + 1 \in 0..MaxPlatformChanges
    BY <1>1, <1>6, PlatformAssumption DEF PlatformChange, Catalog
  <2>3. catalog' \in Catalog /\ catalog'.policy = p
    <3>1. p \in Policy
      OBVIOUS
    <3> QED
      BY <1>1, <2>1, <2>2, <3>1 DEF Catalog
  <2>4. reading' = Watched(catalog', rows')
    BY <1>6 DEF PlatformChange, rowVars
  <2> QED
    BY <1>6, <2>3, <2>4 DEF ReadsStep, Observed
<1>7. ASSUME MembershipChange PROVE ReadsStep
  <2>0. catalog.changes + 1 \in 0..MaxPlatformChanges
    BY <1>1, <1>7, PlatformAssumption DEF MembershipChange, Catalog
  <2>1. catalog' \in Catalog /\ catalog'.active = catalog.active /\ catalog'.policy = catalog.policy
    <3>0. (~catalog.member) \in BOOLEAN
      OBVIOUS
    <3>1. PICK m \in BOOLEAN : m = ~catalog.member
      BY <3>0, Zenon
    <3>2. catalog' = [catalog EXCEPT !.member = m, !.changes = @ + 1]
      BY <1>7, <3>1 DEF MembershipChange
    <3> QED
      BY <1>1, <2>0, <3>2 DEF Catalog
  <2> QED
    BY <1>7, <2>1 DEF MembershipChange, ReadsStep, Quiet, rowVars
<1>8. CASE ConfigurationNext /\ UNCHANGED <<accessVars, subject, cast>>
  <2>1. subject = "configuration" /\ {"NONE"} \in SUBSET Policy
    BY <1>8 DEF ConfigurationNext, Policy
  <2> QED
    BY <1>3, <1>4, <1>5, <1>6, <1>8, <2>1, ConfigurationReadMoves DEF ConfigurationNext
<1>9. CASE FlagsNext /\ UNCHANGED <<accessVars, subject, cast>>
  <2>1. subject = "flags"
    BY <1>9 DEF FlagsNext
  <2> QED
    BY <1>3, <1>4, <1>5, <1>6, <1>7, <1>9, <2>1, FlagReadMoves DEF FlagsNext
<1> QED
  BY <1>2, <1>8, <1>9 DEF Next, tenantVars

LEMMA ReadsStepKeepsInv ==
  ASSUME ReadsInv, ReadsStep, UNCHANGED subject
  PROVE  ReadsInv'
<1>1. /\ catalog \in Catalog /\ reading \in [Readers -> Reading]
      /\ \A q \in Readers : Knows(reading[q], catalog, rows)
      /\ subject = "configuration" => catalog.policy = "NONE"
  BY DEF ReadsInv, ReadsTypeOK, NoPolicy
<1>2. SUFFICES /\ catalog' \in Catalog /\ reading' \in [Readers -> Reading]
               /\ subject = "configuration" => catalog'.policy = "NONE"
               /\ \A q \in Readers : Knows(reading'[q], catalog', rows')
  <2>1. ASSUME NEW q \in Readers, Knows(reading'[q], catalog', rows')
        PROVE  Knows(reading[q], catalog, rows)'
    BY <2>1 DEF Knows
  <2> QED
    BY <2>1 DEF ReadsInv, ReadsTypeOK, NoPolicy
<1>3. CASE Quiet
  <2>1. \A chain : Present(chain, catalog', rows') = Present(chain, catalog, rows)
    BY <1>3 DEF Quiet, Present
  <2>2. \A chain : Winner(chain, catalog', rows') = Winner(chain, catalog, rows)
    BY <2>1 DEF Winner
  <2>3. \A r : Knows(r, catalog, rows) => Knows(r, catalog', rows')
    BY <2>1, <2>2 DEF Knows
  <2> QED
    BY <1>1, <1>3, <2>3 DEF Quiet
<1>4. CASE Observed
  <2>1. catalog' \in Catalog /\ reading' = Watched(catalog', rows')
    BY <1>4 DEF Observed
  <2>2. ASSUME NEW q \in Readers
        PROVE  reading'[q] \in Reading /\ Knows(reading'[q], catalog', rows')
    <3>1. CASE Busy(q)
      <4> DEFINE r == reading[q]
                 w == [r EXCEPT !.steady = @ \cap Present(r.chain, catalog', rows'),
                                !.winners = @ \cup {Winner(r.chain, catalog', rows')}]
      <4>1. reading'[q] = w
        BY <2>1, <3>1 DEF Watched
      <4>2. r \in Reading /\ Knows(r, catalog, rows) /\ BusyRecord(r)
        BY <1>1, <3>1 DEF Busy, BusyRecord
      <4>3. w \in Reading /\ Knows(w, catalog', rows')
        BY <2>1, <4>2, WatchedKnows
      <4> QED
        BY <4>1, <4>3
    <3>2. CASE ~Busy(q)
      BY <1>1, <2>1, <3>2 DEF Watched, Busy, Knows, BusyRecord
    <3> QED
      BY <3>1, <3>2
  <2>3. DOMAIN reading' = Readers /\ reading' = [q \in Readers |-> reading'[q]]
    BY <2>1 DEF Watched
  <2> QED
    BY <1>4, <2>1, <2>2, <2>3 DEF Observed
<1>5. ASSUME NEW q \in Readers, NEW r \in Reading, ReaderMoves(q, r)
      PROVE  /\ catalog' \in Catalog /\ reading' \in [Readers -> Reading]
             /\ subject = "configuration" => catalog'.policy = "NONE"
             /\ \A p \in Readers : Knows(reading'[p], catalog', rows')
  <2>1. /\ catalog' = catalog /\ rows' = rows /\ Knows(r, catalog, rows)
        /\ reading' = [reading EXCEPT ![q] = r]
    BY <1>5 DEF ReaderMoves
  <2>2. \A p \in Readers : reading'[p] = IF p = q THEN r ELSE reading[p]
    BY <1>1, <2>1
  <2>3. reading' \in [Readers -> Reading]
    BY <1>1, <2>1
  <2> QED
    BY <1>1, <2>1, <2>2, <2>3
<1> QED
  BY <1>3, <1>4, <1>5 DEF ReadsStep

LEMMA ReadsInitInv ==
  ASSUME Init
  PROVE  ReadsInv
<1>1. catalog \in Catalog /\ catalog.policy = "NONE"
  BY PlatformAssumption DEF Init, CatalogInit, Catalog, Policy
<1>2. reading = [q \in Readers |-> NotReading]
  BY DEF Init, CatalogInit
<1>3. reading \in [Readers -> Reading]
  BY <1>2, AtRest
<1>4. \A q \in Readers : Knows(reading[q], catalog, rows)
  BY <1>2, AtRest DEF Knows
<1> QED
  BY <1>1, <1>3, <1>4 DEF ReadsInv, ReadsTypeOK, NoPolicy

LEMMA NextKeepsReadsInv ==
  ASSUME ReadsInv, [Next]_tenantVars
  PROVE  ReadsInv'
BY NextIsReadsStep, ReadsStepKeepsInv

-----------------------------------------------------------------------------
(* A reading is always a record of what its candidates, policy and history *)
(* variables may be, and the catalog keeps to its bound.                   *)
THEOREM ReadsTypes == Spec => []ReadsTypeOK
<1>1. ReadsInv => ReadsTypeOK
  BY DEF ReadsInv
<1> QED
  BY <1>1, ReadsInitInv, NextKeepsReadsInv, PTL DEF Spec

CastOK == subject \in Subjects /\ cast \in Casts \cup {{}}

(* The tables, the readings, the organization and its access together: no  *)
(* step of the administration leaves the types of TenantAdministration.    *)
THEOREM AdministrationTypes == Spec => []TypeOK
<1>1. Init => CastOK
  BY DEF Init, CastOK
<1>2. CastOK /\ [Next]_tenantVars => CastOK'
  BY DEF Next, tenantVars, CastOK
<1>3. Spec => []CastOK
  BY <1>1, <1>2, PTL DEF Spec
<1>4. RowsTypeOK /\ ReadsTypeOK /\ AccessTypeOK /\ CastOK => TypeOK
  BY DEF TypeOK, CastOK
<1> QED
  BY <1>3, <1>4, RowsTypes, ReadsTypes, AccessTypes, PTL

(* What an answer says is right of what has been seen since the reading    *)
(* began.                                                                  *)
LEMMA StepOverlooksNothing ==
  ASSUME ReadsInv, ReadsStep
  PROVE  [\A q \in Readers : Answers(q) =>
            /\ \A s \in reading[q].steady : Rank(reading'[q].source) <= Rank(s)
            /\ {InError, Killed} \cap reading[q].steady # {} => ~reading'[q].enabled
            /\ \A s \in reading[q].winners :
                 reading[q].winners = {s} => reading'[q].source = s]_reading
<1> SUFFICES ASSUME reading' # reading, NEW q \in Readers, Answers(q)
             PROVE  RightAnswer(reading[q], reading'[q].source, reading'[q].enabled)
  BY DEF RightAnswer
<1>1. reading \in [Readers -> Reading]
  BY DEF ReadsInv, ReadsTypeOK
<1>2. BusyRecord(reading[q]) /\ reading'[q].at = "answered"
  BY DEF Answers, Busy, BusyRecord
<1>3. ~Quiet
  BY DEF Quiet
<1>4. CASE Observed
  <2>1. reading'[q].at = reading[q].at
    <3> DEFINE r == reading[q]
               w == [r EXCEPT !.steady = @ \cap Present(r.chain, catalog', rows'),
                              !.winners = @ \cup {Winner(r.chain, catalog', rows')}]
    <3>1. reading'[q] = w
      BY <1>2, <1>4 DEF Observed, Watched, Busy, BusyRecord
    <3>2. r \in Reading /\ Knows(r, catalog, rows) /\ catalog' \in Catalog
      BY <1>4, BusyReading DEF Observed
    <3>3. w.at = r.at
      BY <1>2, <3>2, WatchedKnows
    <3> QED
      BY <3>1, <3>3
  <2> QED
    BY <1>2, <2>1 DEF BusyRecord
<1>5. ASSUME NEW p \in Readers, NEW r \in Reading, ReaderMoves(p, r)
      PROVE  RightAnswer(reading[q], reading'[q].source, reading'[q].enabled)
  <2>1. reading' = [reading EXCEPT ![p] = r]
    BY <1>5 DEF ReaderMoves
  <2>2. p = q
    BY <1>1, <1>2, <2>1 DEF BusyRecord
  <2>3. reading'[q] = r
    BY <1>1, <2>1, <2>2
  <2> QED
    BY <1>2, <1>5, <2>2, <2>3 DEF ReaderMoves
<1> QED
  BY <1>3, <1>4, <1>5 DEF ReadsStep

(* resolveEffective and evaluate never overlook what is in force during the *)
(* whole reading and more specific than their answer, whatever the requests *)
(* commit and the platform changes between their SELECTs; and what is right *)
(* from the first SELECT to the last is what they answer.                   *)
THEOREM NothingIsOverlooked == Spec => NeverOverlooked
<1>1. ReadsInv /\ [Next]_tenantVars =>
        [\A q \in Readers : Answers(q) =>
           /\ \A s \in reading[q].steady : Rank(reading'[q].source) <= Rank(s)
           /\ {InError, Killed} \cap reading[q].steady # {} => ~reading'[q].enabled
           /\ \A s \in reading[q].winners :
                reading[q].winners = {s} => reading'[q].source = s]_reading
  BY NextIsReadsStep, StepOverlooksNothing
<1> QED
  BY <1>1, ReadsInitInv, NextKeepsReadsInv, PTL DEF Spec, NeverOverlooked
==============================================================================
