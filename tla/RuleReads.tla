------------------------------ MODULE RuleReads ------------------------------
(***************************************************************************)
(* The readers of VersionedRows: resolveEffective of the configuration and *)
(* evaluate of the feature flags.  Each reads the platform's catalog, then *)
(* one candidate after another, most specific first, every SELECT its own  *)
(* READ COMMITTED snapshot, and answers from the first row it finds.  The  *)
(* catalog (definitions, flags, environment policies) has no writer in the *)
(* application: the platform changes it.  The reads that prepare a write   *)
(* are one step: one of them reads rows, the others the catalog, which no  *)
(* property of the writes is about.                                        *)
(***************************************************************************)
EXTENDS VersionedRows

CONSTANTS
  Readers,
  Buckets,           \* rollout buckets of the possible subjects
  Precedence,        \* the keys, from the most specific to the least
  MaxPlatformChanges \* bound of the model: changes of the catalog

ASSUME PlatformAssumption == MaxPlatformChanges \in Nat

(* Precedence names every key once. *)
ASSUME PrecedenceAssumption ==
  /\ Precedence \in Seq(Keys)
  /\ \A k \in Keys : \E i \in DOMAIN Precedence : Precedence[i] = k
  /\ \A i, j \in DOMAIN Precedence : Precedence[i] = Precedence[j] => i = j

VARIABLES
  catalog,  \* the definition or flag, the policy of the environment, and
            \* whether the users that are targets have an ACTIVE membership
  reading   \* reading[q]: the evaluation in progress, or its answer

readVars == <<catalog, reading>>

Policy == {"NONE", "ON", "OFF"}
Catalog == [active : BOOLEAN, policy : Policy, member : BOOLEAN,
            changes : 0..MaxPlatformChanges]

(* Where an answer may come from: the key of a row, or one of these. *)
InError  == <<"no active definition or flag">>
Killed   == <<"disabled by the environment policy">>
ByPolicy == <<"environment policy">>
ByDefault == <<"default">>
Source == Keys \cup {InError, Killed, ByPolicy, ByDefault}
ASSUME SourcesAssumption == Keys \cap {InError, Killed, ByPolicy, ByDefault} = {}

(* steady and winners are history variables: the sources that have been    *)
(* there ever since the reading began, and the source a reader of one      *)
(* snapshot would have answered from, at each moment since.                *)
Reading == [at      : {"idle", "policy", "candidates", "answered"},
            chain   : Seq(Keys),
            next    : Nat \ {0},
            policy  : Policy,
            source  : Source,
            enabled : BOOLEAN,
            steady  : SUBSET Source,
            winners : SUBSET Source]

NotReading == [at |-> "idle", chain |-> <<>>, next |-> 1, policy |-> "NONE",
               source |-> InError, enabled |-> FALSE, steady |-> {}, winners |-> {}]

ReadsTypeOK == catalog \in Catalog /\ reading \in [Readers -> Reading]

-----------------------------------------------------------------------------
(* The reference the readings are compared with: what is there at one      *)
(* moment, and how specific it is by the documented precedence.            *)
Rank(s) ==
  CASE s = InError   -> 0
    [] s = Killed    -> 1
    [] s = ByPolicy  -> Len(Precedence) + 2
    [] s = ByDefault -> Len(Precedence) + 3
    [] OTHER         -> 1 + CHOOSE i \in DOMAIN Precedence : Precedence[i] = s

Present(chain, cat, table) ==
       {IF cat.active THEN ByDefault ELSE InError}
  \cup (CASE cat.policy = "OFF"  -> {Killed}
          [] cat.policy = "ON"   -> {ByPolicy}
          [] cat.policy = "NONE" -> {})
  \cup {chain[i] : i \in {j \in DOMAIN chain : ActiveRows(table, chain[j]) # {}}}

Winner(chain, cat, table) ==
  CHOOSE s \in Present(chain, cat, table) :
    \A t \in Present(chain, cat, table) : Rank(s) <= Rank(t)

Busy(q) == reading[q].at \in {"policy", "candidates"}

Watched(cat, table) ==
  [q \in Readers |->
     IF Busy(q)
     THEN [reading[q] EXCEPT
             !.steady = @ \cap Present(reading[q].chain, cat, table),
             !.winners = @ \cup {Winner(reading[q].chain, cat, table)}]
     ELSE reading[q]]

-----------------------------------------------------------------------------
CanStart(q) == reading[q].at \in {"idle", "answered"}

Begun(q, chain, at) ==
  reading' = [reading EXCEPT ![q] =
    [NotReading EXCEPT !.at = at, !.chain = chain,
                       !.steady = Present(chain, catalog, rows),
                       !.winners = {Winner(chain, catalog, rows)}]]

Answered(q, s, on) ==
  reading' = [reading EXCEPT ![q] =
    [NotReading EXCEPT !.at = "answered", !.source = s, !.enabled = on]]

NextCandidate(q, n) == reading' = [reading EXCEPT ![q].next = @ + n]

Failed(q) == reading' = [reading EXCEPT ![q] = NotReading]

(* The platform switches a definition or a flag on or off, or gives an     *)
(* environment another policy.                                             *)
PlatformChange(policies) ==
  /\ catalog.changes < MaxPlatformChanges
  /\ \E a \in BOOLEAN, p \in policies :
       /\ <<a, p>> # <<catalog.active, catalog.policy>>
       /\ catalog' = [catalog EXCEPT !.active = a, !.policy = p, !.changes = @ + 1]
  /\ reading' = Watched(catalog', rows)
  /\ UNCHANGED rowVars

(* The membership of a user is suspended or restored (TenantLifecycle). *)
MembershipChange ==
  /\ catalog.changes < MaxPlatformChanges
  /\ catalog' = [catalog EXCEPT !.member = ~@, !.changes = @ + 1]
  /\ UNCHANGED <<rowVars, reading>>

(* A connection lost in the middle of an evaluation. *)
AbandonReading(q) == Busy(q) /\ Failed(q) /\ UNCHANGED <<rowVars, catalog>>

(* What a transaction writes is seen by the readers when it commits. *)
CommitSeen(p) ==
  /\ Commit(p)
  /\ reading' = Watched(catalog, rows')
  /\ UNCHANGED catalog

-----------------------------------------------------------------------------
Answers(q) == Busy(q) /\ reading'[q].at = "answered"

(* Nothing more specific that is in force during the whole reading is      *)
(* overlooked, whatever is written meanwhile: neither a kill switch nor an *)
(* override or a rule.  And while one source stays the right answer from   *)
(* the first SELECT to the last, it is the answer.                         *)
NeverOverlooked ==
  [][\A q \in Readers : Answers(q) =>
       /\ \A s \in reading[q].steady :
            Rank(reading'[q].source) <= Rank(s)
       /\ {InError, Killed} \cap reading[q].steady # {} => ~reading'[q].enabled
       /\ \A s \in reading[q].winners :
            reading[q].winners = {s} => reading'[q].source = s]_reading

(* docs/implementation/019-feature-flags.md, "Concorrencia e consistencia": *)
(* an evaluation reads one consistent snapshot, so its answer was the right *)
(* one at some moment of the reading.                                       *)
EvaluatesOneSnapshot ==
  [][\A q \in Readers : Answers(q) => reading'[q].source \in reading[q].winners]_reading
==============================================================================
