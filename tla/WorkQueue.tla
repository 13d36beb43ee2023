----------------------------- MODULE WorkQueue ------------------------------
(***************************************************************************)
(* What the job subsystem promises its users, without leases, clocks,      *)
(* heartbeats or worker processes: accepted work waits, is granted to      *)
(* somebody under a grant nobody else holds, and ends done, dead or        *)
(* withdrawn, for good.  Work is granted at most MaxTries times between    *)
(* two completions; a grant may be revoked only by granting the work anew  *)
(* or by burying it.                                                       *)
(***************************************************************************)
EXTENDS Integers

CONSTANTS Work, Grant, NoGrant, MaxTries

VARIABLES stage, grant, tries

wqVars == <<stage, grant, tries>>

Stage == {"absent", "waiting", "granted", "done", "dead", "withdrawn"}

WQTypeOK ==
  /\ stage \in [Work -> Stage]
  /\ grant \in [Work -> Grant \cup {NoGrant}]
  /\ tries \in [Work -> 0..MaxTries]

WQInit ==
  /\ stage = [x \in Work |-> "absent"]
  /\ grant = [x \in Work |-> NoGrant]
  /\ tries = [x \in Work |-> 0]

Submit(x) ==
  /\ stage[x] = "absent"
  /\ stage' = [stage EXCEPT ![x] = "waiting"]
  /\ UNCHANGED <<grant, tries>>

(* Mutant of GrantBatch: grants whatever was tried before. *)
GrantUnbounded(S, g) ==
  /\ \A x \in S : stage[x] \in {"waiting", "granted"}
  /\ \A x \in Work : grant[x] # g
  /\ stage' = [x \in Work |-> IF x \in S THEN "granted" ELSE stage[x]]
  /\ grant' = [x \in Work |-> IF x \in S THEN g ELSE grant[x]]
  /\ tries' = [x \in Work |-> IF x \in S THEN tries[x] + 1 ELSE tries[x]]

GrantBatch(S, g) ==
  /\ \A x \in S : stage[x] \in {"waiting", "granted"} /\ tries[x] < MaxTries
  /\ \A x \in Work : grant[x] # g
  /\ stage' = [x \in Work |-> IF x \in S THEN "granted" ELSE stage[x]]
  /\ grant' = [x \in Work |-> IF x \in S THEN g ELSE grant[x]]
  /\ tries' = [x \in Work |-> IF x \in S THEN tries[x] + 1 ELSE tries[x]]

(* The granted work leaves its grant for stage s with n tries behind it. *)
Leave(x, s, n) ==
  /\ stage[x] = "granted"
  /\ stage' = [stage EXCEPT ![x] = s]
  /\ grant' = [grant EXCEPT ![x] = NoGrant]
  /\ tries' = [tries EXCEPT ![x] = n]

Finish(x)   == Leave(x, "done", tries[x])
Rearm(x)    == Leave(x, "waiting", 0)
GiveBack(x) == tries[x] < MaxTries /\ Leave(x, "waiting", tries[x])

Bury(S) ==
  /\ \A x \in S : stage[x] = "granted"
  /\ stage' = [x \in Work |-> IF x \in S THEN "dead" ELSE stage[x]]
  /\ grant' = [x \in Work |-> IF x \in S THEN NoGrant ELSE grant[x]]
  /\ UNCHANGED tries

Recall(x) ==
  /\ stage[x] = "waiting"
  /\ stage' = [stage EXCEPT ![x] = "withdrawn"]
  /\ UNCHANGED <<grant, tries>>

WQNext ==
  \/ \E x \in Work : Submit(x) \/ Finish(x) \/ Rearm(x) \/ GiveBack(x) \/ Recall(x)
  \/ \E S \in SUBSET Work : Bury(S) \/ \E g \in Grant : GrantBatch(S, g)

WQSpec == WQInit /\ [][WQNext]_wqVars
=============================================================================
