----------------------------- MODULE DlqContract -----------------------------
(***************************************************************************)
(* What a dead-letter entry promises, without versions, claims, cooldowns  *)
(* or reprocessors: TRANSITIONS of dlq-contract.js with the budget of      *)
(* attempts.  An entry is decided at most once, an attempt is counted when *)
(* it begins, and "exhausted" says that the budget is spent.               *)
(***************************************************************************)
EXTENDS Integers

CONSTANTS
  Entry,        \* ids of DLQ entries
  MaxReprocess  \* max_reprocess_attempts

VARIABLES status, attempts

contractVars == <<status, attempts>>

Final == {"resolved", "discarded", "exhausted"}
Status == {"absent", "quarantined", "reprocess_pending", "reprocessing"} \cup Final

Transitions ==
  {<<"absent", "quarantined">>,
   <<"quarantined", "reprocess_pending">>,
   <<"quarantined", "resolved">>,
   <<"quarantined", "discarded">>,
   <<"reprocess_pending", "reprocessing">>,
   <<"reprocessing", "resolved">>,
   <<"reprocessing", "quarantined">>,
   <<"reprocessing", "exhausted">>}

ContractInit ==
  /\ status = [e \in Entry |-> "absent"]
  /\ attempts = [e \in Entry |-> 0]

Move(e, s) ==
  /\ <<status[e], s>> \in Transitions
  /\ status' = [status EXCEPT ![e] = s]

(* An attempt begins; an attempt whose claim ran out may be begun anew. *)
Begin(e) ==
  /\ attempts[e] < MaxReprocess
  /\ \/ Move(e, "reprocessing")
     \/ status[e] = "reprocessing" /\ UNCHANGED status
  /\ attempts' = [attempts EXCEPT ![e] = @ + 1]

(* The entry waits for an attempt only while one is left. *)
Wait(e) ==
  /\ \E s \in {"quarantined", "reprocess_pending"} : Move(e, s)
  /\ attempts[e] < MaxReprocess
  /\ UNCHANGED attempts

Decide(e) ==
  /\ \E s \in {"resolved", "discarded"} : Move(e, s)
  /\ UNCHANGED attempts

Exhaust(e) ==
  /\ Move(e, "exhausted")
  /\ attempts[e] = MaxReprocess
  /\ UNCHANGED attempts

ContractNext == \E e \in Entry : Begin(e) \/ Wait(e) \/ Decide(e) \/ Exhaust(e)

ContractSpec == ContractInit /\ [][ContractNext]_contractVars
=============================================================================
