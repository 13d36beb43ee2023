------------------------------ MODULE DlqStore -------------------------------
(***************************************************************************)
(* One row of dlq.entries (or dlq.system_entries) and the statements of    *)
(* PostgresDlqRepository on it: the WHERE clause of each UPDATE as a       *)
(* predicate, its SET clause as the row it leaves.  Two comparisons with   *)
(* clock_timestamp() remain of time: live says that the claim has not      *)
(* expired, ready that next_reprocess_at has been reached or is null.      *)
(***************************************************************************)
EXTENDS Integers

CONSTANTS
  MaxReprocess,  \* max_reprocess_attempts
  Token,         \* claim tokens, drawn at random by the program
  NoToken        \* NULL

ASSUME DlqAssumption == MaxReprocess \in Nat \ {0} /\ NoToken \notin Token

Final == {"resolved", "discarded", "exhausted"}
Status == {"absent", "quarantined", "reprocess_pending", "reprocessing"} \cup Final

(* by: whose resolution_code the row carries. *)
Row == [status  : Status,
        version : Nat,
        count   : 0..MaxReprocess,
        claim   : Token \cup {NoToken},
        live    : BOOLEAN,
        ready   : BOOLEAN,
        by      : {"none", "reprocessor", "operator"}]

Absent ==
  [status |-> "absent", version |-> 0, count |-> 0, claim |-> NoToken,
   live |-> FALSE, ready |-> FALSE, by |-> "none"]

Quarantined ==
  [status |-> "quarantined", version |-> 1, count |-> 0, claim |-> NoToken,
   live |-> FALSE, ready |-> TRUE, by |-> "none"]

(* requestReprocess: next_reprocess_at becomes the time of the request. *)
CanRequest(r, version) ==
  /\ r.status = "quarantined" /\ r.version = version
  /\ r.count < MaxReprocess /\ r.ready

Requested(r) ==
  [r EXCEPT !.status = "reprocess_pending", !.version = @ + 1, !.ready = TRUE]

(* Mutants of CanClaim: takes a claim over that has not expired; ignores   *)
(* the budget.                                                             *)
CanClaimLive(r) ==
  r.count < MaxReprocess /\ r.status \in {"reprocess_pending", "reprocessing"}

CanClaimUnbounded(r) ==
  \/ r.status = "reprocess_pending" /\ r.ready
  \/ r.status = "reprocessing" /\ ~r.live

(* claimReprocess: no version is compared. *)
CanClaim(r) ==
  /\ r.count < MaxReprocess
  /\ \/ r.status = "reprocess_pending" /\ r.ready
     \/ r.status = "reprocessing" /\ ~r.live

Claimed(r, t) ==
  [r EXCEPT !.status = "reprocessing", !.version = @ + 1, !.count = @ + 1,
            !.claim = t, !.live = TRUE, !.ready = TRUE]

(* The claim is owned by whoever holds its token; a completion, unlike a   *)
(* failure, also needs the claim to be live.                               *)
Owns(r, t) == r.status = "reprocessing" /\ r.claim = t

CanComplete(r, t) == Owns(r, t) /\ r.live

Completed(r) ==
  [r EXCEPT !.status = "resolved", !.version = @ + 1,
            !.claim = NoToken, !.live = FALSE, !.by = "reprocessor"]

(* Mutants of AttemptFailed: > for >=; the version stays. *)
FailedOffByOne(r) ==
  [r EXCEPT !.status = IF r.count > MaxReprocess THEN "exhausted" ELSE "quarantined",
            !.version = @ + 1, !.claim = NoToken, !.live = FALSE,
            !.ready = r.count >= MaxReprocess]

FailedSilently(r) ==
  [r EXCEPT !.status = IF r.count >= MaxReprocess THEN "exhausted" ELSE "quarantined",
            !.claim = NoToken, !.live = FALSE, !.ready = r.count >= MaxReprocess]

(* failReprocess: a backoff in the future, unless the budget is spent. *)
AttemptFailed(r) ==
  [r EXCEPT !.status = IF r.count >= MaxReprocess THEN "exhausted" ELSE "quarantined",
            !.version = @ + 1, !.claim = NoToken, !.live = FALSE,
            !.ready = r.count >= MaxReprocess]

(* Mutant of CanDecide: any status. *)
CanDecideAny(r, version) == r.version = version

CanDecide(r, version) == r.version = version /\ r.status = "quarantined"

Decided(r, s) ==
  [r EXCEPT !.status = s, !.version = @ + 1, !.ready = TRUE, !.by = "operator"]
=============================================================================
