---------------------------- MODULE VersionedRows ----------------------------
(***************************************************************************)
(* The tables the administration of a tenant writes optimistically:        *)
(* configuration.settings and feature_flags.rules, each with its           *)
(* append-only history.  A row carries a version, at most one row per      *)
(* target is ACTIVE (partial unique indexes), and every write is one       *)
(* READ COMMITTED transaction: plain reads, one INSERT or UPDATE, the      *)
(* history INSERT, the audit INSERT, COMMIT.                               *)
(*                                                                         *)
(* A request is the statement its reads have prepared; a draft is what the *)
(* statement has written and COMMIT has not yet published.  Configuration  *)
(* and FeatureFlags say which statements there are.                        *)
(***************************************************************************)
EXTENDS Naturals, Sequences, FiniteSets

CONSTANTS
  Requests,    \* transactions that write
  Rids,        \* identifiers of rows
  Keys,        \* what a partial unique index allows one ACTIVE row for
  Values,      \* what a row may hold
  NoKey, NoValue, NoRid,
  MaxVersion,  \* bound of the model: versions a row may go through
  MaxWrites    \* bound of the model: no request is made after so many writes

ASSUME RowsAssumption == NoKey \notin Keys /\ NoValue \notin Values /\ NoRid \notin Rids
ASSUME VersionAssumption == MaxVersion \in Nat \ {0}

VARIABLES
  rows,     \* the table, as committed
  history,  \* its history, as committed
  req,      \* req[p]: the statement p has prepared
  draft     \* draft[p]: what p has written and not committed

rowVars == <<rows, history, req, draft>>

Status == {"ACTIVE", "INACTIVE"}
Change == {"CREATE", "UPDATE", "ACTIVATE", "INACTIVATE", "RESTORE"}

Row == [status : Status \cup {"NONE"}, version : 0..MaxVersion,
        key : Keys \cup {NoKey}, value : Values \cup {NoValue}]
NoRow == [status |-> "NONE", version |-> 0, key |-> NoKey, value |-> NoValue]

HistoryEntry == [status : Status, value : Values \cup {NoValue}, change : Change]

(* expected = 0: an INSERT.  Otherwise an UPDATE ... WHERE version =        *)
(* expected, with AND status = 'ACTIVE' when the change is an UPDATE.       *)
Statement == [change : Change, rid : Rids \cup {NoRid}, expected : 0..MaxVersion,
              key : Keys, status : Status, value : Values \cup {NoValue}]
Idle == [change |-> "CREATE", rid |-> NoRid, expected |-> 0,
         key |-> NoKey, status |-> "ACTIVE", value |-> NoValue]

Draft == [rid : Rids, row : Row, entry : HistoryEntry]
NoDraft == [rid |-> NoRid, row |-> NoRow,
            entry |-> [status |-> "ACTIVE", value |-> NoValue, change |-> "CREATE"]]

RowsTypeOK ==
  /\ rows \in [Rids -> Row]
  /\ history \in [Rids -> Seq(HistoryEntry)]
  /\ req \in [Requests -> Statement \cup {Idle}]
  /\ draft \in [Requests -> Draft \cup {NoDraft}]

RowsInit ==
  /\ rows = [r \in Rids |-> NoRow]
  /\ history = [r \in Rids |-> <<>>]
  /\ req = [p \in Requests |-> Idle]
  /\ draft = [p \in Requests |-> NoDraft]

-----------------------------------------------------------------------------
(* Reads see what is committed. *)
ActiveRows(table, k) == {r \in DOMAIN table : table[r].status = "ACTIVE" /\ table[r].key = k}

WritesDone == Cardinality(UNION {{r} \X (1..rows[r].version) : r \in Rids})

Prepare(p, s) ==
  /\ req[p] = Idle
  /\ WritesDone < MaxWrites
  /\ req' = [req EXCEPT ![p] = s]
  /\ UNCHANGED <<rows, history, draft>>

Pending(p) == req[p] # Idle /\ draft[p] = NoDraft

(* An UPDATE waits for the transaction that holds the row; a write that    *)
(* makes a row ACTIVE waits for one that has put that key into the partial *)
(* unique index, or taken it out.                                          *)
RowFree(p, r) == \A q \in Requests \ {p} : draft[q].rid # r
KeyFree(p, k) ==
  \A q \in Requests \ {p} :
    draft[q].row.key = k =>
      draft[q].row.status # "ACTIVE" /\ rows[draft[q].rid].status # "ACTIVE"

(* Mutant of KeyTaken: the index is not unique. *)
KeyTakenNever(r, k) == FALSE

(* 23505: another committed ACTIVE row has the key. *)
KeyTaken(r, k) == ActiveRows(rows, k) \ {r} # {}

Written(p, r, row, entry) ==
  /\ draft' = [draft EXCEPT ![p] = [rid |-> r, row |-> row, entry |-> entry]]
  /\ UNCHANGED <<rows, history, req>>

(* The error path of every statement: the transaction rolls back. *)
RolledBack(p) ==
  /\ req' = [req EXCEPT ![p] = Idle]
  /\ draft' = [draft EXCEPT ![p] = NoDraft]
  /\ UNCHANGED <<rows, history>>

InsertRow(p, entry) ==
  LET s == req[p] IN
  /\ Pending(p) /\ s.expected = 0
  /\ KeyFree(p, s.key)
  /\ IF KeyTaken(NoRid, s.key)
     THEN RolledBack(p)
     ELSE \E r \in Rids :
            /\ rows[r] = NoRow /\ RowFree(p, r)
            /\ Written(p, r, [status |-> "ACTIVE", version |-> 1,
                              key |-> s.key, value |-> s.value], entry)

(* Mutant of Matches: a row that moved on is written all the same. *)
MatchesAnyVersion(s) ==
  rows[s.rid].version < MaxVersion /\ (s.change = "UPDATE" => rows[s.rid].status = "ACTIVE")

(* The WHERE clause, on the row as it is when the statement gets its lock. *)
Matches(s) ==
  /\ rows[s.rid].version = s.expected
  /\ s.change = "UPDATE" => rows[s.rid].status = "ACTIVE"

NewRow(s) ==
  [rows[s.rid] EXCEPT !.version = @ + 1, !.status = s.status,
                      !.value = IF s.value = NoValue THEN @ ELSE s.value]

UpdateRow(p, entry) ==
  LET s == req[p] IN
  /\ Pending(p) /\ s.expected > 0
  /\ RowFree(p, s.rid)
  /\ s.status = "ACTIVE" => KeyFree(p, s.key)
  /\ IF \/ ~Matches(s)
        \/ s.status = "ACTIVE" /\ KeyTaken(s.rid, s.key)
     THEN RolledBack(p)
     ELSE Written(p, s.rid, NewRow(s), entry)

(* COMMIT publishes the row, its history entry and the audit event at once. *)
Commit(p) ==
  LET d == draft[p] IN
  /\ d # NoDraft
  /\ rows' = [rows EXCEPT ![d.rid] = d.row]
  /\ history' = [history EXCEPT ![d.rid] = Append(@, d.entry)]
  /\ req' = [req EXCEPT ![p] = Idle]
  /\ draft' = [draft EXCEPT ![p] = NoDraft]

(* A statement fails, the connection breaks, the process dies: ROLLBACK. *)
Abandon(p) == req[p] # Idle /\ RolledBack(p)

-----------------------------------------------------------------------------
(* A row and its history are one thing: as many entries as versions, and   *)
(* the last entry is the row.  They are written by two statements and read *)
(* by others while a third transaction writes.                             *)
RowIsItsHistory ==
  \A r \in Rids :
    /\ Len(history[r]) = rows[r].version
    /\ rows[r].version > 0 =>
         LET last == history[r][rows[r].version] IN
         /\ rows[r].status = last.status
         /\ last.value \in {rows[r].value, NoValue}
         /\ last.value = NoValue =>
              /\ last.status = "INACTIVE"
              /\ history[r][rows[r].version - 1].value = rows[r].value

(* Two requests that both saw a target free, or two that revive rows of one *)
(* target, never leave it with two ACTIVE rows.                             *)
OneActivePerKey ==
  \A r, s \in Rids :
    rows[r].status = "ACTIVE" /\ rows[s].status = "ACTIVE" /\ rows[r].key = rows[s].key => r = s

(* A version is written over only by a request that had read that version: *)
(* no write is lost between a request's reads and its COMMIT.               *)
NoLostUpdate ==
  [][\A r \in Rids : rows'[r] # rows[r] =>
       /\ rows'[r].version = rows[r].version + 1
       /\ rows[r] # NoRow => \E p \in Requests :
            req[p].rid = r /\ req[p].expected = rows[r].version]_rowVars

(* Every committed write is one legal entry of the row's ledger. *)
Ledger == INSTANCE RowLedger WITH Rows <- Rids, ledger <- history
ImplementsLedger == Ledger!LedgerSpec
==============================================================================
