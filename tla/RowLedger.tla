------------------------------ MODULE RowLedger ------------------------------
(***************************************************************************)
(* What the history tables promise (configuration.setting_versions,        *)
(* feature_flags.rule_versions): one append-only ledger per row.  A row is *)
(* what its ledger says it is, and every entry is a change that the kinds  *)
(* of change allow from the state the ledger was in.                       *)
(***************************************************************************)
EXTENDS Naturals, Sequences

CONSTANTS
  Rows,
  Values,
  NoValue  \* the NULL that an INACTIVATE of a setting records

VARIABLE ledger

Entry == [status : {"ACTIVE", "INACTIVE"},
          value  : Values \cup {NoValue},
          change : {"CREATE", "UPDATE", "ACTIVATE", "INACTIVATE", "RESTORE"}]

LastEntry(l) == l[Len(l)]

(* NULL is recorded only for an INACTIVATE, which keeps the value before it. *)
LedgerValue(l) ==
  IF LastEntry(l).value = NoValue THEN l[Len(l) - 1].value ELSE LastEntry(l).value

Follows(l, e) ==
  \/ e.change = "CREATE" /\ l = <<>> /\ e.status = "ACTIVE" /\ e.value # NoValue
  \/ /\ e.change = "UPDATE" /\ l # <<>> /\ LastEntry(l).status = "ACTIVE"
     /\ e.status = "ACTIVE" /\ e.value # NoValue
  \/ /\ e.change = "ACTIVATE" /\ l # <<>> /\ LastEntry(l).status = "INACTIVE"
     /\ e.status = "ACTIVE" /\ e.value = LedgerValue(l)
  \/ /\ e.change = "INACTIVATE" /\ l # <<>> /\ LastEntry(l).status = "ACTIVE"
     /\ e.status = "INACTIVE" /\ e.value \in {LedgerValue(l), NoValue}
  \/ /\ e.change = "RESTORE"
     /\ \E i \in 1..Len(l) : e.status = l[i].status /\ e.value = l[i].value

LInit == ledger = [r \in Rows |-> <<>>]

Record(r, e) ==
  /\ Follows(ledger[r], e)
  /\ ledger' = [ledger EXCEPT ![r] = Append(@, e)]

(* One ledger grows, by the entry that is its last one afterwards. *)
LNext ==
  \E r \in Rows :
    /\ Len(ledger'[r]) > Len(ledger[r])
    /\ LastEntry(ledger'[r]) \in Entry /\ Record(r, LastEntry(ledger'[r]))

LedgerSpec == LInit /\ [][LNext]_ledger
==============================================================================
