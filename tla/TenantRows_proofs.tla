------------------------- MODULE TenantRows_proofs --------------------------
(***************************************************************************)
(* Theorems about the versioned rows of a tenant (overrides and rules), of *)
(* the whole TenantAdministration: for every number of requests, rows,     *)
(* keys and values and every value of the bounds.                          *)
(*                                                                         *)
(* A committed row and its history change in COMMIT alone, so what has to  *)
(* be known is when a draft may be published: it is one legal entry of the *)
(* ledger of its row, the row is still the one its request had read, and   *)
(* no other draft has the row or the key.                                  *)
(***************************************************************************)
EXTENDS TenantAdministration, TLAPS

RowWellFormed(r) ==
  \/ rows[r] = NoRow
  \/ /\ rows[r].version > 0 /\ rows[r].status \in Status
     /\ rows[r].key \in Keys /\ rows[r].value \in Values

(* A rule's history never omits the value. *)
HistoryComplete(r) ==
  subject # "configuration" =>
    \A i \in 1..Len(history[r]) : history[r][i].value # NoValue

(* What a statement was prepared for, as long as its row has not moved on. *)
Fits(s) ==
  /\ s.change = "UPDATE" => s.status = "ACTIVE"
  /\ s.change = "ACTIVATE" => s.status = "ACTIVE" /\ rows[s.rid].status = "INACTIVE"
  /\ s.change = "INACTIVATE" => s.status = "INACTIVE" /\ rows[s.rid].status = "ACTIVE"
  /\ s.change = "RESTORE" =>
       \E i \in 1..Len(history[s.rid]) :
         history[s.rid][i].status = s.status /\ history[s.rid][i].value = s.value

CreatesRow(s) ==
  /\ s.change = "CREATE" /\ s.rid = NoRid /\ s.expected = 0
  /\ s.status = "ACTIVE" /\ s.key \in Keys /\ s.value \in Values

ChangesRow(s) ==
  /\ s.change # "CREATE" /\ s.rid \in Rids
  /\ s.expected > 0 /\ s.expected < MaxVersion
  /\ s.change \in {"UPDATE", "RESTORE"} => s.value \in Values
  /\ s.change \in {"ACTIVATE", "INACTIVATE"} => s.value = NoValue
  /\ rows[s.rid].version >= s.expected /\ rows[s.rid].key = s.key
  /\ rows[s.rid].version = s.expected => Fits(s)

Prepared(s) == s \in Statement /\ (CreatesRow(s) \/ ChangesRow(s))

(* What a COMMIT may publish. *)
Publishable(d) ==
  /\ d \in Draft
  /\ d.row.version = rows[d.rid].version + 1
  /\ d.row.status \in Status /\ d.row.status = d.entry.status
  /\ d.row.key \in Keys /\ (rows[d.rid] # NoRow => d.row.key = rows[d.rid].key)
  /\ d.row.value \in Values /\ d.entry.value \in {d.row.value, NoValue}
  /\ d.entry.value = NoValue =>
       /\ d.entry.change = "INACTIVATE" /\ subject = "configuration"
       /\ d.row.value = rows[d.rid].value
  /\ Ledger!Follows(history[d.rid], d.entry)

(* No committed row but its own holds the key of an ACTIVE draft. *)
KeyHeld(d) ==
  d.row.status = "ACTIVE" =>
    \A r \in Rids : rows[r].status = "ACTIVE" /\ rows[r].key = d.row.key => r = d.rid

(* The draft replaces the version its request had read. *)
Fresh(p, d) ==
  rows[d.rid] # NoRow => req[p].rid = d.rid /\ req[p].expected = rows[d.rid].version

Apart(d, e) ==
  /\ d.rid # e.rid
  /\ ~(d.row.status = "ACTIVE" /\ e.row.status = "ACTIVE" /\ d.row.key = e.row.key)

Writing(p) == draft[p] # NoDraft

RowsInv ==
  /\ RowsTypeOK
  /\ \A r \in Rids : RowWellFormed(r) /\ HistoryComplete(r)
  /\ RowIsItsHistory
  /\ OneActivePerKey
  /\ \A p \in Requests : req[p] = Idle \/ Prepared(req[p])
  /\ \A p \in Requests :
       Writing(p) => /\ req[p] # Idle /\ Publishable(draft[p])
                     /\ KeyHeld(draft[p]) /\ Fresh(p, draft[p])
  /\ \A p, q \in Requests : p # q /\ Writing(p) /\ Writing(q) => Apart(draft[p], draft[q])

-----------------------------------------------------------------------------
(* What any step of the whole does to these rows. *)
Prepares(p) ==
  \E s \in Statement :
    /\ req[p] = Idle /\ Prepared(s)
    /\ req' = [req EXCEPT ![p] = s] /\ UNCHANGED <<rows, history, draft>>

Writes(p) ==
  \E d \in Draft :
    /\ req[p] # Idle
    /\ Publishable(d) /\ KeyHeld(d) /\ Fresh(p, d)
    /\ \A q \in Requests \ {p} : Writing(q) => Apart(d, draft[q])
    /\ draft' = [draft EXCEPT ![p] = d] /\ UNCHANGED <<rows, history, req>>

RowsStep ==
  /\ UNCHANGED subject
  /\ \/ UNCHANGED rowVars
     \/ \E p \in Requests : Prepares(p) \/ Writes(p) \/ Commit(p) \/ RolledBack(p)

-----------------------------------------------------------------------------
(***************************************************************************)
(* A row and the last entry of its ledger.                                 *)
(***************************************************************************)
LEMMA LastOfLedger ==
  ASSUME RowsInv, NEW r \in Rids, rows[r] # NoRow
  PROVE  /\ Len(history[r]) = rows[r].version /\ history[r] # <<>>
         /\ Ledger!LastEntry(history[r]) = history[r][rows[r].version]
         /\ Ledger!LastEntry(history[r]).status = rows[r].status
         /\ Ledger!LedgerValue(history[r]) = rows[r].value
<1>1. rows[r].version > 0 /\ rows[r].value \in Values /\ rows[r].version \in Nat
  BY DEF RowsInv, RowWellFormed, RowsTypeOK, Row
<1>2. Len(history[r]) = rows[r].version /\ history[r] \in Seq(HistoryEntry)
  BY DEF RowsInv, RowIsItsHistory, RowsTypeOK
<1>3. history[r] # <<>>
  BY <1>1, <1>2
<1>4. Ledger!LastEntry(history[r]) = history[r][rows[r].version]
  BY <1>2 DEF Ledger!LastEntry
<1>5. /\ rows[r].status = history[r][rows[r].version].status
      /\ history[r][rows[r].version].value \in {rows[r].value, NoValue}
      /\ history[r][rows[r].version].value = NoValue =>
           history[r][rows[r].version - 1].value = rows[r].value
  BY <1>1 DEF RowsInv, RowIsItsHistory
<1>6. Ledger!LedgerValue(history[r]) = rows[r].value
  BY <1>2, <1>4, <1>5 DEF Ledger!LedgerValue
<1> QED
  BY <1>2, <1>3, <1>4, <1>5, <1>6

LEMMA UnwrittenLedger ==
  ASSUME RowsInv, NEW r \in Rids, rows[r] = NoRow
  PROVE  history[r] = <<>>
<1>1. Len(history[r]) = 0 /\ history[r] \in Seq(HistoryEntry)
  BY DEF RowsInv, RowIsItsHistory, RowsTypeOK, NoRow
<1> QED
  BY <1>1

(***************************************************************************)
(* The statements write only what a COMMIT may publish.                    *)
(***************************************************************************)
(* What both history INSERTs record, whichever table it is. *)
Records(s, e) ==
  /\ e \in HistoryEntry /\ e.status = s.status /\ e.change = s.change
  /\ s.change = "CREATE" => e.value = s.value
  /\ s.change # "CREATE" =>
       \/ e.value = NoValue /\ s.change = "INACTIVATE" /\ subject = "configuration"
       \/ e.value = IF s.value = NoValue THEN rows[s.rid].value ELSE s.value

LEMMA NoDraftFacts ==
  /\ NoDraft.rid = NoRid /\ NoDraft.row.status = "NONE"
  /\ NoDraft.row.key = NoKey
  /\ \A d \in Draft : d # NoDraft
<1>1. NoDraft.rid = NoRid
  BY DEF NoDraft
<1>2. \A d \in Draft : d.rid \in Rids
  BY DEF Draft
<1>3. \A d \in Draft : d # NoDraft
  BY <1>1, <1>2, RowsAssumption
<1> QED
  BY <1>1, <1>3 DEF NoDraft, NoRow

(* Waiting for a row and for a key keeps the drafts apart. *)
LEMMA LocksKeepApart ==
  ASSUME RowsInv, NEW p \in Requests, NEW d \in Draft, d.row.key \in Keys,
         RowFree(p, d.rid),
         d.row.status = "ACTIVE" => KeyFree(p, d.row.key),
         NEW q \in Requests \ {p}, Writing(q)
  PROVE  Apart(d, draft[q])
<1>1. d.rid # draft[q].rid
  BY DEF RowFree
<1>2. ASSUME d.row.status = "ACTIVE", draft[q].row.status = "ACTIVE",
             d.row.key = draft[q].row.key
      PROVE  FALSE
  BY <1>2 DEF KeyFree
<1> QED
  BY <1>1, <1>2 DEF Apart

LEMMA InsertWrites ==
  ASSUME RowsInv, NEW p \in Requests, NEW e, req[p].change = "CREATE",
         Records(req[p], e), InsertRow(p, e)
  PROVE  RolledBack(p) \/ Writes(p)
<1> DEFINE s == req[p]
<1>1. s # Idle /\ s \in Statement /\ CreatesRow(s) /\ draft[p] = NoDraft
  BY DEF RowsInv, InsertRow, Pending, Prepared, ChangesRow
<1>2. CASE KeyTaken(NoRid, s.key)
  BY <1>2 DEF InsertRow
<1>3. CASE ~KeyTaken(NoRid, s.key)
  <2>1. PICK r \in Rids :
          /\ rows[r] = NoRow /\ RowFree(p, r)
          /\ Written(p, r, [status |-> "ACTIVE", version |-> 1,
                            key |-> s.key, value |-> s.value], e)
    BY <1>3 DEF InsertRow
  <2> DEFINE row == [status |-> "ACTIVE", version |-> 1, key |-> s.key, value |-> s.value]
             d == [rid |-> r, row |-> row, entry |-> e]
  <2>2. s.key \in Keys /\ s.value \in Values /\ s.status = "ACTIVE" /\ s.change = "CREATE"
    BY <1>1 DEF CreatesRow
  <2>3. row \in Row
    <3>1. 1 \in 0..MaxVersion
      BY VersionAssumption
    <3> QED
      BY <2>2, <3>1 DEF Row, Status
  <2>4. e \in HistoryEntry /\ e.status = "ACTIVE" /\ e.change = "CREATE" /\ e.value = s.value
    BY <2>2 DEF Records
  <2>5. d \in Draft /\ d.rid = r /\ d.row = row /\ d.entry = e
    BY <2>1, <2>3, <2>4 DEF Draft
  <2>6. /\ row.status = "ACTIVE" /\ row.version = 1
        /\ row.key = s.key /\ row.value = s.value
    OBVIOUS
  <2>7. rows[r].version = 0 /\ rows[r] = NoRow
    BY <2>1 DEF NoRow
  <2> HIDE DEF row, d
  <2>8. e.value # NoValue
    BY <2>2, <2>4, RowsAssumption
  <2>9. Ledger!Follows(history[r], e)
    <3>1. history[r] = <<>>
      BY <2>1, UnwrittenLedger
    <3> QED
      BY <3>1, <2>4, <2>8 DEF Ledger!Follows
  <2>10. Publishable(d)
    BY <2>2, <2>4, <2>5, <2>6, <2>7, <2>8, <2>9 DEF Publishable, Status
  <2>11. KeyHeld(d)
    <3>1. \A x \in Rids : ~(rows[x].status = "ACTIVE" /\ rows[x].key = s.key)
      BY <1>3, RowsAssumption DEF KeyTaken, ActiveRows, RowsInv, RowsTypeOK
    <3> QED
      BY <3>1, <2>5, <2>6 DEF KeyHeld
  <2>12. Fresh(p, d)
    BY <2>5, <2>7 DEF Fresh
  <2>13. \A q \in Requests \ {p} : Writing(q) => Apart(d, draft[q])
    <3>1. KeyFree(p, s.key) /\ RowFree(p, r)
      BY <2>1 DEF InsertRow
    <3> QED
      BY <3>1, <2>2, <2>5, <2>6, LocksKeepApart
  <2>14. draft' = [draft EXCEPT ![p] = d] /\ UNCHANGED <<rows, history, req>>
    BY <2>1 DEF Written, d, row
  <2> QED
    BY <1>1, <2>5, <2>10, <2>11, <2>12, <2>13, <2>14 DEF Writes
<1> QED
  BY <1>2, <1>3

(* The UPDATE of a row that is still the version its request had read. *)
LEMMA UpdatePublishable ==
  ASSUME RowsInv, NEW s \in Statement, ChangesRow(s), NEW e, Records(s, e), Matches(s)
  PROVE  /\ Publishable([rid |-> s.rid, row |-> NewRow(s), entry |-> e])
         /\ NewRow(s).status = s.status /\ NewRow(s).key = s.key
<1> DEFINE r == s.rid
           d == [rid |-> r, row |-> NewRow(s), entry |-> e]
<1>1. r \in Rids /\ rows[r].version = s.expected /\ s.expected > 0 /\ s.expected < MaxVersion
  BY DEF ChangesRow, Matches
<1>2. Fits(s) /\ rows[r].key = s.key
  BY <1>1 DEF ChangesRow
<1>3. rows[r] \in Row /\ rows[r] # NoRow
  BY <1>1 DEF RowsInv, RowsTypeOK, NoRow
<1>4. rows[r].key \in Keys /\ rows[r].value \in Values /\ rows[r].value # NoValue
  BY <1>1, <1>3, RowsAssumption DEF RowsInv, RowWellFormed
<1>5. s.status \in Status /\ s.value \in Values \cup {NoValue} /\ s.change \in Change
  BY DEF Statement
<1>6. e \in HistoryEntry /\ e.status = s.status /\ e.change = s.change /\ s.change # "CREATE"
  BY DEF Records, ChangesRow
<1> DEFINE newValue == IF s.value = NoValue THEN rows[r].value ELSE s.value
<1>7. newValue \in Values
  BY <1>4, <1>5
<1>8. /\ NewRow(s) \in Row
      /\ NewRow(s).version = rows[r].version + 1 /\ NewRow(s).status = s.status
      /\ NewRow(s).key = rows[r].key /\ NewRow(s).value = newValue
  <2>1. rows[r].version + 1 \in 0..MaxVersion
    BY <1>1, <1>3, VersionAssumption DEF Row
  <2>2. NewRow(s) = [rows[r] EXCEPT !.version = rows[r].version + 1, !.status = s.status,
                                    !.value = newValue]
    BY DEF NewRow
  <2> HIDE DEF newValue
  <2> QED
    BY <1>3, <1>5, <1>7, <2>1, <2>2 DEF Row
<1>9. \/ e.value = NoValue /\ s.change = "INACTIVATE" /\ subject = "configuration"
      \/ e.value = newValue
  BY <1>6 DEF Records
<1>10. e.value = NoValue =>
         e.change = "INACTIVATE" /\ subject = "configuration" /\ newValue = rows[r].value
  BY <1>6, <1>7, <1>9, RowsAssumption DEF ChangesRow
<1>11. Ledger!Follows(history[r], e)
  <2>1. /\ history[r] # <<>> /\ Ledger!LastEntry(history[r]).status = rows[r].status
        /\ Ledger!LedgerValue(history[r]) = rows[r].value
    BY <1>1, <1>3, LastOfLedger
  <2>2. CASE s.change = "UPDATE"
    <3>1. rows[r].status = "ACTIVE" /\ e.status = "ACTIVE" /\ e.value # NoValue
      BY <1>2, <1>6, <1>7, <1>9, <2>2, RowsAssumption DEF Matches, Fits
    <3> QED
      BY <1>6, <2>1, <2>2, <3>1 DEF Ledger!Follows
  <2>3. CASE s.change = "ACTIVATE"
    <3>1. rows[r].status = "INACTIVE" /\ e.status = "ACTIVE" /\ e.value = rows[r].value
      BY <1>2, <1>6, <1>9, <2>3 DEF Fits, ChangesRow
    <3> QED
      BY <1>6, <2>1, <2>3, <3>1 DEF Ledger!Follows
  <2>4. CASE s.change = "INACTIVATE"
    <3>1. rows[r].status = "ACTIVE" /\ e.status = "INACTIVE" /\ e.value \in {rows[r].value, NoValue}
      BY <1>2, <1>6, <1>9, <2>4 DEF Fits, ChangesRow
    <3> QED
      BY <1>6, <2>1, <2>4, <3>1 DEF Ledger!Follows
  <2>5. CASE s.change = "RESTORE"
    <3>1. /\ s.value \in Values
          /\ \E i \in 1..Len(history[r]) :
               history[r][i].status = s.status /\ history[r][i].value = s.value
      BY <1>2, <2>5 DEF Fits, ChangesRow
    <3>2. e.value = s.value
      BY <1>9, <2>5, <3>1, RowsAssumption
    <3> QED
      BY <1>6, <2>5, <3>1, <3>2 DEF Ledger!Follows
  <2> QED
    BY <1>5, <1>6, <2>2, <2>3, <2>4, <2>5 DEF Change
<1>12. d \in Draft /\ d.rid = r /\ d.row = NewRow(s) /\ d.entry = e
  BY <1>1, <1>6, <1>8 DEF Draft
<1>13. e.value \in {newValue, NoValue}
  BY <1>9
<1> HIDE DEF newValue, d, r
<1>14. Publishable(d)
  BY <1>4, <1>5, <1>6, <1>7, <1>8, <1>10, <1>11, <1>12, <1>13 DEF Publishable
<1> QED
  BY <1>2, <1>8, <1>14 DEF d, r

LEMMA UpdateWrites ==
  ASSUME RowsInv, NEW p \in Requests, NEW e, req[p].change # "CREATE",
         Records(req[p], e), UpdateRow(p, e)
  PROVE  RolledBack(p) \/ Writes(p)
<1> DEFINE s == req[p]
           d == [rid |-> s.rid, row |-> NewRow(s), entry |-> e]
<1>1. s # Idle /\ s \in Statement /\ ChangesRow(s)
  BY DEF RowsInv, UpdateRow, Pending, Prepared, CreatesRow
<1>2. SUFFICES ASSUME ~RolledBack(p) PROVE Writes(p)
  OBVIOUS
<1>3. /\ Matches(s) /\ ~(s.status = "ACTIVE" /\ KeyTaken(s.rid, s.key))
      /\ Written(p, s.rid, NewRow(s), e)
      /\ RowFree(p, s.rid) /\ (s.status = "ACTIVE" => KeyFree(p, s.key))
  BY <1>2 DEF UpdateRow
<1>4. Publishable(d) /\ NewRow(s).status = s.status /\ NewRow(s).key = s.key
  BY <1>1, <1>3, UpdatePublishable
<1>5. d.rid = s.rid /\ d.row.key = s.key /\ d.row.status = s.status
  BY <1>4
<1>6. s.rid \in Rids /\ rows[s.rid] \in Row /\ rows[s.rid].key = s.key
      /\ rows[s.rid].version = s.expected
  BY <1>1, <1>3 DEF ChangesRow, Matches, RowsInv, RowsTypeOK
<1>7. KeyHeld(d)
  <2>1. s.status = "ACTIVE" =>
          \A x \in Rids : rows[x].status = "ACTIVE" /\ rows[x].key = s.key => x = s.rid
    BY <1>3 DEF KeyTaken, ActiveRows, RowsInv, RowsTypeOK
  <2> QED
    BY <2>1, <1>5 DEF KeyHeld
<1>8. Fresh(p, d)
  BY <1>5, <1>6 DEF Fresh
<1>9. \A q \in Requests \ {p} : Writing(q) => Apart(d, draft[q])
  <2>1. d \in Draft /\ d.row.key \in Keys
    BY <1>4 DEF Publishable
  <2>2. RowFree(p, d.rid) /\ (d.row.status = "ACTIVE" => KeyFree(p, d.row.key))
    BY <1>3, <1>5
  <2> HIDE DEF d
  <2> QED
    BY <2>1, <2>2, LocksKeepApart
<1>10. d \in Draft /\ draft' = [draft EXCEPT ![p] = d] /\ UNCHANGED <<rows, history, req>>
  BY <1>3, <1>4 DEF Publishable, Written
<1> QED
  BY <1>1, <1>4, <1>7, <1>8, <1>9, <1>10 DEF Writes

(***************************************************************************)
(* Every step of the whole is one of these.                                *)
(***************************************************************************)
LEMMA TransitionPrepared ==
  ASSUME RowsInv, NEW p \in Requests, NEW r \in Rids, NEW to \in Status,
         rows[r] # NoRow, rows[r].version < MaxVersion, rows[r].status # to,
         Prepare(p, [change |-> IF to = "ACTIVE" THEN "ACTIVATE" ELSE "INACTIVATE",
                     rid |-> r, expected |-> rows[r].version,
                     key |-> rows[r].key, status |-> to, value |-> NoValue])
  PROVE  Prepares(p)
<1> DEFINE change == IF to = "ACTIVE" THEN "ACTIVATE" ELSE "INACTIVATE"
           s == [change |-> change, rid |-> r, expected |-> rows[r].version,
                 key |-> rows[r].key, status |-> to, value |-> NoValue]
<1>1. rows[r].key \in Keys /\ rows[r].version > 0 /\ rows[r].status \in Status
  BY DEF RowsInv, RowWellFormed
<1>2. rows[r].version \in 0..MaxVersion
  BY DEF RowsInv, RowsTypeOK, Row
<1>3. \/ change = "ACTIVATE" /\ to = "ACTIVE" /\ rows[r].status = "INACTIVE"
      \/ change = "INACTIVATE" /\ to = "INACTIVE" /\ rows[r].status = "ACTIVE"
  BY <1>1 DEF Status
<1>4. Prepare(p, s)
  OBVIOUS
<1> HIDE DEF change
<1>5. s \in Statement
  BY <1>1, <1>2, <1>3 DEF Statement, Change
<1>6. ChangesRow(s)
  <2>1. rows[r].version >= rows[r].version
    BY <1>2, VersionAssumption
  <2> QED
    BY <1>1, <1>3, <2>1 DEF ChangesRow, Fits
<1> QED
  BY <1>4, <1>5, <1>6 DEF Prepare, Prepares, Prepared

LEMMA PreparedByConfiguration ==
  ASSUME RowsInv, NEW p \in Requests, PutOverride(p) \/ TransitionOverride(p)
  PROVE  Prepares(p)
<1>1. ASSUME NEW scope \in Scope, NEW value \in ValidSettings, PrepareCreate(p, scope, value)
      PROVE  Prepares(p)
  <2> DEFINE s == [change |-> "CREATE", rid |-> NoRid, expected |-> 0,
                   key |-> scope, status |-> "ACTIVE", value |-> value]
  <2>1. scope \in Keys /\ value \in Values
    BY SettingsAssumption
  <2>2. 0 \in 0..MaxVersion
    BY VersionAssumption
  <2>3. s \in Statement
    BY <2>1, <2>2 DEF Statement, Change, Status
  <2>4. CreatesRow(s)
    BY <2>1 DEF CreatesRow
  <2> QED
    BY <1>1, <2>3, <2>4 DEF PrepareCreate, Prepare, Prepares, Prepared
<1>2. ASSUME NEW scope \in Scope, NEW value \in ValidSettings, NEW expected \in 0..MaxVersion,
             expected # 0, PrepareUpdate(p, scope, value, expected)
      PROVE  Prepares(p)
  <2>1. PICK r \in FindActiveSetting(scope) :
          /\ rows[r].version = expected /\ expected < MaxVersion
          /\ Prepare(p, [change |-> "UPDATE", rid |-> r, expected |-> expected,
                         key |-> scope, status |-> "ACTIVE", value |-> value])
    BY <1>2 DEF PrepareUpdate
  <2> DEFINE s == [change |-> "UPDATE", rid |-> r, expected |-> expected,
                   key |-> scope, status |-> "ACTIVE", value |-> value]
  <2>2. scope \in Keys /\ value \in Values
    BY SettingsAssumption
  <2>3. r \in Rids /\ rows[r].key = scope
    BY DEF FindActiveSetting, ActiveRows, RowsInv, RowsTypeOK
  <2>4. s \in Statement
    BY <2>2, <2>3 DEF Statement, Change, Status
  <2>5. expected > 0 /\ expected \in Nat
    BY <1>2, VersionAssumption
  <2>6. ChangesRow(s)
    BY <2>1, <2>2, <2>3, <2>5 DEF ChangesRow, Fits
  <2> QED
    BY <2>1, <2>4, <2>6 DEF Prepare, Prepares, Prepared
<1>3. ASSUME TransitionOverride(p) PROVE Prepares(p)
  <2>1. PICK r \in FoundSettings, to \in Status :
          /\ rows[r].version < MaxVersion /\ rows[r].status # to
          /\ Prepare(p, [change |-> IF to = "ACTIVE" THEN "ACTIVATE" ELSE "INACTIVATE",
                         rid |-> r, expected |-> rows[r].version,
                         key |-> rows[r].key, status |-> to, value |-> NoValue])
    BY <1>3 DEF TransitionOverride
  <2>2. r \in Rids /\ rows[r] # NoRow
    BY DEF FoundSettings
  <2> QED
    BY <2>1, <2>2, TransitionPrepared
<1> QED
  BY <1>1, <1>2, <1>3 DEF PutOverride
LEMMA PreparedByFlags ==
  ASSUME RowsInv, subject = "flags", NEW p \in Requests,
         PutRule(p) \/ TransitionRuleStatus(p) \/ RestoreRuleVersion(p)
  PROVE  Prepares(p)
<1>1. ASSUME NEW key \in RuleKeys, NEW value \in RuleValue, PrepareCreateRule(p, key, value)
      PROVE  Prepares(p)
  <2> DEFINE s == [change |-> "CREATE", rid |-> NoRid, expected |-> 0,
                   key |-> key, status |-> "ACTIVE", value |-> value]
  <2>1. key \in Keys /\ value \in Values
    BY RuleKeysAssumption, RulesAssumption
  <2>2. 0 \in 0..MaxVersion
    BY VersionAssumption
  <2>3. s \in Statement
    BY <2>1, <2>2 DEF Statement, Change, Status
  <2>4. CreatesRow(s)
    BY <2>1 DEF CreatesRow
  <2> QED
    BY <1>1, <2>3, <2>4 DEF PrepareCreateRule, Prepare, Prepares, Prepared
<1>2. ASSUME NEW key \in RuleKeys, NEW value \in RuleValue, NEW expected \in 0..MaxVersion,
             expected # 0, PrepareUpdateRule(p, key, value, expected)
      PROVE  Prepares(p)
  <2>1. PICK r \in FindActiveRuleByTarget(key[1], key[2]) :
          /\ rows[r].version = expected /\ expected < MaxVersion
          /\ Prepare(p, [change |-> "UPDATE", rid |-> r, expected |-> expected,
                         key |-> key, status |-> "ACTIVE", value |-> value])
    BY <1>2 DEF PrepareUpdateRule
  <2> DEFINE s == [change |-> "UPDATE", rid |-> r, expected |-> expected,
                   key |-> key, status |-> "ACTIVE", value |-> value]
  <2>2. key \in Keys /\ value \in Values /\ key = <<key[1], key[2]>>
    BY RuleKeysAssumption, RulesAssumption DEF RuleKey
  <2>3. r \in Rids /\ rows[r].key = key
    BY <2>2 DEF FindActiveRuleByTarget, ActiveRows, RowsInv, RowsTypeOK
  <2>4. s \in Statement
    BY <2>2, <2>3 DEF Statement, Change, Status
  <2>5. expected > 0 /\ expected \in Nat
    BY <1>2, VersionAssumption
  <2>6. ChangesRow(s)
    BY <2>1, <2>2, <2>3, <2>5 DEF ChangesRow, Fits
  <2> QED
    BY <2>1, <2>4, <2>6 DEF Prepare, Prepares, Prepared
<1>3. ASSUME TransitionRuleStatus(p) PROVE Prepares(p)
  <2>1. PICK r \in FoundRules, to \in Status :
          /\ rows[r].version < MaxVersion /\ rows[r].status # to
          /\ Prepare(p, [change |-> IF to = "ACTIVE" THEN "ACTIVATE" ELSE "INACTIVATE",
                         rid |-> r, expected |-> rows[r].version,
                         key |-> rows[r].key, status |-> to, value |-> NoValue])
    BY <1>3 DEF TransitionRuleStatus
  <2>2. r \in Rids /\ rows[r] # NoRow
    BY DEF FoundRules
  <2> QED
    BY <2>1, <2>2, TransitionPrepared
<1>4. ASSUME RestoreRuleVersion(p) PROVE Prepares(p)
  <2>0. PICK r \in FoundRules : \E v \in DOMAIN history[r] :
          /\ rows[r].version < MaxVersion
          /\ Prepare(p, [change |-> "RESTORE", rid |-> r, expected |-> rows[r].version,
                         key |-> rows[r].key, status |-> history[r][v].status,
                         value |-> history[r][v].value])
    BY <1>4 DEF RestoreRuleVersion, FindRuleVersion
  <2>1. PICK v \in DOMAIN history[r] :
          /\ rows[r].version < MaxVersion
          /\ Prepare(p, [change |-> "RESTORE", rid |-> r, expected |-> rows[r].version,
                         key |-> rows[r].key, status |-> history[r][v].status,
                         value |-> history[r][v].value])
    BY <2>0
  <2> DEFINE h == history[r][v]
             s == [change |-> "RESTORE", rid |-> r, expected |-> rows[r].version,
                   key |-> rows[r].key, status |-> h.status, value |-> h.value]
  <2>2. r \in Rids /\ rows[r] # NoRow
    BY DEF FoundRules
  <2>3. history[r] \in Seq(HistoryEntry) /\ v \in 1..Len(history[r])
    BY <2>2 DEF RowsInv, RowsTypeOK
  <2>4. h \in HistoryEntry
    BY <2>3
  <2>5. h.value # NoValue
    BY <2>2, <2>3 DEF RowsInv, HistoryComplete
  <2>6. h.status \in Status /\ h.value \in Values
    BY <2>4, <2>5 DEF HistoryEntry
  <2>7. rows[r].key \in Keys /\ rows[r].version > 0
    BY <2>2 DEF RowsInv, RowWellFormed
  <2>8. rows[r].version \in 0..MaxVersion /\ rows[r].version >= rows[r].version
    BY <2>2, VersionAssumption DEF RowsInv, RowsTypeOK, Row
  <2>9. \E i \in 1..Len(history[r]) :
          history[r][i].status = h.status /\ history[r][i].value = h.value
    BY <2>3
  <2>10. Prepare(p, s)
    BY <2>1
  <2> HIDE DEF h
  <2>11. s \in Statement
    BY <2>2, <2>6, <2>7, <2>8 DEF Statement, Change
  <2>12. ChangesRow(s)
    BY <2>1, <2>2, <2>6, <2>7, <2>8, <2>9 DEF ChangesRow, Fits
  <2> QED
    BY <2>10, <2>11, <2>12 DEF Prepare, Prepares, Prepared
<1> QED
  BY <1>1, <1>2, <1>3, <1>4 DEF PutRule

LEMMA SettingRecords ==
  ASSUME RowsInv, subject = "configuration", NEW p \in Requests, req[p] # Idle,
         req[p].change # "RESTORE"
  PROVE  Records(req[p], SettingEntry(req[p]))
<1> DEFINE s == req[p]
<1>1. s \in Statement /\ (CreatesRow(s) \/ ChangesRow(s))
  BY DEF RowsInv, Prepared
<1>2. s.change # "CREATE" => rows[s.rid].value \in Values \cup {NoValue}
  BY <1>1 DEF CreatesRow, ChangesRow, RowsInv, RowsTypeOK, Row
<1>3. s.status \in Status /\ s.change \in Change /\ s.value \in Values \cup {NoValue}
  BY <1>1 DEF Statement
<1>4. CASE s.change \in {"CREATE", "UPDATE"}
  <2>1. SettingEntry(s) = [status |-> s.status, change |-> s.change, value |-> s.value]
    BY <1>4 DEF SettingEntry
  <2>2. s.change = "UPDATE" => s.value # NoValue
    BY <1>1, RowsAssumption DEF CreatesRow, ChangesRow
  <2> QED
    BY <1>3, <1>4, <2>1, <2>2 DEF Records, HistoryEntry
<1>5. CASE s.change = "ACTIVATE"
  <2>1. SettingEntry(s) = [status |-> s.status, change |-> s.change,
                           value |-> rows[s.rid].value]
    BY <1>5 DEF SettingEntry
  <2>2. s.value = NoValue
    BY <1>1, <1>5 DEF CreatesRow, ChangesRow
  <2> QED
    BY <1>2, <1>3, <1>5, <2>1, <2>2 DEF Records, HistoryEntry
<1>6. CASE s.change = "INACTIVATE"
  <2>1. SettingEntry(s) = [status |-> s.status, change |-> s.change, value |-> NoValue]
    BY <1>6 DEF SettingEntry
  <2> QED
    BY <1>3, <1>6, <2>1 DEF Records, HistoryEntry
<1> QED
  BY <1>3, <1>4, <1>5, <1>6 DEF Change

LEMMA RuleRecords ==
  ASSUME RowsInv, NEW p \in Requests, req[p] # Idle
  PROVE  Records(req[p], RuleEntry(req[p]))
<1> DEFINE s == req[p]
           written == IF s.value = NoValue THEN rows[s.rid].value ELSE s.value
<1>1. s \in Statement /\ (CreatesRow(s) \/ ChangesRow(s))
  BY DEF RowsInv, Prepared
<1>2. s.change # "CREATE" => rows[s.rid].value \in Values \cup {NoValue}
  BY <1>1 DEF CreatesRow, ChangesRow, RowsInv, RowsTypeOK, Row
<1>3. s.status \in Status /\ s.change \in Change /\ s.value \in Values \cup {NoValue}
  BY <1>1 DEF Statement
<1>4. s.change = "CREATE" => s.value \in Values /\ s.value # NoValue
  BY <1>1, RowsAssumption DEF CreatesRow, ChangesRow
<1>5. written \in Values \cup {NoValue} /\ (s.change = "CREATE" => written = s.value)
  BY <1>2, <1>3, <1>4
<1>6. RuleEntry(s) = [status |-> s.status, change |-> s.change, value |-> written]
  BY DEF RuleEntry
<1>7. written = IF s.value = NoValue THEN rows[s.rid].value ELSE s.value
  OBVIOUS
<1> HIDE DEF written
<1>8. RuleEntry(s) \in HistoryEntry
  BY <1>3, <1>5, <1>6 DEF HistoryEntry
<1> QED
  BY <1>5, <1>6, <1>7, <1>8 DEF Records

LEMMA NextIsRowsStep ==
  ASSUME RowsInv, [Next]_tenantVars
  PROVE  RowsStep
<1> USE DEF RowsStep
<1>1. CASE UNCHANGED tenantVars
  BY <1>1 DEF tenantVars
<1>2. CASE ProfilesNext /\ UNCHANGED <<rowVars, readVars, subject, cast>>
  BY <1>2
<1>3. CASE AccessNext /\ UNCHANGED <<rowVars, readVars, subject, cast>>
  BY <1>3
<1>4. CASE ConfigurationNext /\ UNCHANGED <<accessVars, subject, cast>>
  <2>1. ASSUME NEW p \in Requests, ConfigurationWrite(p)
        PROVE  Prepares(p) \/ Writes(p) \/ RolledBack(p)
    <3>1. CASE PutOverride(p) \/ TransitionOverride(p)
      BY <3>1, PreparedByConfiguration
    <3>2. CASE CreateOverride(p)
      <4>1. req[p] # Idle
        BY <3>2 DEF CreateOverride, InsertRow, Pending
      <4> QED
        BY <1>4, <3>2, <4>1, SettingRecords, InsertWrites DEF ConfigurationNext, CreateOverride
    <3>3. CASE UpdateOverride(p) \/ TransitionStatement(p)
      <4>1. req[p] # Idle /\ req[p].change \notin {"CREATE", "RESTORE"}
            /\ UpdateRow(p, SettingEntry(req[p]))
        BY <3>3 DEF UpdateOverride, TransitionStatement, UpdateRow, Pending
      <4> QED
        BY <1>4, <4>1, SettingRecords, UpdateWrites DEF ConfigurationNext
    <3>4. CASE Abandon(p)
      BY <3>4 DEF Abandon
    <3> QED
      BY <2>1, <3>1, <3>2, <3>3, <3>4 DEF ConfigurationWrite
  <2> QED
    BY <1>4, <2>1 DEF ConfigurationNext, ConfigurationRead, CommitSeen, AbandonReading, PlatformChange
<1>5. CASE FlagsNext /\ UNCHANGED <<accessVars, subject, cast>>
  <2>1. ASSUME NEW p \in Requests, FlagWrite(p)
        PROVE  Prepares(p) \/ Writes(p) \/ RolledBack(p)
    <3>1. CASE PutRule(p) \/ TransitionRuleStatus(p) \/ RestoreRuleVersion(p)
      BY <1>5, <3>1, PreparedByFlags DEF FlagsNext
    <3>2. CASE CreateRule(p)
      <4>1. req[p] # Idle
        BY <3>2 DEF CreateRule, InsertRow, Pending
      <4> QED
        BY <3>2, <4>1, RuleRecords, InsertWrites DEF CreateRule
    <3>3. CASE UpdateRule(p) \/ TransitionRuleStatement(p) \/ RestoreStatement(p)
      <4>1. req[p] # Idle /\ req[p].change # "CREATE" /\ UpdateRow(p, RuleEntry(req[p]))
        BY <3>3 DEF UpdateRule, TransitionRuleStatement, RestoreStatement, UpdateRow, Pending
      <4> QED
        BY <4>1, RuleRecords, UpdateWrites
    <3>4. CASE Abandon(p)
      BY <3>4 DEF Abandon
    <3> QED
      BY <2>1, <3>1, <3>2, <3>3, <3>4 DEF FlagWrite
  <2> QED
    BY <1>5, <2>1 DEF FlagsNext, FlagRead, CommitSeen, AbandonReading, PlatformChange, MembershipChange
<1> QED
  BY <1>1, <1>2, <1>3, <1>4, <1>5 DEF Next
(***************************************************************************)
(* And every one of them preserves the invariant.                          *)
(***************************************************************************)
LEMMA IdleIsNoStatement == \A s \in Statement : s # Idle
<1>1. \A s \in Statement : s.key \in Keys
  BY DEF Statement
<1>2. Idle.key = NoKey
  BY DEF Idle
<1> QED
  BY <1>1, <1>2, RowsAssumption

LEMMA RowsInitInv ==
  ASSUME Init
  PROVE  RowsInv
<1> USE DEF Init, RowsInit
<1>1. NoRow \in Row /\ NoRow.version = 0 /\ NoRow.status = "NONE"
  BY VersionAssumption DEF NoRow, Row
<1>2. RowsTypeOK
  BY <1>1 DEF RowsTypeOK
<1>3. \A r \in Rids : RowWellFormed(r) /\ HistoryComplete(r)
  BY DEF RowWellFormed, HistoryComplete
<1>4. RowIsItsHistory
  BY <1>1 DEF RowIsItsHistory
<1>5. OneActivePerKey
  BY <1>1 DEF OneActivePerKey
<1>6. \A p \in Requests : req[p] = Idle /\ ~Writing(p)
  BY DEF Writing
<1> QED
  BY <1>2, <1>3, <1>4, <1>5, <1>6 DEF RowsInv

(* While table and histories stay, so does what is said of each of them.   *)
LEMMA TablesUntouched ==
  ASSUME RowsInv, UNCHANGED <<rows, history, subject>>
  PROVE  /\ rows' \in [Rids -> Row] /\ history' \in [Rids -> Seq(HistoryEntry)]
         /\ (\A r \in Rids : RowWellFormed(r) /\ HistoryComplete(r))'
         /\ RowIsItsHistory' /\ OneActivePerKey'
         /\ \A s : Prepared(s) => Prepared(s)'
         /\ \A d : Publishable(d) => Publishable(d)'
         /\ \A d : KeyHeld(d) => KeyHeld(d)'
<1>1. rows' \in [Rids -> Row] /\ history' \in [Rids -> Seq(HistoryEntry)]
  BY DEF RowsInv, RowsTypeOK
<1>2. (\A r \in Rids : RowWellFormed(r) /\ HistoryComplete(r))'
  BY DEF RowsInv, RowWellFormed, HistoryComplete
<1>3. RowIsItsHistory' /\ OneActivePerKey'
  BY DEF RowsInv, RowIsItsHistory, OneActivePerKey
<1>4. \A s : Prepared(s) => Prepared(s)'
  BY DEF Prepared, CreatesRow, ChangesRow, Fits
<1>5. \A d : Publishable(d) => Publishable(d)'
  BY DEF Publishable
<1>6. \A d : KeyHeld(d) => KeyHeld(d)'
  BY DEF KeyHeld
<1> QED
  BY <1>1, <1>2, <1>3, <1>4, <1>5, <1>6

LEMMA StutterKeepsInv ==
  ASSUME RowsInv, UNCHANGED <<rowVars, subject>>
  PROVE  RowsInv'
<1> USE DEF rowVars
<1>1. RowsTypeOK'
  BY DEF RowsInv, RowsTypeOK
<1>2. (\A p \in Requests : req[p] = Idle \/ Prepared(req[p]))'
  BY TablesUntouched DEF RowsInv
<1>3. (\A p \in Requests :
         Writing(p) => /\ req[p] # Idle /\ Publishable(draft[p])
                       /\ KeyHeld(draft[p]) /\ Fresh(p, draft[p]))'
  BY TablesUntouched DEF RowsInv, Writing, Fresh
<1>4. (\A p, q \in Requests : p # q /\ Writing(p) /\ Writing(q) => Apart(draft[p], draft[q]))'
  BY DEF RowsInv, Writing, Apart
<1> QED
  BY <1>1, <1>2, <1>3, <1>4, TablesUntouched DEF RowsInv

LEMMA PrepareKeepsInv ==
  ASSUME RowsInv, UNCHANGED subject, NEW p \in Requests, Prepares(p)
  PROVE  RowsInv'
<1>1. PICK s \in Statement :
        /\ req[p] = Idle /\ Prepared(s)
        /\ req' = [req EXCEPT ![p] = s] /\ UNCHANGED <<rows, history, draft>>
  BY DEF Prepares
<1>2. req \in [Requests -> Statement \cup {Idle}]
  BY DEF RowsInv, RowsTypeOK
<1>3. RowsTypeOK'
  BY <1>1, <1>2 DEF RowsInv, RowsTypeOK
<1>4. \A q \in Requests : req'[q] = IF q = p THEN s ELSE req[q]
  BY <1>1, <1>2
<1>5. (\A q \in Requests : req[q] = Idle \/ Prepared(req[q]))'
  BY <1>1, <1>4, TablesUntouched DEF RowsInv
<1>6. ~Writing(p)
  BY <1>1 DEF RowsInv
<1>7. ASSUME NEW q \in Requests, Writing(q)'
      PROVE  /\ req'[q] # Idle /\ Publishable(draft[q])'
             /\ KeyHeld(draft[q])' /\ Fresh(q, draft[q])'
  <2>1. Writing(q) /\ q # p
    BY <1>1, <1>6, <1>7 DEF Writing
  <2>2. req[q] # Idle /\ Publishable(draft[q]) /\ KeyHeld(draft[q]) /\ Fresh(q, draft[q])
    BY <2>1 DEF RowsInv
  <2> QED
    BY <1>1, <1>4, <2>1, <2>2, TablesUntouched DEF Fresh
<1>8. (\A q, o \in Requests : q # o /\ Writing(q) /\ Writing(o) => Apart(draft[q], draft[o]))'
  BY <1>1 DEF RowsInv, Writing, Apart
<1> QED
  BY <1>1, <1>3, <1>5, <1>7, <1>8, TablesUntouched DEF RowsInv

LEMMA WriteKeepsInv ==
  ASSUME RowsInv, UNCHANGED subject, NEW p \in Requests, Writes(p)
  PROVE  RowsInv'
<1>1. PICK d \in Draft :
        /\ req[p] # Idle
        /\ Publishable(d) /\ KeyHeld(d) /\ Fresh(p, d)
        /\ \A q \in Requests \ {p} : Writing(q) => Apart(d, draft[q])
        /\ draft' = [draft EXCEPT ![p] = d] /\ UNCHANGED <<rows, history, req>>
  BY DEF Writes
<1>2. draft \in [Requests -> Draft \cup {NoDraft}]
  BY DEF RowsInv, RowsTypeOK
<1>3. RowsTypeOK'
  BY <1>1, <1>2 DEF RowsInv, RowsTypeOK
<1>4. \A q \in Requests : draft'[q] = IF q = p THEN d ELSE draft[q]
  BY <1>1, <1>2
<1>5. (\A q \in Requests : req[q] = Idle \/ Prepared(req[q]))'
  BY <1>1, TablesUntouched DEF RowsInv
<1>6. ASSUME NEW q \in Requests, Writing(q)'
      PROVE  /\ req'[q] # Idle /\ Publishable(draft[q])'
             /\ KeyHeld(draft[q])' /\ Fresh(q, draft[q])'
  <2>1. CASE q = p
    BY <1>1, <1>4, <2>1, TablesUntouched DEF Fresh
  <2>2. CASE q # p
    <3>1. Writing(q) /\ draft'[q] = draft[q]
      BY <1>4, <1>6, <2>2 DEF Writing
    <3>2. req[q] # Idle /\ Publishable(draft[q]) /\ KeyHeld(draft[q]) /\ Fresh(q, draft[q])
      BY <3>1 DEF RowsInv
    <3> QED
      BY <1>1, <3>1, <3>2, TablesUntouched DEF Fresh
  <2> QED
    BY <2>1, <2>2
<1>7. ASSUME NEW q \in Requests, NEW o \in Requests, q # o, Writing(q)', Writing(o)'
      PROVE  Apart(draft[q], draft[o])'
  <2>1. CASE q = p
    BY <1>1, <1>4, <1>7, <2>1 DEF Apart, Writing
  <2>2. CASE o = p
    BY <1>1, <1>4, <1>7, <2>2 DEF Apart, Writing
  <2>3. CASE q # p /\ o # p
    BY <1>4, <1>7, <2>3 DEF Apart, Writing, RowsInv
  <2> QED
    BY <2>1, <2>2, <2>3
<1> QED
  BY <1>1, <1>3, <1>5, <1>6, <1>7, TablesUntouched DEF RowsInv

LEMMA RollbackKeepsInv ==
  ASSUME RowsInv, UNCHANGED subject, NEW p \in Requests, RolledBack(p)
  PROVE  RowsInv'
<1>1. /\ req \in [Requests -> Statement \cup {Idle}]
      /\ draft \in [Requests -> Draft \cup {NoDraft}]
  BY DEF RowsInv, RowsTypeOK
<1>2. RowsTypeOK'
  BY <1>1 DEF RowsInv, RowsTypeOK, RolledBack
<1>3. \A q \in Requests : /\ req'[q] = IF q = p THEN Idle ELSE req[q]
                          /\ draft'[q] = IF q = p THEN NoDraft ELSE draft[q]
  BY <1>1 DEF RolledBack
<1>4. UNCHANGED <<rows, history>>
  BY DEF RolledBack
<1>5. (\A q \in Requests : req[q] = Idle \/ Prepared(req[q]))'
  BY <1>3, <1>4, TablesUntouched DEF RowsInv
<1>6. ASSUME NEW q \in Requests, Writing(q)'
      PROVE  /\ req'[q] # Idle /\ Publishable(draft[q])'
             /\ KeyHeld(draft[q])' /\ Fresh(q, draft[q])'
  <2>1. Writing(q) /\ draft'[q] = draft[q] /\ req'[q] = req[q]
    BY <1>3, <1>6 DEF Writing
  <2>2. req[q] # Idle /\ Publishable(draft[q]) /\ KeyHeld(draft[q]) /\ Fresh(q, draft[q])
    BY <2>1 DEF RowsInv
  <2> QED
    BY <1>4, <2>1, <2>2, TablesUntouched DEF Fresh
<1>7. (\A q, o \in Requests : q # o /\ Writing(q) /\ Writing(o) => Apart(draft[q], draft[o]))'
  BY <1>3 DEF RowsInv, Writing, Apart
<1> QED
  BY <1>2, <1>4, <1>5, <1>6, <1>7, TablesUntouched DEF RowsInv
(* COMMIT: what it changes, and what was true of the draft it publishes.   *)
LEMMA CommitMoves ==
  ASSUME RowsInv, NEW p \in Requests, Commit(p)
  PROVE  LET d == draft[p] IN
         /\ d.rid \in Rids /\ d.row \in Row /\ d.entry \in HistoryEntry
         /\ req[p] # Idle /\ Publishable(d) /\ KeyHeld(d) /\ Fresh(p, d)
         /\ rows' \in [Rids -> Row] /\ history' \in [Rids -> Seq(HistoryEntry)]
         /\ \A r \in Rids : /\ rows'[r] = IF r = d.rid THEN d.row ELSE rows[r]
                            /\ history'[r] = IF r = d.rid THEN Append(history[r], d.entry)
                                             ELSE history[r]
         /\ \A q \in Requests : /\ req'[q] = IF q = p THEN Idle ELSE req[q]
                                /\ draft'[q] = IF q = p THEN NoDraft ELSE draft[q]
<1> DEFINE d == draft[p]
<1>1. Writing(p)
  BY DEF Commit, Writing
<1>2. req[p] # Idle /\ Publishable(d) /\ KeyHeld(d) /\ Fresh(p, d)
  BY <1>1 DEF RowsInv
<1>3. d.rid \in Rids /\ d.row \in Row /\ d.entry \in HistoryEntry
  BY <1>2 DEF Publishable, Draft
<1>4. /\ rows' = [rows EXCEPT ![d.rid] = d.row]
      /\ history' = [history EXCEPT ![d.rid] = Append(@, d.entry)]
      /\ req' = [req EXCEPT ![p] = Idle]
      /\ draft' = [draft EXCEPT ![p] = NoDraft]
  BY DEF Commit
<1>5. /\ rows \in [Rids -> Row] /\ history \in [Rids -> Seq(HistoryEntry)]
      /\ req \in [Requests -> Statement \cup {Idle}]
      /\ draft \in [Requests -> Draft \cup {NoDraft}]
  BY DEF RowsInv, RowsTypeOK
<1> HIDE DEF d
<1>6. rows' \in [Rids -> Row]
  BY <1>3, <1>4, <1>5
<1>7. history' \in [Rids -> Seq(HistoryEntry)]
  <2>1. Append(history[d.rid], d.entry) \in Seq(HistoryEntry)
    BY <1>3, <1>5
  <2> QED
    BY <1>3, <1>4, <1>5, <2>1
<1>8. \A r \in Rids : /\ rows'[r] = IF r = d.rid THEN d.row ELSE rows[r]
                     /\ history'[r] = IF r = d.rid THEN Append(history[r], d.entry)
                                      ELSE history[r]
  BY <1>3, <1>4, <1>5
<1>9. \A q \in Requests : /\ req'[q] = IF q = p THEN Idle ELSE req[q]
                         /\ draft'[q] = IF q = p THEN NoDraft ELSE draft[q]
  BY <1>4, <1>5
<1> QED
  BY <1>2, <1>3, <1>6, <1>7, <1>8, <1>9 DEF d

LEMMA CommitKeepsRows ==
  ASSUME RowsInv, UNCHANGED subject, NEW p \in Requests, Commit(p)
  PROVE  /\ (\A r \in Rids : RowWellFormed(r) /\ HistoryComplete(r))'
         /\ RowIsItsHistory' /\ OneActivePerKey'
<1> DEFINE d == draft[p]
           R == d.rid
           n == Len(history[R])
<1>1. /\ R \in Rids /\ d.row \in Row /\ d.entry \in HistoryEntry
      /\ Publishable(d) /\ KeyHeld(d)
      /\ \A r \in Rids : /\ rows'[r] = IF r = R THEN d.row ELSE rows[r]
                         /\ history'[r] = IF r = R THEN Append(history[r], d.entry)
                                          ELSE history[r]
  BY CommitMoves
<1>2. history[R] \in Seq(HistoryEntry) /\ n \in Nat /\ rows[R] \in Row
  BY <1>1 DEF RowsInv, RowsTypeOK
<1>3. n = rows[R].version /\ d.row.version = n + 1
  BY <1>1 DEF RowsInv, RowIsItsHistory, Publishable
<1>4. rows'[R] = d.row /\ history'[R] = Append(history[R], d.entry)
  BY <1>1
<1>5. Len(history'[R]) = n + 1 /\ history'[R][n + 1] = d.entry
      /\ \A i \in 1..n : history'[R][i] = history[R][i]
  BY <1>1, <1>2, <1>4
<1>6. d.entry.value = NoValue =>
        /\ n > 0 /\ d.entry.status = "INACTIVE"
        /\ history[R][n].value = d.row.value
  <2> SUFFICES ASSUME d.entry.value = NoValue
               PROVE  /\ n > 0 /\ d.entry.status = "INACTIVE"
                      /\ history[R][n].value = d.row.value
    OBVIOUS
  <2>1. d.entry.change = "INACTIVATE" /\ d.row.value = rows[R].value
    BY <1>1 DEF Publishable
  <2>2. /\ history[R] # <<>> /\ d.entry.status = "INACTIVE"
        /\ Ledger!LastEntry(history[R]).status = "ACTIVE"
    BY <1>1, <2>1 DEF Publishable, Ledger!Follows
  <2>3. rows[R] # NoRow
    BY <1>1, <2>2, UnwrittenLedger
  <2>4. history[R][n].status = "ACTIVE" /\ n > 0
    BY <1>1, <1>2, <1>3, <2>2, <2>3, LastOfLedger
  <2>5. history[R][n].value = rows[R].value
    BY <1>1, <1>3, <2>4 DEF RowsInv, RowIsItsHistory
  <2> QED
    BY <2>1, <2>2, <2>4, <2>5
<1>7. ASSUME NEW r \in Rids
      PROVE  RowWellFormed(r)' /\ HistoryComplete(r)'
  <2>1. CASE r = R
    <3>1. d.row.version > 0 /\ d.row.status \in Status /\ d.row.key \in Keys /\ d.row.value \in Values
      BY <1>1, <1>2, <1>3 DEF Publishable
    <3>2. RowWellFormed(r)'
      BY <1>4, <2>1, <3>1 DEF RowWellFormed
    <3>3. subject # "configuration" => d.entry.value # NoValue
      BY <1>1 DEF Publishable
    <3>4. subject # "configuration" => \A i \in 1..n : history[R][i].value # NoValue
      BY <1>1 DEF RowsInv, HistoryComplete
    <3>5. subject # "configuration" => \A i \in 1..(n + 1) : history'[R][i].value # NoValue
      <4>1. \A i \in 1..(n + 1) : i \in 1..n \/ i = n + 1
        BY <1>2
      <4> HIDE DEF n, R, d
      <4> QED
        BY <1>5, <3>3, <3>4, <4>1
    <3> QED
      BY <1>1, <1>5, <2>1, <3>2, <3>5 DEF HistoryComplete
  <2>2. CASE r # R
    BY <1>1, <2>2 DEF RowsInv, RowWellFormed, HistoryComplete
  <2> QED
    BY <2>1, <2>2
<1>8. RowIsItsHistory'
  <2> SUFFICES ASSUME NEW r \in Rids
               PROVE  (/\ Len(history[r]) = rows[r].version
                       /\ rows[r].version > 0 =>
                            LET last == history[r][rows[r].version] IN
                            /\ rows[r].status = last.status
                            /\ last.value \in {rows[r].value, NoValue}
                            /\ last.value = NoValue =>
                                 /\ last.status = "INACTIVE"
                                 /\ history[r][rows[r].version - 1].value = rows[r].value)'
    BY DEF RowIsItsHistory
  <2>1. CASE r = R
    <3>1. d.row.status = d.entry.status /\ d.entry.value \in {d.row.value, NoValue}
      BY <1>1 DEF Publishable
    <3>2. rows'[r].version - 1 = n
      BY <1>2, <1>3, <1>4, <2>1
    <3>3. d.entry.value = NoValue => history'[R][n].value = d.row.value
      BY <1>2, <1>5, <1>6
    <3> QED
      BY <1>3, <1>4, <1>5, <1>6, <2>1, <3>1, <3>2, <3>3
  <2>2. CASE r # R
    <3>1. rows'[r] = rows[r] /\ history'[r] = history[r]
      BY <1>1, <2>2
    <3> QED
      BY <3>1 DEF RowsInv, RowIsItsHistory
  <2> QED
    BY <2>1, <2>2
<1>9. OneActivePerKey'
  <2>1. \A r \in Rids : r # R /\ rows[r].status = "ACTIVE" /\ d.row.status = "ACTIVE"
                       => rows[r].key # d.row.key
    BY <1>1 DEF KeyHeld
  <2> QED
    BY <1>1, <1>4, <2>1 DEF RowsInv, OneActivePerKey
<1> QED
  BY <1>7, <1>8, <1>9

LEMMA CommitKeepsRequests ==
  ASSUME RowsInv, UNCHANGED subject, NEW p \in Requests, Commit(p),
         NEW q \in Requests, q # p, req[q] # Idle
  PROVE  Prepared(req[q])'
<1> DEFINE d == draft[p]
           R == d.rid
           s == req[q]
<1>1. /\ R \in Rids /\ d.row \in Row /\ Publishable(d) /\ req'[q] = s
      /\ \A r \in Rids : /\ rows'[r] = IF r = R THEN d.row ELSE rows[r]
                         /\ history'[r] = IF r = R THEN Append(history[r], d.entry)
                                          ELSE history[r]
  BY CommitMoves
<1>2. s \in Statement /\ (CreatesRow(s) \/ ChangesRow(s))
  BY DEF RowsInv, Prepared
<1>3. CASE CreatesRow(s)
  BY <1>1, <1>2, <1>3 DEF Prepared, CreatesRow
<1>4. CASE ChangesRow(s) /\ s.rid # R
  <2>1. s.rid \in Rids
    BY <1>4 DEF ChangesRow
  <2>2. rows'[s.rid] = rows[s.rid] /\ history'[s.rid] = history[s.rid]
    BY <1>1, <1>4, <2>1
  <2>3. Fits(s) => Fits(s)'
    BY <2>2, <1>1 DEF Fits
  <2>4. ChangesRow(s)'
    BY <1>1, <1>4, <2>2, <2>3 DEF ChangesRow
  <2> QED
    BY <1>1, <1>2, <2>4 DEF Prepared
<1>5. CASE ChangesRow(s) /\ s.rid = R
  <2>1. /\ rows[R].version \in Nat /\ s.expected \in Nat
        /\ rows[R].version >= s.expected /\ s.expected > 0 /\ rows[R].key = s.key
    BY <1>1, <1>2, <1>5, VersionAssumption
       DEF ChangesRow, RowsInv, RowsTypeOK, Row, Statement
  <2>2. rows[R] # NoRow
    BY <2>1 DEF NoRow
  <2>3. d.row.key = s.key /\ d.row.version = rows[R].version + 1
    BY <1>1, <2>1, <2>2 DEF Publishable
  <2>4. d.row.version >= s.expected /\ d.row.version # s.expected
    BY <2>1, <2>3
  <2>5. rows'[R] = d.row
    BY <1>1
  <2>6. ChangesRow(s)'
    BY <1>1, <1>5, <2>3, <2>4, <2>5 DEF ChangesRow
  <2> QED
    BY <1>1, <1>2, <2>6 DEF Prepared
<1> QED
  BY <1>2, <1>3, <1>4, <1>5

LEMMA CommitKeepsDrafts ==
  ASSUME RowsInv, UNCHANGED subject, NEW p \in Requests, Commit(p),
         NEW q \in Requests, Writing(q)'
  PROVE  /\ q # p /\ req'[q] # Idle /\ Publishable(draft[q])'
         /\ KeyHeld(draft[q])' /\ Fresh(q, draft[q])'
<1> DEFINE d == draft[p]
           R == d.rid
           e == draft[q]
<1>1. /\ R \in Rids /\ d.row \in Row /\ Publishable(d)
      /\ \A r \in Rids : /\ rows'[r] = IF r = R THEN d.row ELSE rows[r]
                         /\ history'[r] = IF r = R THEN Append(history[r], d.entry)
                                          ELSE history[r]
      /\ \A o \in Requests : /\ req'[o] = IF o = p THEN Idle ELSE req[o]
                             /\ draft'[o] = IF o = p THEN NoDraft ELSE draft[o]
  BY CommitMoves
<1>2. q # p /\ Writing(q) /\ draft'[q] = e /\ req'[q] = req[q]
  BY <1>1 DEF Writing
<1>3. req[q] # Idle /\ Publishable(e) /\ KeyHeld(e) /\ Fresh(q, e)
  BY <1>2 DEF RowsInv
<1>4. e.rid # R /\ ~(d.row.status = "ACTIVE" /\ e.row.status = "ACTIVE" /\ d.row.key = e.row.key)
  <2>1. Writing(p)
    BY DEF Commit, Writing
  <2> QED
    BY <1>2, <2>1 DEF RowsInv, Apart
<1>5. e.rid \in Rids
  BY <1>3 DEF Publishable, Draft
<1>6. rows'[e.rid] = rows[e.rid] /\ history'[e.rid] = history[e.rid]
  BY <1>1, <1>4, <1>5
<1>7. Publishable(e)'
  BY <1>2, <1>3, <1>6 DEF Publishable
<1>8. KeyHeld(e)'
  BY <1>1, <1>2, <1>3, <1>4 DEF KeyHeld
<1>9. Fresh(q, e)'
  BY <1>2, <1>3, <1>6 DEF Fresh
<1> QED
  BY <1>2, <1>3, <1>7, <1>8, <1>9

LEMMA CommitKeepsInv ==
  ASSUME RowsInv, UNCHANGED subject, NEW p \in Requests, Commit(p)
  PROVE  RowsInv'
<1>1. /\ rows' \in [Rids -> Row] /\ history' \in [Rids -> Seq(HistoryEntry)]
      /\ \A q \in Requests : /\ req'[q] = IF q = p THEN Idle ELSE req[q]
                             /\ draft'[q] = IF q = p THEN NoDraft ELSE draft[q]
  BY CommitMoves
<1>2. RowsTypeOK'
  <2>1. /\ req \in [Requests -> Statement \cup {Idle}]
        /\ draft \in [Requests -> Draft \cup {NoDraft}]
    BY DEF RowsInv, RowsTypeOK
  <2> QED
    BY <1>1, <2>1 DEF RowsTypeOK, Commit
<1>3. (\A q \in Requests : req[q] = Idle \/ Prepared(req[q]))'
  <2> SUFFICES ASSUME NEW q \in Requests, req'[q] # Idle PROVE Prepared(req[q])'
    OBVIOUS
  <2>1. q # p /\ req[q] # Idle
    BY <1>1
  <2> QED
    BY <2>1, CommitKeepsRequests
<1>4. ASSUME NEW q \in Requests, NEW o \in Requests, q # o, Writing(q)', Writing(o)'
      PROVE  Apart(draft[q], draft[o])'
  <2>1. q # p /\ o # p
    BY <1>4, CommitKeepsDrafts
  <2>2. draft'[q] = draft[q] /\ draft'[o] = draft[o]
    BY <1>1, <2>1
  <2>3. Writing(q) /\ Writing(o)
    BY <1>4, <2>2 DEF Writing
  <2> QED
    BY <1>4, <2>2, <2>3 DEF RowsInv, Apart
<1> QED
  BY <1>2, <1>3, <1>4, CommitKeepsRows, CommitKeepsDrafts DEF RowsInv

LEMMA NextKeepsRowsInv ==
  ASSUME RowsInv, [Next]_tenantVars
  PROVE  RowsInv'
BY NextIsRowsStep, StutterKeepsInv, PrepareKeepsInv, WriteKeepsInv, RollbackKeepsInv,
   CommitKeepsInv DEF RowsStep

-----------------------------------------------------------------------------
(* The types of the tables, requests and drafts of a tenant's rows         *)
(* (settings and rules with their histories) hold in every behaviour.      *)
THEOREM RowsTypes == Spec => []RowsTypeOK
<1>1. RowsInv => RowsTypeOK
  BY DEF RowsInv
<1> QED
  BY <1>1, RowsInitInv, NextKeepsRowsInv, PTL DEF Spec

(* A setting or rule is always what its append-only history says: as many  *)
(* entries as versions, and the last entry is the row.                     *)
THEOREM HistoryIsTheRow == Spec => []RowIsItsHistory
<1>1. RowsInv => RowIsItsHistory
  BY DEF RowsInv
<1> QED
  BY <1>1, RowsInitInv, NextKeepsRowsInv, PTL DEF Spec

(* No interleaving of creations, activations and restorations leaves two   *)
(* ACTIVE rows for one target.                                             *)
THEOREM OneActiveRow == Spec => []OneActivePerKey
<1>1. RowsInv => OneActivePerKey
  BY DEF RowsInv
<1> QED
  BY <1>1, RowsInitInv, NextKeepsRowsInv, PTL DEF Spec

(* The only version a COMMIT replaces is the one its request had read.     *)
LEMMA StepLosesNoUpdate ==
  ASSUME RowsInv, RowsStep
  PROVE  [\A r \in Rids : rows'[r] # rows[r] =>
            /\ rows'[r].version = rows[r].version + 1
            /\ rows[r] # NoRow => \E p \in Requests :
                 req[p].rid = r /\ req[p].expected = rows[r].version]_rowVars
<1>1. ASSUME NEW p \in Requests, Commit(p), NEW r \in Rids, rows'[r] # rows[r]
      PROVE  /\ rows'[r].version = rows[r].version + 1
             /\ rows[r] # NoRow => req[p].rid = r /\ req[p].expected = rows[r].version
  <2>1. /\ draft[p].rid = r /\ rows'[r] = draft[p].row
        /\ Publishable(draft[p]) /\ Fresh(p, draft[p])
    BY <1>1, CommitMoves
  <2> QED
    BY <2>1 DEF Publishable, Fresh
<1>2. UNCHANGED rows \/ \E p \in Requests : Commit(p)
  BY DEF RowsStep, rowVars, Prepares, Writes, RolledBack
<1> QED
  BY <1>1, <1>2

(* Two requests that read the same version never both replace it.          *)
THEOREM NoWriteIsLost == Spec => NoLostUpdate
<1>1. RowsInv /\ [Next]_tenantVars =>
        [\A r \in Rids : rows'[r] # rows[r] =>
           /\ rows'[r].version = rows[r].version + 1
           /\ rows[r] # NoRow => \E p \in Requests :
                req[p].rid = r /\ req[p].expected = rows[r].version]_rowVars
  BY NextIsRowsStep, StepLosesNoUpdate
<1> QED
  BY <1>1, RowsInitInv, NextKeepsRowsInv, PTL DEF Spec, NoLostUpdate

(* Every step of the administration appends at most one legal entry to one *)
(* ledger: the two histories implement RowLedger.                          *)
LEMMA StepRecords ==
  ASSUME RowsInv, RowsStep
  PROVE  [Ledger!LNext]_history
<1>1. ASSUME NEW p \in Requests, Commit(p) PROVE Ledger!LNext
  <2> DEFINE R == draft[p].rid
             e == draft[p].entry
  <2>1. /\ R \in Rids /\ e \in HistoryEntry /\ Publishable(draft[p])
        /\ history' = [history EXCEPT ![R] = Append(@, e)]
    BY <1>1, CommitMoves DEF Commit
  <2>2. history \in [Rids -> Seq(HistoryEntry)]
    BY DEF RowsInv, RowsTypeOK
  <2> HIDE DEF R, e
  <2>3. history'[R] = Append(history[R], e) /\ history[R] \in Seq(HistoryEntry)
    BY <2>1, <2>2
  <2>4. Len(history'[R]) > Len(history[R]) /\ history'[R][Len(history'[R])] = e
    BY <2>1, <2>3
  <2>5. Ledger!LastEntry(history'[R]) = e
    BY <2>4 DEF Ledger!LastEntry
  <2>6. e \in Ledger!Entry
    BY <2>1 DEF Ledger!Entry, HistoryEntry, Status, Change
  <2>7. Ledger!Follows(history[R], e)
    BY <2>1 DEF Publishable, R, e
  <2>8. Ledger!Record(R, e)
    BY <2>1, <2>7 DEF Ledger!Record
  <2> QED
    BY <2>1, <2>4, <2>5, <2>6, <2>8 DEF Ledger!LNext
<1>2. UNCHANGED history \/ \E p \in Requests : Commit(p)
  BY DEF RowsStep, rowVars, Prepares, Writes, RolledBack
<1> QED
  BY <1>1, <1>2

THEOREM HistoriesAreLedgers == Spec => ImplementsLedger
<1>1. Init => Ledger!LInit
  BY DEF Init, RowsInit, Ledger!LInit
<1>2. RowsInv /\ [Next]_tenantVars => [Ledger!LNext]_history
  BY NextIsRowsStep, StepRecords
<1> QED
  BY <1>1, <1>2, RowsInitInv, NextKeepsRowsInv, PTL
     DEF Spec, ImplementsLedger, Ledger!LedgerSpec
==============================================================================
