----------------------------- MODULE MCDlqAdmin ------------------------------
EXTENDS DlqIngestion

CONSTANTS m1, j1, p1, p2, d1, d2, k1, k2

(* Two administrators, with two keys on one entry or with one key; one   *)
(* administrator of two entries, or of an entry whose message is dead-      *)
(* lettered; two copies of dead letters.                                   *)
MCCasts ==
  {{p1, p2, m1, k1, k2}, {p1, p2, j1, k1}, {p1, m1, j1, k1}, {p1, m1, k1, d1}, {d1, d2}}
=============================================================================
