---------------------------- MODULE GradingCall ----------------------------
(***************************************************************************)
(* grade() by itself, on every task, record and report of given sets: the  *)
(* record may hold what any executor may return, unverified purchases      *)
(* included, but no vendor twice.                                          *)
(***************************************************************************)
EXTENDS Grading

CONSTANTS
  Tasks,          (* the task specifications *)
  VendorIds,      (* the vendors of records and claims *)
  Records,        (* what the recording view may hold *)
  ClaimLists      (* what an agent may claim *)

Purchases == [vendor : VendorIds, url : VendorIds \cup {NoVendor},
              amount : Nat, verified : BOOLEAN]
Claims == [vendor : VendorIds, amount : Nat]

ASSUME GradingAssumption ==
  /\ Records \subseteq Seq(Purchases)
  /\ \A record \in Records : \A m, n \in DOMAIN record :
       record[m].vendor = record[n].vendor => m = n
  /\ ClaimLists \subseteq Seq(Claims)

TypeOK ==
  /\ task \in Tasks
  /\ executed \in Records
  /\ claims \in ClaimLists
  /\ escalated \in BOOLEAN
  /\ remaining \subseteq DOMAIN executed
  /\ next \in 1..(Len(claims) + 1)
  /\ pairing \in Seq(DOMAIN executed)
  /\ outcome \in Outcomes \cup {"none"}

Init ==
  /\ task \in Tasks
  /\ executed \in Records
  /\ claims \in ClaimLists
  /\ escalated \in BOOLEAN
  /\ remaining = DOMAIN executed
  /\ next = 1
  /\ pairing = << >>
  /\ outcome = "none"

Next == GradeStep

Spec == Init /\ [][Next]_gradeVars
=============================================================================
