----------------------------- MODULE MCReports -----------------------------
(***************************************************************************)
(* Reports for TLC: two scripts, of the same agent or of two, over two     *)
(* synthetic tasks and a real one, across midnight, beside two old files,  *)
(* one of them of an older schema.                                         *)
(***************************************************************************)
EXTENDS Reports, TLC

CONSTANTS s1, s2, week3, week7, stub, planner, buys, real, escalates, v, w

MCTaskFiles ==
  <<[id |-> buys, kind |-> "synthetic"], [id |-> real, kind |-> "real_x402"],
    [id |-> escalates, kind |-> "synthetic"]>>

MCOutcome(successes, failures) == [successes |-> successes, failures |-> failures]

(* The stub buys nothing, and nobody buys where a task wants an escalation. *)
MCObserved ==
  [task \in {buys, escalates} |->
     (stub :> {<< >>}) @@
     (planner :> IF task = buys THEN {v :> MCOutcome(1, 0), w :> MCOutcome(2, 1)}
                                ELSE {<< >>})]

MCOld == [task |-> buys, agent |-> planner, date |-> 0,
          outcomes |-> (v :> MCOutcome(0, 1)) @@ (w :> MCOutcome(1, 1))]

MCSortedPaths ==
  <<week3, week7>> \o [n \in 1..8 |-> <<IF n <= 4 THEN buys ELSE escalates,
                                  IF n % 2 = 0 THEN planner ELSE stub,
                                  IF n % 4 \in {0, 3} THEN 2 ELSE 1>>]

MCOldFiles == (week3 :> OldSchema) @@ (week7 :> MCOld)

MCAssignments == {(s1 :> stub) @@ (s2 :> planner), (s1 :> planner) @@ (s2 :> planner)}
=============================================================================
