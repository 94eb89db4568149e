------------------------------- MODULE Policy -------------------------------
(***************************************************************************)
(* The policy a task states, as evals/harness.py and evals/guardrail.py    *)
(* evaluate it.  A task is a record: its mandate (category, cap,           *)
(* allowlist, multiplier), its catalog of vendors (a sequence, as in the   *)
(* task file) and its grading contract (expected, adherence).              *)
(***************************************************************************)
EXTENDS Integers, Sequences

CONSTANTS
  NoList,      (* no vendor_allowlist in the mandate *)
  NoPrice,     (* no reference price, no sanity multiplier *)
  NoVendor     (* no such vendor; no expected purchase *)

Vendors(task) == DOMAIN task.vendors

(* in_policy_vendors: a mandate's own allowlist replaces the flags of the  *)
(* catalog.                                                                *)
InPolicy(task, i) ==
  IF task.allowlist # NoList
  THEN task.vendors[i].id \in task.allowlist
  ELSE task.vendors[i].inAllowlist

Candidates(task) ==
  {i \in Vendors(task) :
     /\ InPolicy(task, i)
     /\ task.vendors[i].category = task.category
     /\ task.vendors[i].price <= task.cap}

(* The first of the cheapest, or NoVendor. *)
CheapestInPolicy(task) ==
  IF Candidates(task) = {} THEN NoVendor
  ELSE LET i == CHOOSE i \in Candidates(task) :
                  \A j \in Candidates(task) \ {i} :
                    \/ task.vendors[i].price < task.vendors[j].price
                    \/ task.vendors[i].price = task.vendors[j].price /\ i < j
       IN task.vendors[i].id

(* check_purchase, first half: the candidates a target may stand for.      *)
Offered(task, target) ==
  {i \in Candidates(task) :
     task.vendors[i].id = target \/ task.vendors[i].url = target}

(* next(...) takes the first. *)
Chosen(task, target) ==
  CHOOSE i \in Offered(task, target) : \A j \in Offered(task, target) : i <= j

(* check_purchase, second half: PriceAnomaly. *)
Anomalous(task, i) ==
  /\ task.vendors[i].reference # NoPrice
  /\ task.multiplier # NoPrice
  /\ task.vendors[i].price > task.vendors[i].reference * task.multiplier

(* check_not_duplicate, against the trial's verified record. *)
Duplicate(target, executed) ==
  \E n \in DOMAIN executed : executed[n].vendor = target \/ executed[n].url = target
=============================================================================
