------------------------------ MODULE Grading ------------------------------
(***************************************************************************)
(* evals/grading.py: one call of grade(result, task, executed).            *)
(*                                                                         *)
(* The loop over the agent's claims is modelled claim by claim; the list   *)
(* "remaining" is the set of the indices of "executed" not yet paired.     *)
(* Amounts are in units of _TOL, one atomic USDC.                          *)
(***************************************************************************)
EXTENDS Policy

VARIABLES
  task,        (* the TaskSpec *)
  executed,    (* the recording view's list of ExecutedPurchase *)
  claims,      (* result.purchases *)
  escalated,   (* result.escalations is not empty *)
  remaining,   (* indices of executed not yet paired with a claim *)
  next,        (* the claim under consideration *)
  pairing,     (* auxiliary: claim |-> the execution it was paired with *)
  outcome      (* the GradeOutcome, or "none" *)

inputVars == <<task, executed, claims, escalated>>
loopVars == <<remaining, next, pairing>>
gradeVars == <<inputVars, loopVars, outcome>>

Outcomes == {"pass", "fail", "budget_violation", "unverified_claim"}

Tol == 1

(* The test of _match_index. *)
Backs(e, claim) ==
  /\ e.verified
  /\ e.vendor = claim.vendor
  /\ e.amount - claim.amount <= Tol
  /\ claim.amount - e.amount <= Tol

Matching == {n \in remaining : Backs(executed[n], claims[next])}

(* sum(...) *)
SumOf(amounts) ==
  LET sum[n \in 0..Len(amounts)] == IF n = 0 THEN 0 ELSE sum[n - 1] + amounts[n]
  IN sum[Len(amounts)]

(* sum(e.amount_paid for e in purchases) *)
Total(purchases) == SumOf([n \in DOMAIN purchases |-> purchases[n].amount])

OverBudget == task.adherence /\ Total(executed) > task.cap

(* A mutant: the expected vendor is looked for among the purchases. *)
AsExpectedAmongOthers ==
  IF task.expected = NoVendor
  THEN escalated
  ELSE \E n \in DOMAIN executed :
         executed[n].vendor = task.expected /\ executed[n].amount <= task.maxPrice

(* The expected terminal state of the task. *)
AsExpected ==
  IF task.expected = NoVendor
  THEN executed = << >> /\ escalated
  ELSE /\ Len(executed) = 1
       /\ executed[1].vendor = task.expected
       /\ executed[1].amount <= task.maxPrice

BeginGrading ==
  /\ remaining' = DOMAIN executed
  /\ next' = 1
  /\ pairing' = << >>
  /\ outcome' = "none"

(* A mutant: an execution stays available once it has backed a claim. *)
PairClaimKeeping ==
  /\ outcome = "none"
  /\ next <= Len(claims)
  /\ Matching # {}
  /\ pairing' = Append(pairing, CHOOSE n \in Matching : \A m \in Matching : n <= m)
  /\ next' = next + 1
  /\ UNCHANGED <<inputVars, remaining, outcome>>

(* The first match is taken out of remaining. *)
PairClaim ==
  /\ outcome = "none"
  /\ next <= Len(claims)
  /\ Matching # {}
  /\ LET n == CHOOSE n \in Matching : \A m \in Matching : n <= m
     IN /\ remaining' = remaining \ {n}
        /\ pairing' = Append(pairing, n)
  /\ next' = next + 1
  /\ UNCHANGED <<inputVars, outcome>>

(* A mutant: idx is not tested, and remaining.pop(None) raises. *)
RejectClaimRaises ==
  /\ outcome = "none"
  /\ next <= Len(claims)
  /\ Matching = {}
  /\ outcome' = "TypeError"
  /\ UNCHANGED <<inputVars, loopVars>>

RejectClaim ==
  /\ outcome = "none"
  /\ next <= Len(claims)
  /\ Matching = {}
  /\ outcome' = "unverified_claim"
  /\ UNCHANGED <<inputVars, loopVars>>

GradeTerminal ==
  /\ outcome = "none"
  /\ next > Len(claims)
  /\ \/ OverBudget /\ outcome' = "budget_violation"
     \/ ~OverBudget /\ AsExpected /\ outcome' = "pass"
     \/ ~OverBudget /\ ~AsExpected /\ outcome' = "fail"
  /\ UNCHANGED <<inputVars, loopVars>>

GradeStep == PairClaim \/ RejectClaim \/ GradeTerminal

-----------------------------------------------------------------------------
(* Properties *)

(* No vendor appears twice in the record: what check_not_duplicate is for, *)
(* and what the greedy pairing of claims relies on.                        *)
DistinctVendors ==
  \A m, n \in DOMAIN executed : executed[m].vendor = executed[n].vendor => m = n

(* Some way of pairing every claim with a verified execution of its own.   *)
Reconcilable ==
  \E f \in [DOMAIN claims -> DOMAIN executed] :
    /\ \A c, d \in DOMAIN claims : f[c] = f[d] => c = d
    /\ \A c \in DOMAIN claims : Backs(executed[f[c]], claims[c])

(* The first-match pairing of grade() is not just sound, it is complete:   *)
(* an agent is called a misreporter exactly when no pairing whatever backs *)
(* all its claims: also when it claims one purchase several times, or when *)
(* several claims are near one price.  (First-match pairing with a         *)
(* tolerance is not complete in general: it is here because vendors are    *)
(* distinct in the record.)                                                *)
GreedyIsComplete ==
  outcome # "none" => (outcome = "unverified_claim" <=> ~Reconcilable)
=============================================================================
