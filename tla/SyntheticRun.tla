---------------------------- MODULE SyntheticRun ----------------------------
(***************************************************************************)
(* run_eval on a synthetic task: evals/executor.py, SyntheticExecutor, with *)
(* its fault injection, rebuilt for every trial by resolve_executor.       *)
(***************************************************************************)
EXTENDS Harness

CONSTANTS
  Targets,       (* what an agent may pass to pay(), ids it made up included *)
  CallCaps       (* the max_amount it may pass *)

VARIABLE attempts     (* _attempts: vendor id |-> counted attempts *)

vars == <<harnessVars, attempts>>

Ids(t) == {t.vendors[i].id : i \in Vendors(t)}

(* _by_id: a later entry of the catalog replaces an earlier one. *)
ById(id) ==
  LET i == CHOOSE i \in Vendors(task) :
             /\ task.vendors[i].id = id
             /\ \A j \in Vendors(task) : task.vendors[j].id = id => j <= i
  IN task.vendors[i]

FreshExecutor(t) == [id \in Ids(t) |-> 0]

Init == HarnessInit /\ attempts = FreshExecutor(task)

(* KeyError, OfferOverCap, EndpointUnreachable: raised before the attempt  *)
(* is counted.                                                             *)
SyntheticRefuses ==
  /\ phase = "paying"
  /\ \/ calling.target \notin Ids(task)
     \/ /\ calling.target \in Ids(task)
        /\ \/ ById(calling.target).price > calling.cap
           \/ ById(calling.target).down
  /\ PayRaises
  /\ UNCHANGED <<attempts, spent>>

Attempted ==
  /\ phase = "paying"
  /\ calling.target \in Ids(task)
  /\ ById(calling.target).price <= calling.cap
  /\ ~ById(calling.target).down
  /\ attempts' = [attempts EXCEPT ![calling.target] = @ + 1]

(* SettlementRejected: one of the first fails_next_n_attempts. *)
SyntheticRejects ==
  /\ Attempted
  /\ attempts'[calling.target] <= ById(calling.target).failsNext
  /\ PayRaises
  /\ UNCHANGED spent

(* A simulated settlement: verified, and debited at the catalog price. *)
SyntheticPays ==
  /\ Attempted
  /\ attempts'[calling.target] > ById(calling.target).failsNext
  /\ LET v == ById(calling.target)
     IN /\ Record([vendor |-> v.id, url |-> NoVendor, amount |-> v.price,
                   verified |-> TRUE])
        /\ spent' = [spent EXCEPT ![Now] = Append(@, [vendor |-> v.id, amount |-> v.price])]

(* A mutant: one executor for the whole run. *)
NextTrialSharing == EndTrial /\ UNCHANGED attempts

NextTrial == EndTrial /\ attempts' = FreshExecutor(task)

PayStep == SyntheticRefuses \/ SyntheticRejects \/ SyntheticPays

Next ==
  \/ \E target \in Targets, cap \in CallCaps :
       AgentCalls(target, cap) /\ UNCHANGED attempts
  \/ PayStep
  \/ AgentOrHarness /\ UNCHANGED attempts
  \/ NextTrial

Spec == Init /\ [][Next]_vars

-----------------------------------------------------------------------------
(* Properties *)

TypeOK ==
  /\ task \in Tasks
  /\ phase \in Phases
  /\ calling \in [target : Targets, cap : CallCaps] \cup {NoCall}
  /\ asked \in 0..MaxCalls
  /\ Len(executed) <= asked
  /\ Len(trials) <= NTrials
  /\ attempts \in [Ids(task) -> 0..MaxCalls]

(* Fault injection is per trial: a vendor that rejects its first k         *)
(* settlements rejects them in every trial anew, so its counter never      *)
(* exceeds this trial's calls, and it has sold in this trial exactly if    *)
(* this trial's attempts have used its failures up.                        *)
FaultsPerTrial ==
  phase \in {"agent", "paying", "raised", "grading"} =>
    \A id \in Ids(task) :
      /\ attempts[id] <= asked
      /\ (\E n \in DOMAIN executed : executed[n].vendor = id)
           <=> attempts[id] > ById(id).failsNext
=============================================================================
