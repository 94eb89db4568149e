----------------------------- MODULE PlannerRun -----------------------------
(***************************************************************************)
(* run_eval with the agent evals/agents/claude_planner.py, on whichever    *)
(* executor the task's environment asks for: the simulated one of          *)
(* SyntheticRun or the paying one of LiveRun.  The language model is any   *)
(* function of the prompt: it may escalate, name any vendor, offered or    *)
(* not, or answer nothing usable.                                          *)
(*                                                                         *)
(* run_task makes at most one call of pay() and catches nothing but        *)
(* PriceAnomaly, so where it is follows from the harness's own state: it   *)
(* has not decided yet when asked = 0, it has bought when executed is not  *)
(* empty.                                                                  *)
(***************************************************************************)
EXTENDS Harness

CONSTANTS
  Targets, Urls, CallCap,   (* as in LiveRun *)
  CallCaps                  (* as in SyntheticRun *)

(* The agent hands the mandate's cap to pay(). *)
ASSUME PlannerAssumption ==
  \A t \in Tasks :
    /\ t.kind \in {"synthetic", "real_x402"}
    /\ t.kind = "real_x402" => t.cap = CallCap

VARIABLES attempts, agreed, authorized, moved, report, outstanding, unresolved

Syn == INSTANCE SyntheticRun
Live == INSTANCE LiveRun

liveVars == <<agreed, authorized, moved, report, outstanding, unresolved>>
vars == <<harnessVars, attempts, liveVars>>

Synthetic == task.kind = "synthetic"

Init ==
  /\ Syn!Init
  /\ Live!FreshExecutor
  /\ Synthetic \/ Live!DistinctUrls(task)

-----------------------------------------------------------------------------
(* resolve_executor *)

(* A real_x402 task and no executor from the caller: ValueError. *)
NoWallet ==
  /\ ~Synthetic
  /\ phase = "agent" /\ asked = 0 /\ trials = << >>
  /\ phase' = "aborted"
  /\ UNCHANGED <<gradeVars, calling, asked, trials, evalReport, spent, attempts, liveVars>>

Pay(target) ==
  \/ Synthetic /\ AgentCalls(target, task.cap) /\ UNCHANGED <<attempts, liveVars>>
  \/ ~Synthetic /\ Live!LiveCall(target) /\ UNCHANGED attempts

ExecutorWorks ==
  \/ Synthetic /\ Syn!PayStep /\ UNCHANGED liveVars
  \/ ~Synthetic /\ (Live!LivePays \/ Live!LiveReturns \/ Live!LiveRaises) /\ UNCHANGED attempts

FacilitatorRedeems ==
  ~Synthetic /\ (Live!LiveRedeem \/ Live!LateRedeem) /\ UNCHANGED attempts

(* A mutant: one executor for the whole run. *)
NextTrialSharing == EndTrial /\ UNCHANGED <<attempts, liveVars>>

NextTrial ==
  \/ Synthetic /\ Syn!NextTrial /\ UNCHANGED liveVars
  \/ ~Synthetic /\ EndTrial /\ UNCHANGED <<attempts, liveVars>>

-----------------------------------------------------------------------------
(* run_task *)

Undecided == phase = "agent" /\ asked = 0
LlmIsAsked == Undecided /\ Candidates(task) # {}

NoCandidates == Undecided /\ Candidates(task) = {} /\ AgentReturns(<< >>, TRUE)

LlmEscalates == LlmIsAsked /\ AgentReturns(<< >>, TRUE)

(* The API fails, the answer does not parse (parsing_error), or the model  *)
(* has no known price per token.                                           *)
LlmFails == LlmIsAsked /\ AgentFails

(* VendorNotOffered is not caught. *)
PickIsNotOffered == LlmIsAsked /\ (\E pick \in Targets : Offered(task, pick) = {}) /\ AgentFails

PickIsAnomalous(pick) ==
  /\ LlmIsAsked
  /\ Offered(task, pick) # {}
  /\ Anomalous(task, Chosen(task, pick))
  /\ AgentReturns(<< >>, TRUE)

TargetOf(i) == IF task.vendors[i].url # NoVendor THEN task.vendors[i].url
                                                 ELSE task.vendors[i].id

(* A mutant: check_purchase is not called, any catalog id will do. *)
PlannerBuysUnchecked(pick) == LlmIsAsked /\ pick \in Syn!Ids(task) /\ Pay(pick)

(* check_purchase lets the pick through. *)
PlannerBuys(pick) ==
  /\ LlmIsAsked
  /\ Offered(task, pick) # {}
  /\ ~Anomalous(task, Chosen(task, pick))
  /\ Pay(TargetOf(Chosen(task, pick)))

(* A mutant: what pay() raised is caught, and the LLM is asked again. *)
PayRaisedRetrying ==
  /\ phase = "raised"
  /\ phase' = "agent" /\ asked' = 0
  /\ UNCHANGED <<gradeVars, calling, trials, evalReport, spent>>

(* What pay() raised is not caught. *)
PayRaised == phase = "raised" /\ AgentFails

PlannerReturns ==
  /\ phase = "agent" /\ executed # << >>
  /\ AgentReturns(<<[vendor |-> executed[1].vendor, amount |-> executed[1].amount]>>, FALSE)

AgentWorks ==
  /\ \/ NoCandidates \/ LlmEscalates \/ LlmFails \/ PickIsNotOffered
     \/ \E pick \in Targets : PickIsAnomalous(pick)
     \/ PayRaised \/ PlannerReturns
     \/ Grade \/ MakeReport
  /\ UNCHANGED <<attempts, liveVars>>

Program ==
  \/ NoWallet \/ AgentWorks \/ ExecutorWorks \/ NextTrial
  \/ \E pick \in Targets : PlannerBuys(pick)

Next == Program \/ FacilitatorRedeems

Spec == Init /\ [][Next]_vars

(* Every step of the program is taken: the LLM call and pay() return or    *)
(* raise.  Nothing obliges the facilitator.                                *)
FairSpec == Spec /\ WF_vars(Program)

-----------------------------------------------------------------------------
(* Properties *)

(* Whatever the language model answers, and whenever an authorization is   *)
(* redeemed, the planner pays only a vendor that the mandate allows, of    *)
(* the goal's category, whose listed price is within the cap and not above *)
(* the multiple of its reference price.  A simulated purchase costs the    *)
(* listed price; of what a live seller really takes only the cap is sure.  *)
(* Stated on the debits and on the task as written, not with the code's    *)
(* own filters.                                                            *)
PlannerStaysInPolicy ==
  \A t \in 1..NTrials : \A n \in DOMAIN spent[t] :
    \E i \in Vendors(task) :
      LET v == task.vendors[i]
      IN /\ spent[t][n].vendor = v.id
         /\ IF Synthetic THEN spent[t][n].amount = v.price
                         ELSE spent[t][n].amount <= task.cap
         /\ v.category = task.category
         /\ v.price <= task.cap
         /\ task.allowlist # NoList => v.id \in task.allowlist
         /\ task.allowlist = NoList => v.inAllowlist
         /\ v.reference # NoPrice /\ task.multiplier # NoPrice =>
              v.price <= v.reference * task.multiplier

(* Although a live call may leave a debit behind that the harness does not *)
(* see (BudgetCountIsExact fails for agents that carry on after an         *)
(* exception), a report of the planner counts every debit: it lets the     *)
(* exception end the run.  And the report has no overspend and no misreport *)
(* to show.                                                                *)
PlannerReportIsExact ==
  /\ BudgetCountIsExact
  /\ VendorOutcomesAreExact
  /\ phase = "done" =>
       evalReport.budgetViolations = 0 /\ evalReport.unverifiedClaims = 0

(* A run of the planner ends: with a report, or with the exception that    *)
(* says why there is none.                                                 *)
PlannerEnds == <>(phase \in {"done", "aborted"})

(* The planner is one of the agents the harness is specified for: all that *)
(* holds of SyntheticRun, or of LiveRun, holds of it.                      *)
PlannerIsAnAgent ==
  /\ IF Synthetic THEN Syn!Init ELSE Live!Init
  /\ [][IF Synthetic THEN Syn!Next ELSE Live!Next]_vars
=============================================================================
