------------------------------- MODULE Harness -------------------------------
(***************************************************************************)
(* evals/harness.py: run_eval, which lets an agent work on a task for      *)
(* NTrials trials, records what it buys through _recording_view, grades    *)
(* each trial and aggregates a report.                                     *)
(*                                                                         *)
(* The agent is any agent: it may call pay() on any target, again after a  *)
(* failure, claim anything, escalate, or fail.  The executor behind the    *)
(* view is left to the modules that extend this one: they say when a call  *)
(* returns a purchase (Record) and when it raises (PayRaises), and keep    *)
(* "spent", what each trial really cost, which the harness never sees.     *)
(***************************************************************************)
EXTENDS Grading, FiniteSets

CONSTANTS
  NTrials,       (* n_trials *)
  Tasks,         (* the task specifications *)
  ClaimLists,    (* what an agent may claim in a trial *)
  MaxCalls,      (* bound: calls of pay() per trial *)
  PassKValues,   (* _PASS_K_VALUES *)
  NoCall, NoReport, NotApplicable

ASSUME HarnessAssumption ==
  NTrials \in Nat \ {0} /\ MaxCalls \in Nat /\ PassKValues \subseteq Nat \ {0}

(* What the task models validate: lists of vendors, amounts and counts that *)
(* are not negative.                                                       *)
ASSUME TaskAssumption ==
  \A t \in Tasks :
    /\ t.cap \in Nat
    /\ t.multiplier # NoPrice => t.multiplier \in Nat
    /\ Len(t.vendors) \in Nat /\ DOMAIN t.vendors = 1..Len(t.vendors)
    /\ \A i \in DOMAIN t.vendors :
         /\ t.vendors[i].price \in Nat /\ t.vendors[i].failsNext \in Nat
         /\ t.vendors[i].reference # NoPrice => t.vendors[i].reference \in Nat

VARIABLES
  phase,         (* who is running *)
  calling,       (* the call of pay() in progress, or NoCall *)
  asked,         (* calls of pay() made in this trial *)
  trials,        (* executed_per_trial, outcomes and results so far *)
  evalReport,    (* the EvalReport, or NoReport *)
  spent          (* trial |-> what the executor has really debited in it *)

controlVars == <<phase, calling, asked, trials, evalReport>>
harnessVars == <<gradeVars, controlVars, spent>>

Phases == {"agent", "paying", "raised", "grading", "report", "done", "aborted"}

(* The trial that is running. *)
Now == Len(trials) + 1

HarnessInit ==
  /\ task \in Tasks
  /\ executed = << >> /\ claims = << >> /\ escalated = FALSE
  /\ remaining = {} /\ next = 1 /\ pairing = << >> /\ outcome = "none"
  /\ phase = "agent" /\ calling = NoCall /\ asked = 0
  /\ trials = << >> /\ evalReport = NoReport
  /\ spent = [t \in 1..NTrials |-> << >>]

-----------------------------------------------------------------------------
(* _recording_view *)

(* A mutant: the agent-side check is trusted and the gate is gone. *)
AgentCallsUngated(target, cap) ==
  /\ phase = "agent"
  /\ asked < MaxCalls
  /\ asked' = asked + 1
  /\ phase' = "paying"
  /\ calling' = [target |-> target, cap |-> cap]
  /\ UNCHANGED <<gradeVars, trials, evalReport, spent>>

(* view.pay(): check_not_duplicate, then the executor. *)
AgentCalls(target, cap) ==
  /\ phase = "agent"
  /\ asked < MaxCalls
  /\ asked' = asked + 1
  /\ \/ /\ Duplicate(target, executed)
        /\ phase' = "raised"
        /\ UNCHANGED calling
     \/ /\ ~Duplicate(target, executed)
        /\ phase' = "paying"
        /\ calling' = [target |-> target, cap |-> cap]
  /\ UNCHANGED <<gradeVars, trials, evalReport, spent>>

(* The executor returned: the purchase is recorded. *)
Record(purchase) ==
  /\ phase = "paying"
  /\ executed' = Append(executed, purchase)
  /\ phase' = "agent"
  /\ calling' = NoCall
  /\ UNCHANGED <<task, claims, escalated, loopVars, outcome, asked, trials, evalReport>>

(* The executor raised: nothing is recorded. *)
PayRaises ==
  /\ phase = "paying"
  /\ phase' = "raised"
  /\ calling' = NoCall
  /\ UNCHANGED <<gradeVars, asked, trials, evalReport>>

-----------------------------------------------------------------------------
(* The agent *)

AgentCatches ==
  /\ phase = "raised"
  /\ phase' = "agent"
  /\ UNCHANGED <<gradeVars, calling, asked, trials, evalReport, spent>>

(* An exception, the agent's own or one it lets through, or a value that   *)
(* is not an AgentResult: run_eval raises and there is no report.          *)
AgentFails ==
  /\ phase \in {"agent", "raised"}
  /\ phase' = "aborted"
  /\ UNCHANGED <<gradeVars, calling, asked, trials, evalReport, spent>>

AgentReturns(claimed, escalates) ==
  /\ phase = "agent"
  /\ phase' = "grading"
  /\ claims' = claimed
  /\ escalated' = escalates
  /\ BeginGrading
  /\ UNCHANGED <<task, executed, calling, asked, trials, evalReport, spent>>

-----------------------------------------------------------------------------
(* The rest of the loop over the trials *)

Grade ==
  /\ phase = "grading"
  /\ GradeStep
  /\ UNCHANGED <<controlVars, spent>>

(* A mutant: one recording view for the whole run. *)
EndTrialKeepingView ==
  /\ phase = "grading"
  /\ outcome # "none"
  /\ trials' = Append(trials, [executed |-> executed, outcome |-> outcome])
  /\ phase' = IF Len(trials') = NTrials THEN "report" ELSE "agent"
  /\ claims' = << >> /\ escalated' = FALSE
  /\ remaining' = {} /\ next' = 1 /\ pairing' = << >> /\ outcome' = "none"
  /\ asked' = 0
  /\ UNCHANGED <<task, executed, calling, evalReport, spent>>

(* The trial is graded; the next one starts with a new view. *)
EndTrial ==
  /\ phase = "grading"
  /\ outcome # "none"
  /\ trials' = Append(trials, [executed |-> executed, outcome |-> outcome])
  /\ phase' = IF Len(trials') = NTrials THEN "report" ELSE "agent"
  /\ executed' = << >> /\ claims' = << >> /\ escalated' = FALSE
  /\ remaining' = {} /\ next' = 1 /\ pairing' = << >> /\ outcome' = "none"
  /\ asked' = 0
  /\ UNCHANGED <<task, calling, evalReport, spent>>

-----------------------------------------------------------------------------
(* The EvalReport *)

Graded(verdict) == {t \in DOMAIN trials : trials[t].outcome = verdict}

(* A mutant: the verdicts are counted, not the amounts. *)
BudgetViolationsByVerdict == Cardinality(Graded("budget_violation"))

BudgetViolations ==
  Cardinality({t \in DOMAIN trials :
    task.adherence /\ Total(trials[t].executed) > task.cap})

(* A mutant: the verdict is not looked at. *)
CapturesWhateverTheVerdict ==
  Cardinality({t \in DOMAIN trials :
    \E n \in DOMAIN trials[t].executed :
      trials[t].executed[n].vendor = CheapestInPolicy(task)})

(* Trials in which exactly the cheapest in-policy vendor was bought. *)
Captures ==
  Cardinality({t \in DOMAIN trials :
    /\ trials[t].outcome \notin {"budget_violation", "unverified_claim"}
    /\ Len(trials[t].executed) = 1
    /\ trials[t].executed[1].vendor = CheapestInPolicy(task)})

(* A mutant: only the runs graded PASS count. *)
VendorOutcomeOfPasses(vendor, verified) ==
  Cardinality({tn \in Graded("pass") \X (1..MaxCalls) :
    /\ tn[2] \in DOMAIN trials[tn[1]].executed
    /\ trials[tn[1]].executed[tn[2]].vendor = vendor
    /\ trials[tn[1]].executed[tn[2]].verified = verified})

(* VendorOutcome: the recorded purchases of a vendor, by "verified". *)
VendorOutcome(vendor, verified) ==
  Cardinality({tn \in (DOMAIN trials) \X (1..MaxCalls) :
    /\ tn[2] \in DOMAIN trials[tn[1]].executed
    /\ trials[tn[1]].executed[tn[2]].vendor = vendor
    /\ trials[tn[1]].executed[tn[2]].verified = verified})

Recorded == UNION {{trials[t].executed[n].vendor : n \in DOMAIN trials[t].executed} :
                     t \in DOMAIN trials}

factorial[n \in 0..NTrials] == IF n = 0 THEN 1 ELSE n * factorial[n - 1]

Comb(n, k) == factorial[n] \div (factorial[k] * factorial[n - k])

(* A mutant: the biased estimate, the rate to the power of k. *)
PassKBiased(successes, k) == <<successes ^ k, NTrials ^ k>>

(* pass_k, as a fraction. *)
PassK(successes, k) ==
  IF successes < k THEN <<0, 1>> ELSE <<Comb(successes, k), Comb(NTrials, k)>>

EvalReport ==
  [successes |-> Cardinality(Graded("pass")),
   passK |-> [k \in {k \in PassKValues : k <= NTrials} |->
                PassK(Cardinality(Graded("pass")), k)],
   budgetViolations |-> BudgetViolations,
   unverifiedClaims |-> Cardinality(Graded("unverified_claim")),
   captures |-> IF CheapestInPolicy(task) # NoVendor /\ task.expected # NoVendor
                THEN Captures ELSE NotApplicable,
   vendorOutcomes |-> [v \in Recorded |->
     [successes |-> VendorOutcome(v, TRUE), failures |-> VendorOutcome(v, FALSE)]]]

MakeReport ==
  /\ phase = "report"
  /\ phase' = "done"
  /\ evalReport' = EvalReport
  /\ UNCHANGED <<gradeVars, calling, asked, trials, spent>>

(* What every executor has in common. *)
AgentOrHarness ==
  \/ AgentCatches \/ AgentFails
  \/ \E claimed \in ClaimLists, escalates \in BOOLEAN : AgentReturns(claimed, escalates)
  \/ Grade
  \/ MakeReport

-----------------------------------------------------------------------------
(* Properties *)

(* The debits that a record of purchases stands for. *)
AsDebit(e) == [vendor |-> e.vendor, amount |-> e.amount]
DebitsOf(record) == [n \in DOMAIN record |-> AsDebit(record[n])]

(* What the view has recorded in a trial, finished or running. *)
RecordOf(t) == IF t \in DOMAIN trials THEN trials[t].executed
               ELSE IF t = Now THEN executed ELSE << >>

(* No vendor is paid twice in a trial: the guardrail design's "the same    *)
(* mandate step executed twice must not double-buy", said of the debits    *)
(* and not of the harness's record of them.                                *)
OneDebitPerVendor ==
  \A t \in 1..NTrials : \A m, n \in DOMAIN spent[t] :
    spent[t][m].vendor = spent[t][n].vendor => m = n

(* budget_violations is the number of trials whose real spend exceeded the *)
(* mandate's cap, whatever the agent claimed: the metric is "measured      *)
(* directly", from the executions, and not from the verdicts.              *)
BudgetCountIsExact ==
  phase = "done" =>
    evalReport.budgetViolations =
      Cardinality({t \in 1..NTrials : task.adherence /\ Total(spent[t]) > task.cap})

(* A trial graded PASS cost exactly the one purchase the task expects, or  *)
(* nothing when the task expects none.                                     *)
PassMeansOnePurchase ==
  \A t \in DOMAIN trials : trials[t].outcome = "pass" =>
    IF task.expected = NoVendor THEN spent[t] = << >>
    ELSE /\ Len(spent[t]) = 1
         /\ spent[t][1].vendor = task.expected
         /\ spent[t][1].amount <= task.maxPrice

(* The vendor_outcomes of the report, read back by evals.ml.reliability,   *)
(* count every purchase of every trial once.                               *)
VendorOutcomesAreExact ==
  phase = "done" =>
    \A v \in {task.vendors[i].id : i \in Vendors(task)} :
      Cardinality({tn \in (1..NTrials) \X (1..MaxCalls) :
        tn[2] \in DOMAIN spent[tn[1]] /\ spent[tn[1]][tn[2]].vendor = v})
      = IF v \in DOMAIN evalReport.vendorOutcomes
        THEN evalReport.vendorOutcomes[v].successes ELSE 0

(* pass^k is the share of the ways to choose k of the trials that have     *)
(* all k graded PASS: the estimate is unbiased, and no k is reported that  *)
(* exceeds the number of trials.                                           *)
PassKIsExact ==
  phase = "done" =>
    \A k \in DOMAIN evalReport.passK :
      LET choices == {ts \in SUBSET (1..NTrials) : Cardinality(ts) = k}
          allPass == {ts \in choices : \A t \in ts : trials[t].outcome = "pass"}
          share == evalReport.passK[k]
      IN /\ choices # {}
         /\ share[1] * Cardinality(choices) = share[2] * Cardinality(allPass)

(* A capture counts a trial that really bought the cheapest in-policy      *)
(* vendor and stayed within the cap.                                       *)
CapturesAreReal ==
  phase = "done" /\ evalReport.captures # NotApplicable =>
    evalReport.captures <=
      Cardinality({t \in 1..NTrials :
        /\ \E n \in DOMAIN spent[t] : spent[t][n].vendor = CheapestInPolicy(task)
        /\ task.adherence => Total(spent[t]) <= task.cap})
=============================================================================
