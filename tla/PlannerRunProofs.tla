--------------------------- MODULE PlannerRunProofs ---------------------------
(***************************************************************************)
(* Proofs about the planner: whatever its language model answers, whatever *)
(* sellers and facilitators do, for any tasks and numbers of trials and    *)
(* calls.                                                                  *)
(***************************************************************************)
EXTENDS PlannerRun, HarnessProofs

(* What check_purchase lets through. *)
Allowed(i) == i \in Candidates(task) /\ ~Anomalous(task, i)

(* The planner calls pay() once in a trial, on an entry that is allowed.   *)
PlannerCalls ==
  /\ asked <= 1
  /\ phase = "agent" => Len(executed) = asked
  /\ phase = "paying" =>
       \E i \in Vendors(task) :
         Allowed(i) /\ calling = [target |-> TargetOf(i), cap |-> task.cap]

(* A record of at most one purchase, within the mandate. *)
Small(record) ==
  /\ Len(record) <= 1
  /\ \A n \in DOMAIN record : record[n].amount <= task.cap

(* Every trial buys little and reports what it buys. *)
HonestInv ==
  /\ Small(executed)
  /\ outcome \in {"none", "pass", "fail"}
  /\ \A t \in DOMAIN trials :
       Small(trials[t].executed) /\ trials[t].outcome \in {"pass", "fail"}

(* The claim of a purchase is the purchase: grade() finds it. *)
ClaimsInv ==
  phase = "grading" =>
    \/ claims = << >> /\ next = 1
    \/ /\ Len(claims) = 1 /\ Len(executed) = 1
       /\ claims[1] = [vendor |-> executed[1].vendor, amount |-> executed[1].amount]
       /\ (next = 1 /\ remaining = DOMAIN executed) \/ next = 2

OneAmount(s) == s = {} \/ \E a \in 0..CallCap : s = {a}

(* What a call of pay() keeps; on synthetic tasks there is none. *)
PromiseInv ==
  /\ OneAmount(agreed) /\ OneAmount(authorized) /\ OneAmount(moved)
  /\ moved = {} \/ moved = authorized
  /\ authorized # {} => agreed # {}
  /\ report \in {"pending", "refused", "paid", "unresolved"}
  /\ report = "refused" => authorized = {}
  /\ report = "paid" => moved # {}
  /\ Synthetic => authorized = {} /\ moved = {} /\ outstanding = {}

(* The purchase that the live call in progress has paid for. *)
Paid(a) == [vendor |-> Live!VendorOf(calling.target), url |-> calling.target,
            amount |-> a, verified |-> TRUE]

(* What a trial has paid, if no call has raised. *)
Owed(t) ==
  IF t = Now /\ phase = "paying" /\ moved # {}
  THEN Append(executed, Paid(CHOOSE a \in moved : TRUE))
  ELSE RecordOf(t)

(* As long as no call has raised, nothing else was paid: an authorization  *)
(* that is left behind is left by a run that goes on only to end.          *)
ExactInv ==
  /\ DOMAIN spent = 1..NTrials
  /\ phase \notin {"raised", "aborted"} =>
       outstanding = {} /\ \A t \in 1..NTrials : spent[t] = DebitsOf(Owed(t))

IInv == HarnessInv /\ PlannerCalls /\ HonestInv /\ ClaimsInv /\ PromiseInv /\ ExactInv

-----------------------------------------------------------------------------
(* What is picked *)

LEMMA CatalogProperties ==
  ASSUME HarnessInv
  PROVE  /\ task \in Tasks /\ task.cap \in Nat
         /\ Len(task.vendors) \in Nat /\ Vendors(task) = 1..Len(task.vendors)
         /\ \A i \in Vendors(task) : task.vendors[i].price \in Nat
BY TaskAssumption DEF HarnessInv, PhaseInv, Vendors

(* The first entry that a target may stand for is one of them. *)
LEMMA ChosenIsOffered ==
  ASSUME HarnessInv, NEW target, Offered(task, target) # {}
  PROVE  Chosen(task, target) \in Offered(task, target)
<1> DEFINE S == Offered(task, target)
<1>1. S \subseteq Nat /\ S # {}
  BY CatalogProperties DEF Offered, Candidates
<1> HIDE DEF S
<1>2. \E m \in S : \A n \in S : m <= n
  BY <1>1, LeastNumber
<1>3. (CHOOSE m \in S : \A n \in S : m <= n) \in S
  BY <1>2
<1> QED
  BY <1>3 DEF Chosen, S

LEMMA EmptyRecord ==
  ASSUME NEW s, IsList(s), Len(s) = 0
  PROVE  s = << >>
BY EmptyList, ListsEqual

LEMMA SmallTotal ==
  ASSUME HarnessInv, NEW s, Genuine(s), Small(s)
  PROVE  ~Over(s)
<1>1. Len(s) \in Nat /\ DOMAIN s = 1..Len(s) /\ task.cap \in Nat
  BY ListProperties, CatalogProperties DEF Genuine
<1>2. /\ Total(s) \in Nat
      /\ Len(s) = 0 => Total(s) = 0
      /\ Len(s) = 1 => Total(s) = s[1].amount
  BY TotalIsANumber
<1>3. CASE Len(s) = 0
  BY <1>1, <1>2, <1>3 DEF Over
<1>4. CASE Len(s) = 1
  BY <1>1, <1>2, <1>4 DEF Over, Small
<1> QED
  BY <1>1, <1>3, <1>4 DEF Small

-----------------------------------------------------------------------------
(* The steps, in terms of the harness *)

LEMMA SameOwed ==
  ASSUME UNCHANGED <<task, executed, trials, calling, phase, moved>>, NEW t
  PROVE  Owed(t)' = Owed(t)
BY DEF Owed, Now, RecordOf, Paid, Live!VendorOf, Live!Vendors

LEMMA PromiseKeeps ==
  ASSUME PromiseInv, UNCHANGED <<task, liveVars>>
  PROVE  PromiseInv'
BY DEF PromiseInv, OneAmount, liveVars, Synthetic

LEMMA HonestKeeps ==
  ASSUME HonestInv, UNCHANGED <<task, executed, outcome, trials>>
  PROVE  HonestInv'
BY DEF HonestInv, Small

(* The program, or run_eval, stops with an exception. *)
LEMMA StopsIInv ==
  ASSUME IInv, phase \in {"agent", "raised"}, phase' = "aborted",
         UNCHANGED <<gradeVars, calling, asked, trials, evalReport, spent, liveVars>>
  PROVE  IInv'
<1>1. UNCHANGED <<task, executed, outcome, asked, trials, evalReport, claims>>
  BY DEF gradeVars, inputVars
<1>2. HarnessInv'
  BY <1>1, AgentFailsKeeps DEF IInv
<1>3. PlannerCalls' /\ HonestInv' /\ ClaimsInv' /\ PromiseInv' /\ ExactInv'
  BY <1>1, HonestKeeps, PromiseKeeps DEF IInv, PlannerCalls, ClaimsInv, ExactInv
<1> QED
  BY <1>2, <1>3 DEF IInv

(* The planner returns an escalation, or the claim of what it has bought.  *)
LEMMA ReturnsIInv ==
  ASSUME IInv, NEW escalates, NEW claimed, AgentReturns(claimed, escalates),
         UNCHANGED liveVars,
         \/ claimed = << >>
         \/ /\ executed # << >>
            /\ claimed = <<[vendor |-> executed[1].vendor, amount |-> executed[1].amount]>>
  PROVE  IInv'
<1>1. /\ UNCHANGED <<task, executed, trials, asked, calling, spent>>
      /\ phase = "agent" /\ phase' = "grading" /\ claims' = claimed
      /\ remaining' = DOMAIN executed /\ next' = 1 /\ outcome' = "none"
  BY DEF AgentReturns, BeginGrading
<1>2. HarnessInv'
  BY AgentReturnsKeeps DEF IInv
<1>3. PlannerCalls' /\ HonestInv' /\ PromiseInv'
  BY <1>1, PromiseKeeps DEF IInv, PlannerCalls, HonestInv, Small
<1>4. ClaimsInv'
  <2>1. CASE claimed = << >>
    BY <1>1, <2>1 DEF ClaimsInv
  <2>2. CASE /\ executed # << >>
             /\ claimed = <<[vendor |-> executed[1].vendor, amount |-> executed[1].amount]>>
    <3>1. Len(executed) = 1
      BY <2>2, Numbers, EmptyRecord
      DEF IInv, HarnessInv, RunningInv, Genuine, HonestInv, Small
    <3> QED
      BY <1>1, <2>2, <3>1 DEF ClaimsInv
  <2> QED
    BY <2>1, <2>2
<1>5. ExactInv'
  <2>1. \A t : Owed(t)' = Owed(t)
    BY <1>1, SameRecords DEF Owed
  <2> QED
    BY <1>1, <2>1 DEF IInv, ExactInv, liveVars, DebitsOf, AsDebit
<1> QED
  BY <1>2, <1>3, <1>4, <1>5 DEF IInv

(* grade() finds the claim of the planner backed, and the record small.    *)
LEMMA GradeIInv ==
  ASSUME IInv, Grade, UNCHANGED liveVars
  PROVE  IInv'
<1>1. /\ UNCHANGED <<task, executed, claims, phase, asked, trials, calling, spent>>
      /\ phase = "grading" /\ outcome = "none"
  BY DEF Grade, GradeStep, PairClaim, RejectClaim, GradeTerminal, inputVars, controlVars
<1>2. HarnessInv'
  BY GradeKeeps DEF IInv
<1>3. /\ claims = << >> => Len(claims) = 0
      /\ Len(claims) = 1 /\ next = 1 /\ Len(executed) = 1 /\ remaining = DOMAIN executed
           /\ claims[1] = [vendor |-> executed[1].vendor, amount |-> executed[1].amount]
         => Matching # {}
  <2>1. claims = << >> => Len(claims) = 0
    BY EmptyList
  <2>2. ASSUME Len(claims) = 1, next = 1, Len(executed) = 1, remaining = DOMAIN executed,
               claims[1] = [vendor |-> executed[1].vendor, amount |-> executed[1].amount]
        PROVE  Matching # {}
    <3>1. 1 \in remaining /\ executed[1].verified = TRUE /\ executed[1].amount \in Nat
      BY <2>2, Numbers DEF IInv, HarnessInv, RunningInv, Genuine
    <3>2. claims[next].vendor = executed[1].vendor /\ claims[next].amount = executed[1].amount
      BY <2>2
    <3>3. Backs(executed[1], claims[next])
      BY <3>1, <3>2 DEF Backs, Tol
    <3> QED
      BY <3>1, <3>3 DEF Matching
  <2> QED
    BY <2>1, <2>2
<1>4. ~Over(executed)
  BY SmallTotal DEF IInv, HarnessInv, RunningInv, HonestInv
<1>5. CASE PairClaim
  <2>1. outcome' = "none" /\ next' = next + 1 /\ next <= Len(claims)
    BY <1>1, <1>5 DEF PairClaim
  <2>2. ClaimsInv'
    <3>1. CASE claims = << >> /\ next = 1
      BY <1>3, <2>1, <3>1
    <3>2. CASE Len(claims) = 1 /\ next \in {1, 2}
      <4>1. next' = 2
        BY <2>1, <3>2
      <4> QED
        BY <1>1, <3>2, <4>1, EmptyList DEF IInv, ClaimsInv
    <3> QED
      BY <1>1, <3>1, <3>2 DEF IInv, ClaimsInv
  <2>3. HonestInv'
    BY <1>1, <2>1, HonestKeeps DEF IInv
  <2> QED
    BY <1>1, <1>2, <2>2, <2>3, PromiseKeeps, SameRecords
    DEF IInv, PlannerCalls, ExactInv, Owed, liveVars, DebitsOf, AsDebit
<1>6. CASE RejectClaim
  <2>1. next <= Len(claims) /\ Matching = {}
    BY <1>6 DEF RejectClaim
  <2>2. ~(claims = << >> /\ next = 1) /\ ~(Len(claims) = 1 /\ next = 2)
    BY <1>3, <2>1
  <2> QED
    BY <1>1, <1>3, <2>1, <2>2 DEF IInv, ClaimsInv
<1>7. CASE GradeTerminal
  <2>1. outcome' \in {"pass", "fail"} /\ UNCHANGED <<next, remaining>>
    BY <1>4, <1>7 DEF GradeTerminal, OverBudget, Over, loopVars
  <2>2. HonestInv'
    BY <1>1, <2>1 DEF IInv, HonestInv, Small
  <2>3. ClaimsInv'
    BY <1>1, <2>1 DEF IInv, ClaimsInv
  <2> QED
    BY <1>1, <1>2, <2>2, <2>3, PromiseKeeps, SameRecords
    DEF IInv, PlannerCalls, ExactInv, Owed, liveVars, DebitsOf, AsDebit
<1> QED
  BY <1>5, <1>6, <1>7 DEF Grade, GradeStep

(* The report is made, or the trial ends. *)
LEMMA ReportIInv ==
  ASSUME IInv, MakeReport, UNCHANGED liveVars
  PROVE  IInv'
<1>1. /\ UNCHANGED <<task, executed, outcome, asked, trials, calling, spent>>
      /\ phase = "report" /\ phase' = "done"
  BY DEF MakeReport, gradeVars, inputVars
<1>2. HarnessInv'
  BY MakeReportKeeps DEF IInv
<1> QED
  BY <1>1, <1>2, HonestKeeps, PromiseKeeps, SameRecords
  DEF IInv, PlannerCalls, ClaimsInv, ExactInv, Owed, liveVars, DebitsOf, AsDebit

LEMMA EndTrialIInv ==
  ASSUME IInv, EndTrial, UNCHANGED liveVars
  PROVE  IInv'
<1> DEFINE trial == [executed |-> executed, outcome |-> outcome]
<1>1. /\ UNCHANGED <<task, calling, spent>> /\ asked' = 0
      /\ phase = "grading" /\ phase' \in {"report", "agent"}
      /\ executed' = << >> /\ outcome # "none" /\ outcome' = "none"
      /\ trials' = Append(trials, trial)
  BY DEF EndTrial
<1>2. HarnessInv'
  BY EndTrialKeeps DEF IInv
<1>3. PlannerCalls'
  BY <1>1, EmptyList DEF PlannerCalls
<1>4. HonestInv'
  <2>1. /\ DOMAIN trials' = 1..(Len(trials) + 1) /\ DOMAIN trials = 1..Len(trials)
        /\ trials'[Len(trials) + 1] = trial
        /\ \A i \in 1..Len(trials) : trials'[i] = trials[i]
    BY <1>1, ListAppend, Numbers DEF IInv, HarnessInv, PhaseInv
  <2>2. trial.executed = executed /\ trial.outcome = outcome
    OBVIOUS
  <2> HIDE DEF trial
  <2>3. \A t \in DOMAIN trials' : t \in DOMAIN trials \/ t = Len(trials) + 1
    BY <2>1, Numbers DEF IInv
  <2>4. \A t \in DOMAIN trials' :
          Small(trials'[t].executed) /\ trials'[t].outcome \in {"pass", "fail"}
    BY <1>1, <2>1, <2>2, <2>3 DEF IInv, HonestInv
  <2>5. \A r : Small(r)' <=> Small(r)
    BY <1>1 DEF Small
  <2>6. Small(executed')
    BY <1>1, EmptyList DEF Small
  <2> QED
    BY <1>1, <2>4, <2>6 DEF HonestInv, Small
<1>5. ClaimsInv' /\ PromiseInv'
  BY <1>1, PromiseKeeps DEF IInv, ClaimsInv
<1>6. ExactInv'
  <2>1. \A t \in 1..NTrials : Owed(t)' = Owed(t)
    BY <1>1, EndTrialRecords DEF Owed, IInv
  <2> QED
    BY <1>1, <2>1 DEF IInv, ExactInv, liveVars, DebitsOf, AsDebit
<1> QED
  BY <1>2, <1>3, <1>4, <1>5, <1>6 DEF IInv

(* pay() is called on a pick that is allowed: nothing is recorded yet, so  *)
(* the gate lets it through, and the call starts afresh.                   *)
LEMMA BuysIInv ==
  ASSUME IInv, NEW i \in Vendors(task), Allowed(i), asked = 0,
         AgentCalls(TargetOf(i), task.cap),
         \/ Synthetic /\ UNCHANGED liveVars
         \/ /\ ~Synthetic
            /\ agreed' = {} /\ authorized' = {} /\ moved' = {} /\ report' = "pending"
            /\ UNCHANGED <<outstanding, unresolved>>
  PROVE  IInv'
<1>1. /\ UNCHANGED <<task, executed, outcome, trials, spent>>
      /\ phase = "agent" /\ asked' = 1 /\ phase' \in {"paying", "raised"}
  BY DEF AgentCalls, gradeVars, inputVars
<1>2. executed = << >>
  BY <1>1, EmptyRecord DEF IInv, PlannerCalls, HarnessInv, RunningInv, Genuine
<1>3. phase' = "paying" /\ calling' = [target |-> TargetOf(i), cap |-> task.cap]
  BY <1>2, EmptyList DEF AgentCalls, Duplicate
<1>4. HarnessInv'
  BY AgentCallsKeeps DEF IInv
<1>5. PlannerCalls'
  BY <1>1, <1>3 DEF PlannerCalls, Allowed, Candidates, InPolicy, Anomalous, TargetOf, Vendors
<1>6. HonestInv' /\ ClaimsInv'
  BY <1>1, <1>3, HonestKeeps DEF IInv, ClaimsInv
<1>7. PromiseInv'
  <2>1. CASE Synthetic
    BY <1>1, <2>1, PromiseKeeps DEF IInv
  <2>2. CASE ~Synthetic
    BY <1>1, <2>2 DEF IInv, PromiseInv, OneAmount, Synthetic
  <2> QED
    BY <2>1, <2>2
<1>8. ExactInv'
  <2>1. outstanding = {} /\ outstanding' = {}
    BY <1>1 DEF IInv, ExactInv, liveVars
  <2>2. ASSUME NEW t \in 1..NTrials
        PROVE  DebitsOf(Owed(t))' = DebitsOf(Owed(t))
    <3>1. Owed(t) = RecordOf(t) /\ RecordOf(t)' = RecordOf(t)
      BY <1>1, SameRecords DEF Owed
    <3>2. moved' = {}
      BY DEF IInv, PromiseInv, liveVars
    <3> QED
      BY <3>1, <3>2 DEF Owed, DebitsOf, AsDebit
  <2> QED
    BY <1>1, <2>1, <2>2 DEF IInv, ExactInv
<1> QED
  BY <1>4, <1>5, <1>6, <1>7, <1>8 DEF IInv

-----------------------------------------------------------------------------
(* The executors, in terms of the harness *)

Sold(i) == [vendor |-> task.vendors[i].id, url |-> NoVendor,
            amount |-> task.vendors[i].price, verified |-> TRUE]

(* A simulated call raises, or sells an entry with the id it was asked for *)
(* whose price is within the limit it was given.                           *)
LEMMA SyntheticEffects ==
  ASSUME HarnessInv, Syn!PayStep
  PROVE  \/ PayRaises /\ UNCHANGED spent
         \/ \E i \in Vendors(task) :
              /\ task.vendors[i].id = calling.target
              /\ task.vendors[i].price <= calling.cap
              /\ Record(Sold(i))
              /\ spent' = [spent EXCEPT ![Now] = Append(@, AsDebit(Sold(i)))]
<1>1. CASE Syn!SyntheticRefuses \/ Syn!SyntheticRejects
  BY <1>1 DEF Syn!SyntheticRefuses, Syn!SyntheticRejects, Syn!PayRaises, PayRaises,
     Syn!gradeVars, Syn!inputVars, Syn!loopVars, gradeVars, inputVars, loopVars
<1>2. CASE Syn!SyntheticPays
  <2> DEFINE found == {i \in Vendors(task) : task.vendors[i].id = calling.target}
             last == CHOOSE i \in Vendors(task) :
                       /\ task.vendors[i].id = calling.target
                       /\ \A j \in Vendors(task) :
                            task.vendors[j].id = calling.target => j <= i
  <2>1. calling.target \in {task.vendors[i].id : i \in Vendors(task)}
    BY <1>2 DEF Syn!SyntheticPays, Syn!Attempted, Syn!Ids, Syn!Vendors, Vendors
  <2>2. found # {} /\ found \subseteq 1..Len(task.vendors) /\ Len(task.vendors) \in Nat
    BY <2>1, CatalogProperties
  <2>3. PICK i \in found : \A j \in found : j <= i
    <3> HIDE DEF found
    <3> QED
      BY <2>2, LastIndex
  <2>4. last \in Vendors(task) /\ task.vendors[last].id = calling.target
    <3>1. \E k \in Vendors(task) :
            /\ task.vendors[k].id = calling.target
            /\ \A j \in Vendors(task) : task.vendors[j].id = calling.target => j <= k
      BY <2>3
    <3> QED
      BY <3>1
  <2>5. Syn!ById(calling.target) = task.vendors[last]
    BY DEF Syn!ById, Syn!Vendors, Vendors
  <2> HIDE DEF last
  <2>6. /\ task.vendors[last].price <= calling.cap
        /\ Syn!Record(Sold(last))
        /\ spent' = [spent EXCEPT ![Syn!Now] =
             Append(@, [vendor |-> task.vendors[last].id, amount |-> task.vendors[last].price])]
    BY <1>2, <2>5 DEF Syn!SyntheticPays, Syn!Attempted, Sold
  <2>7. AsDebit(Sold(last))
          = [vendor |-> task.vendors[last].id, amount |-> task.vendors[last].price]
    BY DEF AsDebit, Sold
  <2>8. Record(Sold(last))
    BY <2>6 DEF Syn!Record, Record, Syn!loopVars, loopVars
  <2>9. spent' = [spent EXCEPT ![Now] = Append(@, AsDebit(Sold(last)))]
    BY <2>6, <2>7 DEF Syn!Now, Now
  <2> QED
    BY <2>4, <2>6, <2>8, <2>9
<1> QED
  BY <1>1, <1>2 DEF Syn!PayStep

(* A call raises, on either executor: the run can only end. *)
LEMMA RaisesIInv ==
  ASSUME IInv, PayRaises, UNCHANGED spent, UNCHANGED <<agreed, authorized, moved, report>>,
         Synthetic => UNCHANGED outstanding
  PROVE  IInv'
<1>1. /\ UNCHANGED <<task, executed, outcome, asked, trials>>
      /\ phase' = "raised"
  BY DEF PayRaises, gradeVars, inputVars
<1>2. HarnessInv'
  BY PayRaisesKeeps DEF IInv
<1>3. PlannerCalls' /\ HonestInv' /\ ClaimsInv' /\ ExactInv'
  BY <1>1, HonestKeeps DEF IInv, PlannerCalls, ClaimsInv, ExactInv
<1>4. PromiseInv'
  BY <1>1 DEF IInv, PromiseInv, OneAmount, Synthetic
<1> QED
  BY <1>2, <1>3, <1>4 DEF IInv

(* A call returns: what it has paid is owed, and is recorded. *)
LEMMA RecordsIInv ==
  ASSUME IInv, NEW p, Record(p), p.amount \in Nat, p.amount <= task.cap, p.verified = TRUE,
         UNCHANGED liveVars, DOMAIN spent' = 1..NTrials,
         \A t \in 1..NTrials :
           spent'[t] = IF t = Now THEN DebitsOf(Append(executed, p)) ELSE spent[t]
  PROVE  IInv'
<1>1. /\ UNCHANGED <<task, outcome, asked, trials>>
      /\ phase = "paying" /\ phase' = "agent" /\ executed' = Append(executed, p)
  BY DEF Record
<1>2. executed = << >> /\ Len(executed) = 0 /\ asked = 1
  <2>1. Len(executed) < asked /\ asked <= 1 /\ Len(executed) \in Nat /\ asked \in Nat
    BY <1>1, Numbers DEF IInv, HarnessInv, CallInv, PlannerCalls
  <2>2. Len(executed) = 0 /\ asked = 1
    BY <2>1
  <2> QED
    BY <2>2, EmptyRecord DEF IInv, HarnessInv, RunningInv, Genuine
<1>3. Len(executed') = 1 /\ DOMAIN executed' = 1..1 /\ executed'[1] = p
  BY <1>1, <1>2, ListAppend DEF IInv, HarnessInv, RunningInv, Genuine
<1>4. HarnessInv'
  BY RecordKeeps DEF IInv
<1>5. PlannerCalls' /\ ClaimsInv'
  BY <1>1, <1>2, <1>3 DEF PlannerCalls, ClaimsInv
<1>6. HonestInv'
  BY <1>1, <1>3 DEF IInv, HonestInv, Small
<1>7. PromiseInv'
  BY <1>1, PromiseKeeps DEF IInv
<1>8. ExactInv'
  <2>1. outstanding' = {}
    BY <1>1 DEF IInv, ExactInv, liveVars
  <2>2. ASSUME NEW t \in 1..NTrials PROVE spent'[t] = DebitsOf(Owed(t)')
    <3>1. Owed(t)' = IF t = Now THEN Append(executed, p) ELSE RecordOf(t)
      BY <1>1, RecordRecords DEF Owed, IInv
    <3>2. t # Now => Owed(t) = RecordOf(t)
      BY DEF Owed
    <3>3. spent[t] = DebitsOf(Owed(t))
      BY <1>1 DEF IInv, ExactInv
    <3> QED
      BY <3>1, <3>2, <3>3
  <2> QED
    BY <2>1, <2>2 DEF ExactInv, DebitsOf, AsDebit
<1> QED
  BY <1>4, <1>5, <1>6, <1>7, <1>8 DEF IInv

LEMMA SyntheticPaysIInv ==
  ASSUME IInv, Synthetic, Syn!PayStep, UNCHANGED liveVars
  PROVE  IInv'
<1>1. CASE PayRaises /\ UNCHANGED spent
  BY <1>1, RaisesIInv DEF liveVars
<1>2. CASE \E i \in Vendors(task) :
             /\ task.vendors[i].id = calling.target
             /\ task.vendors[i].price <= calling.cap
             /\ Record(Sold(i))
             /\ spent' = [spent EXCEPT ![Now] = Append(@, AsDebit(Sold(i)))]
  <2>1. PICK i \in Vendors(task) :
          /\ task.vendors[i].price <= calling.cap
          /\ Record(Sold(i))
          /\ spent' = [spent EXCEPT ![Now] = Append(@, AsDebit(Sold(i)))]
    BY <1>2
  <2>2. phase = "paying"
    BY <2>1 DEF Record
  <2>3. calling.cap = task.cap
    BY <2>2 DEF IInv, PlannerCalls
  <2>4. /\ Sold(i).amount \in Nat /\ Sold(i).amount <= task.cap /\ Sold(i).verified = TRUE
    BY <2>1, <2>3, CatalogProperties DEF Sold, IInv
  <2>5. /\ Now \in 1..NTrials /\ RecordOf(Now) = executed /\ IsList(executed)
        /\ DOMAIN spent = 1..NTrials
    BY <2>2, NowIsATrial DEF IInv, HarnessInv, RunningInv, Genuine, ExactInv
  <2>6. spent[Now] = DebitsOf(executed)
    BY <2>2, <2>5 DEF IInv, ExactInv, PromiseInv, Owed
  <2>7. DebitsOf(Append(executed, Sold(i))) = Append(DebitsOf(executed), AsDebit(Sold(i)))
    BY <2>5, DebitsAppend
  <2>8. /\ DOMAIN spent' = 1..NTrials
        /\ \A t \in 1..NTrials :
             spent'[t] = IF t = Now THEN DebitsOf(Append(executed, Sold(i))) ELSE spent[t]
    BY <2>1, <2>5, <2>6, <2>7
  <2> QED
    BY <2>1, <2>4, <2>8, RecordsIInv
<1> QED
  BY <1>1, <1>2, SyntheticEffects DEF IInv

(* A step of a live call that moves nothing. *)
LEMMA LivePaysIInv ==
  ASSUME IInv, ~Synthetic, Live!LivePays
  PROVE  IInv'
<1>1. /\ UNCHANGED <<gradeVars, controlVars>>
      /\ UNCHANGED <<spent, moved, outstanding, unresolved>>
  BY DEF Live!LivePays, Live!Call!Agree, Live!Call!Authorize, Live!Call!Refuse,
     Live!Call!Confirm, Live!Call!GiveUp, Live!harnessVars, Live!gradeVars, Live!inputVars,
     Live!loopVars, Live!controlVars, gradeVars, inputVars, loopVars, controlVars
<1>2. UNCHANGED <<task, executed, outcome, claims, next, remaining, asked, trials, calling, phase>>
  BY <1>1 DEF gradeVars, inputVars, loopVars, controlVars
<1>3. HarnessInv'
  BY <1>1, HarnessStutters DEF IInv
<1>4. PlannerCalls' /\ HonestInv' /\ ClaimsInv'
  BY <1>2, HonestKeeps
  DEF IInv, PlannerCalls, ClaimsInv, Allowed, Candidates, InPolicy, Anomalous, TargetOf, Vendors
<1>5. PromiseInv'
  <2>1. ASSUME NEW p \in 0..CallCap, Live!Call!Agree(p)
        PROVE  PromiseInv'
    BY <2>1, <1>1, <1>2 DEF Live!Call!Agree, IInv, PromiseInv, OneAmount, Synthetic
  <2>2. ASSUME NEW a \in 0..CallCap, Live!Call!Authorize(a)
        PROVE  PromiseInv'
    BY <2>2, <1>1, <1>2 DEF Live!Call!Authorize, IInv, PromiseInv, OneAmount, Synthetic
  <2>3. CASE Live!Call!Refuse \/ Live!Call!Confirm \/ Live!Call!GiveUp
    BY <2>3, <1>1, <1>2 DEF Live!Call!Refuse, Live!Call!Confirm, Live!Call!GiveUp,
       IInv, PromiseInv, OneAmount, Synthetic
  <2> QED
    BY <2>1, <2>2, <2>3 DEF Live!LivePays
<1>6. ExactInv'
  BY <1>1, <1>2, SameOwed DEF IInv, ExactInv, DebitsOf, AsDebit
<1> QED
  BY <1>3, <1>4, <1>5, <1>6 DEF IInv

(* The steps that move money, in terms of the harness. *)
LEMMA RedeemEffects ==
  ASSUME IInv, Live!LiveRedeem
  PROVE  /\ phase = "paying" /\ moved = {} /\ moved' = authorized
         /\ UNCHANGED <<gradeVars, controlVars>>
         /\ UNCHANGED <<agreed, authorized, report, outstanding, unresolved>>
         /\ \E a \in 0..CallCap :
              /\ authorized = {a}
              /\ spent' = [spent EXCEPT ![Now] = Append(@, AsDebit(Paid(a)))]
<1>1. /\ phase = "paying" /\ moved = {} /\ moved' = authorized /\ authorized # {}
      /\ UNCHANGED <<gradeVars, controlVars>>
      /\ UNCHANGED <<agreed, authorized, report, outstanding, unresolved>>
  BY DEF Live!LiveRedeem, Live!Call!Redeem, Live!gradeVars, Live!inputVars, Live!loopVars,
     Live!controlVars, gradeVars, inputVars, loopVars, controlVars
<1>2. PICK a \in authorized : Live!Debit(Live!Now, calling.target, a)
  BY DEF Live!LiveRedeem
<1>3. authorized = {a} /\ a \in 0..CallCap
  BY <1>1 DEF IInv, PromiseInv, OneAmount
<1>4. AsDebit(Paid(a)) = [vendor |-> Live!VendorOf(calling.target), amount |-> a]
  BY DEF AsDebit, Paid
<1>5. spent' = [spent EXCEPT ![Now] = Append(@, AsDebit(Paid(a)))]
  BY <1>2, <1>4 DEF Live!Debit, Live!Now, Now
<1> QED
  BY <1>1, <1>3, <1>5

LEMMA LateEffects ==
  ASSUME Live!LateRedeem
  PROVE  /\ UNCHANGED <<gradeVars, controlVars>>
         /\ UNCHANGED <<agreed, authorized, moved, report>>
         /\ \E left \in outstanding :
              /\ outstanding' = outstanding \ {left}
              /\ spent' = [spent EXCEPT ![left.trial] = Append(@,
                   [vendor |-> Live!VendorOf(left.target), amount |-> left.amount])]
BY DEF Live!LateRedeem, Live!Debit, Live!gradeVars, Live!inputVars, Live!loopVars,
   Live!controlVars, Live!callVars, gradeVars, inputVars, loopVars, controlVars

LEMMA ReturnEffects ==
  ASSUME IInv, Live!LiveReturns
  PROVE  \E a \in 0..CallCap :
           moved = {a} /\ Record(Paid(a)) /\ UNCHANGED <<spent, liveVars>>
<1>1. PICK a \in moved :
        Live!Record([vendor |-> Live!VendorOf(calling.target), url |-> calling.target,
                     amount |-> a, verified |-> TRUE])
  BY DEF Live!LiveReturns
<1>2. moved = {a} /\ a \in 0..CallCap
  BY <1>1 DEF IInv, PromiseInv, OneAmount
<1>3. Record(Paid(a))
  BY <1>1 DEF Live!Record, Record, Paid, Live!loopVars, loopVars
<1>4. UNCHANGED <<spent, liveVars>>
  BY DEF Live!LiveReturns, Live!callVars, liveVars
<1> QED
  BY <1>2, <1>3, <1>4

LEMMA RaiseEffects ==
  ASSUME Live!LiveRaises
  PROVE  /\ PayRaises /\ UNCHANGED <<spent, agreed, authorized, moved, report>>
         /\ outstanding' = outstanding \cup
              {[trial |-> Now, call |-> asked, target |-> calling.target, amount |-> a] :
                 a \in authorized \ moved}
BY DEF Live!LiveRaises, Live!PayRaises, PayRaises, Live!Now, Now, Live!callVars,
   Live!gradeVars, Live!inputVars, Live!loopVars, gradeVars, inputVars, loopVars

(* The authorization of the call is redeemed: what it paid is owed. *)
LEMMA LiveRedeemIInv ==
  ASSUME IInv, ~Synthetic, Live!LiveRedeem
  PROVE  IInv'
<1>1. /\ phase = "paying" /\ moved = {} /\ moved' = authorized
      /\ UNCHANGED <<gradeVars, controlVars>>
      /\ UNCHANGED <<agreed, authorized, report, outstanding, unresolved>>
  BY RedeemEffects
<1>2. PICK a \in 0..CallCap :
        /\ authorized = {a}
        /\ spent' = [spent EXCEPT ![Now] = Append(@, AsDebit(Paid(a)))]
  BY RedeemEffects
<1>3. UNCHANGED <<task, executed, outcome, claims, next, remaining, asked, trials, calling, phase>>
  BY <1>1 DEF gradeVars, inputVars, loopVars, controlVars
<1>4. HarnessInv'
  BY <1>1, HarnessStutters DEF IInv
<1>5. PlannerCalls' /\ HonestInv' /\ ClaimsInv'
  BY <1>3, HonestKeeps
  DEF IInv, PlannerCalls, ClaimsInv, Allowed, Candidates, InPolicy, Anomalous, TargetOf, Vendors
<1>6. PromiseInv'
  BY <1>1, <1>2, <1>3 DEF IInv, PromiseInv, OneAmount, Synthetic
<1>7. ExactInv'
  <2>1. /\ Now \in 1..NTrials /\ RecordOf(Now) = executed /\ IsList(executed)
        /\ DOMAIN spent = 1..NTrials
    BY <1>1, NowIsATrial DEF IInv, HarnessInv, RunningInv, Genuine, ExactInv
  <2>2. \A t \in 1..NTrials : Owed(t) = RecordOf(t) /\ spent[t] = DebitsOf(RecordOf(t))
    BY <1>1 DEF IInv, ExactInv, Owed
  <2>3. \A t : Owed(t)' = IF t = Now THEN Append(executed, Paid(a)) ELSE RecordOf(t)
    <3>1. (CHOOSE x \in moved' : TRUE) = a
      BY <1>1, <1>2
    <3>2. Now' = Now /\ \A t : RecordOf(t)' = RecordOf(t)
      BY <1>3, SameRecords DEF Now
    <3>3. \A x : Paid(x)' = Paid(x)
      BY <1>3 DEF Paid, Live!VendorOf, Live!Vendors
    <3>4. moved' # {} /\ phase' = "paying" /\ executed' = executed
      BY <1>1, <1>2, <1>3
    <3>5. \A t : Owed(t)' = IF t = Now THEN Append(executed, Paid(CHOOSE x \in moved' : TRUE))
                                       ELSE RecordOf(t)
      BY <3>2, <3>3, <3>4 DEF Owed
    <3>6. Paid(CHOOSE x \in moved' : TRUE) = Paid(a)
      BY <3>1
    <3> HIDE DEF Paid
    <3> QED
      BY <3>5, <3>6
  <2>4. DebitsOf(Append(executed, Paid(a))) = Append(DebitsOf(executed), AsDebit(Paid(a)))
    BY <2>1, DebitsAppend
  <2>5. \A t \in 1..NTrials : spent'[t] = DebitsOf(Owed(t)')
    BY <1>2, <2>1, <2>2, <2>3, <2>4
  <2>6. DOMAIN spent' = 1..NTrials /\ outstanding' = outstanding /\ phase' = phase
    BY <1>1, <1>2, <1>3, <2>1
  <2> QED
    BY <2>5, <2>6 DEF IInv, ExactInv, DebitsOf, AsDebit
<1> QED
  BY <1>4, <1>5, <1>6, <1>7 DEF IInv

(* A late redemption is possible only when the run is ending.              *)
LEMMA LateRedeemIInv ==
  ASSUME IInv, ~Synthetic, Live!LateRedeem
  PROVE  IInv'
<1>1. /\ UNCHANGED <<gradeVars, controlVars>>
      /\ UNCHANGED <<agreed, authorized, moved, report>>
      /\ outstanding # {} /\ DOMAIN spent' = DOMAIN spent
  BY LateEffects
<1>2. UNCHANGED <<task, executed, outcome, claims, next, remaining, asked, trials, calling, phase>>
  BY <1>1 DEF gradeVars, inputVars, loopVars, controlVars
<1>3. HarnessInv'
  BY <1>1, HarnessStutters DEF IInv
<1>4. PlannerCalls' /\ HonestInv' /\ ClaimsInv'
  BY <1>2, HonestKeeps
  DEF IInv, PlannerCalls, ClaimsInv, Allowed, Candidates, InPolicy, Anomalous, TargetOf, Vendors
<1>5. PromiseInv'
  BY <1>1, <1>2 DEF IInv, PromiseInv, OneAmount, Synthetic
<1>6. ExactInv'
  BY <1>1, <1>2 DEF IInv, ExactInv
<1> QED
  BY <1>3, <1>4, <1>5, <1>6 DEF IInv

LEMMA LiveReturnsIInv ==
  ASSUME IInv, ~Synthetic, Live!LiveReturns
  PROVE  IInv'
<1>1. PICK a \in 0..CallCap : moved = {a} /\ Record(Paid(a)) /\ UNCHANGED <<spent, liveVars>>
  BY ReturnEffects
<1>2. phase = "paying"
  BY <1>1 DEF Record
<1>3. task.cap \in Nat /\ task.cap = CallCap
  BY CatalogProperties, PlannerAssumption DEF IInv, Synthetic
<1>4. Paid(a).amount \in Nat /\ Paid(a).amount <= task.cap /\ Paid(a).verified = TRUE
  BY <1>3 DEF Paid
<1>5. ASSUME NEW t \in 1..NTrials
      PROVE  spent'[t] = IF t = Now THEN DebitsOf(Append(executed, Paid(a))) ELSE spent[t]
  <2>1. spent[t] = DebitsOf(Owed(t))
    BY <1>2 DEF IInv, ExactInv
  <2>2. (CHOOSE x \in moved : TRUE) = a
    BY <1>1
  <2>3. t = Now => Owed(t) = Append(executed, Paid(a))
    BY <1>1, <1>2, <2>2 DEF Owed
  <2> QED
    BY <1>1, <2>1, <2>3
<1>6. DOMAIN spent' = 1..NTrials
  BY <1>1 DEF IInv, ExactInv
<1> QED
  BY <1>1, <1>4, <1>5, <1>6, RecordsIInv

-----------------------------------------------------------------------------
(* The invariant is inductive *)

LEMMA InitIInv == Init => IInv
<1> SUFFICES ASSUME Init PROVE IInv
  OBVIOUS
<1>1. HarnessInit
  BY DEF Init, Syn!Init, Syn!HarnessInit, HarnessInit
<1>2. /\ executed = << >> /\ trials = << >> /\ phase = "agent" /\ asked = 0 /\ outcome = "none"
      /\ spent = [t \in 1..NTrials |-> << >>]
      /\ agreed = {} /\ authorized = {} /\ moved = {} /\ report = "pending" /\ outstanding = {}
  BY <1>1 DEF Init, HarnessInit, Live!FreshExecutor, Live!Call!Init
<1>3. HarnessInv
  BY <1>1, HarnessInitInv
<1>4. PlannerCalls /\ HonestInv /\ ClaimsInv
  BY <1>2, EmptyList DEF PlannerCalls, HonestInv, Small, ClaimsInv
<1>5. PromiseInv
  BY <1>2 DEF PromiseInv, OneAmount
<1>6. ExactInv
  <2>1. \A t : Owed(t) = << >>
    BY <1>2, EmptyList DEF Owed, RecordOf
  <2> QED
    BY <1>2, <2>1, DebitsOfNone DEF ExactInv
<1> QED
  BY <1>3, <1>4, <1>5, <1>6 DEF IInv

LEMMA AgentWorksIInv ==
  ASSUME IInv, AgentWorks
  PROVE  IInv'
<1>1. UNCHANGED liveVars
  BY DEF AgentWorks
<1>2. CASE NoCandidates \/ LlmEscalates \/ \E pick \in Targets : PickIsAnomalous(pick)
  BY <1>1, <1>2, ReturnsIInv DEF NoCandidates, LlmEscalates, PickIsAnomalous
<1>3. CASE LlmFails \/ PickIsNotOffered \/ PayRaised
  BY <1>1, <1>3, StopsIInv DEF LlmFails, PickIsNotOffered, PayRaised, AgentFails
<1>4. CASE PlannerReturns
  BY <1>1, <1>4, ReturnsIInv DEF PlannerReturns
<1>5. CASE Grade \/ MakeReport
  BY <1>1, <1>5, GradeIInv, ReportIInv
<1> QED
  BY <1>2, <1>3, <1>4, <1>5 DEF AgentWorks

(* A pick that check_purchase lets through is an entry that is allowed.    *)
LEMMA PicksAreAllowed ==
  ASSUME HarnessInv, NEW pick, PlannerBuys(pick)
  PROVE  /\ Chosen(task, pick) \in Vendors(task) /\ Allowed(Chosen(task, pick))
         /\ asked = 0 /\ Pay(TargetOf(Chosen(task, pick)))
BY ChosenIsOffered DEF PlannerBuys, LlmIsAsked, Undecided, Offered, Candidates, Allowed

LEMMA PayEffects ==
  ASSUME NEW target, Pay(target), Synthetic \/ task.cap = CallCap
  PROVE  /\ AgentCalls(target, task.cap)
         /\ \/ Synthetic /\ UNCHANGED liveVars
            \/ /\ ~Synthetic
               /\ agreed' = {} /\ authorized' = {} /\ moved' = {} /\ report' = "pending"
               /\ UNCHANGED <<outstanding, unresolved>>
BY DEF Pay, Live!LiveCall, Live!AgentCalls, AgentCalls, Live!Duplicate, Duplicate,
   Live!gradeVars, Live!inputVars, Live!loopVars, gradeVars, inputVars, loopVars

LEMMA PlannerBuysIInv ==
  ASSUME IInv, NEW pick \in Targets, PlannerBuys(pick)
  PROVE  IInv'
<1>1. Synthetic \/ task.cap = CallCap
  BY CatalogProperties, PlannerAssumption DEF IInv, Synthetic
<1>2. /\ Chosen(task, pick) \in Vendors(task) /\ Allowed(Chosen(task, pick))
      /\ asked = 0 /\ Pay(TargetOf(Chosen(task, pick)))
  BY PicksAreAllowed DEF IInv
<1> QED
  BY <1>1, <1>2, PayEffects, BuysIInv

LEMMA NextIInv == IInv /\ [Next]_vars => IInv'
<1> SUFFICES ASSUME IInv, [Next]_vars PROVE IInv'
  OBVIOUS
<1>1. CASE NoWallet
  BY <1>1, StopsIInv DEF NoWallet
<1>2. CASE AgentWorks
  BY <1>2, AgentWorksIInv
<1>3. CASE ExecutorWorks
  <2>1. CASE Live!LiveRaises
    BY <2>1, <1>3, RaiseEffects, RaisesIInv DEF ExecutorWorks, liveVars
  <2> QED
    BY <1>3, <2>1, SyntheticPaysIInv, LivePaysIInv, LiveReturnsIInv DEF ExecutorWorks
<1>4. CASE NextTrial
  <2>1. EndTrial /\ UNCHANGED liveVars
    BY <1>4 DEF NextTrial, Syn!NextTrial, Syn!EndTrial, EndTrial
  <2> QED
    BY <2>1, EndTrialIInv
<1>5. CASE \E pick \in Targets : PlannerBuys(pick)
  BY <1>5, PlannerBuysIInv
<1>6. CASE FacilitatorRedeems
  BY <1>6, LiveRedeemIInv, LateRedeemIInv DEF FacilitatorRedeems
<1>7. CASE UNCHANGED vars
  <2>1. /\ UNCHANGED <<gradeVars, controlVars>> /\ UNCHANGED <<spent, liveVars>>
        /\ UNCHANGED <<moved, outstanding>>
        /\ UNCHANGED <<task, executed, outcome, claims, next, remaining, asked, trials, calling, phase>>
    BY <1>7 DEF vars, harnessVars, gradeVars, inputVars, loopVars, controlVars, liveVars
  <2>2. HarnessInv'
    BY <2>1, HarnessStutters DEF IInv
  <2>3. PlannerCalls' /\ HonestInv' /\ ClaimsInv' /\ PromiseInv'
    BY <2>1, HonestKeeps, PromiseKeeps
    DEF IInv, PlannerCalls, ClaimsInv, Allowed, Candidates, InPolicy, Anomalous, TargetOf, Vendors
  <2>4. ExactInv'
    BY <2>1, SameOwed DEF IInv, ExactInv, DebitsOf, AsDebit
  <2> QED
    BY <2>2, <2>3, <2>4 DEF IInv
<1> QED
  BY <1>1, <1>2, <1>3, <1>4, <1>5, <1>6, <1>7 DEF Next, Program

(* Every reachable state of a run of the planner satisfies it. *)
THEOREM Invariance == Spec => []IInv
BY InitIInv, NextIInv, PTL DEF Spec

-----------------------------------------------------------------------------
(* The report *)

LEMMA ReportIsExact ==
  ASSUME IInv
  PROVE  PlannerReportIsExact
<1>1. CASE phase # "done"
  BY <1>1 DEF PlannerReportIsExact, BudgetCountIsExact, VendorOutcomesAreExact
<1>2. CASE phase = "done"
  <2>1. RecordsAreExact
    BY <1>2 DEF IInv, ExactInv, Owed, RecordsAreExact
  <2>2. BudgetCountIsExact /\ VendorOutcomesAreExact
    BY <2>1, BudgetIsCounted, VendorsAreCounted DEF IInv
  <2>3. BudgetViolations = 0
    <3>1. \A t \in DOMAIN trials : ~Over(trials[t].executed)
      BY SmallTotal DEF IInv, HarnessInv, TrialsInv, HonestInv
    <3>2. {t \in DOMAIN trials : task.adherence /\ Total(trials[t].executed) > task.cap} = {}
      BY <3>1 DEF Over
    <3> QED
      BY <3>2, FS_EmptySet DEF BudgetViolations
  <2>4. Cardinality(Graded("unverified_claim")) = 0
    <3>1. Graded("unverified_claim") = {}
      BY DEF Graded, IInv, HonestInv
    <3> QED
      BY <3>1, FS_EmptySet
  <2>5. evalReport = EvalReport
    BY <1>2 DEF IInv, HarnessInv, ReportInv
  <2>6. /\ evalReport.budgetViolations = BudgetViolations
        /\ evalReport.unverifiedClaims = Cardinality(Graded("unverified_claim"))
    BY <2>5 DEF EvalReport
  <2> QED
    BY <2>2, <2>3, <2>4, <2>6 DEF PlannerReportIsExact
<1> QED
  BY <1>1, <1>2

(* A report of the planner counts every debit, on either executor, and has *)
(* no overspend and no misreport to show: what it buys is within the cap,  *)
(* and what escapes the record ends the run.                               *)
THEOREM ReportsAreExact == Spec => []PlannerReportIsExact
BY Invariance, ReportIsExact, PTL

-----------------------------------------------------------------------------
(* The policy *)

(* No two entries of a catalog share an id, and no URL is an id.  Nothing  *)
(* in the code checks this.  Of two entries with one id check_purchase     *)
(* judges the first and the simulated executor sells the last, so that     *)
(* without it the planner may leave the policy.                            *)
ProperCatalogs ==
  \A t \in Tasks : \A i, j \in Vendors(t) :
    /\ t.vendors[i].id = t.vendors[j].id => i = j
    /\ t.vendors[i].id # t.vendors[j].url
    /\ t.vendors[i].id \notin Urls

(* A debit that the policy allows. *)
Fair(debit) ==
  \E i \in Vendors(task) :
    /\ Allowed(i)
    /\ debit.vendor = task.vendors[i].id
    /\ IF Synthetic THEN debit.amount = task.vendors[i].price ELSE debit.amount <= task.cap

DebitsAreFair ==
  \A t \in 1..NTrials :
    IsList(spent[t]) /\ \A n \in DOMAIN spent[t] : Fair(spent[t][n])

(* What is left behind was agreed with somebody at the URL of an entry     *)
(* that is allowed.                                                        *)
LeftIsFair ==
  \A left \in outstanding :
    /\ left.trial \in 1..NTrials
    /\ left.target \in Urls /\ \E i \in Vendors(task) : Allowed(i) /\ left.target = TargetOf(i)
    /\ left.amount \in 0..CallCap

PolicyInv ==
  /\ Synthetic => agreed = {}
  /\ phase = "paying" /\ agreed # {} => calling.target \in Urls
  /\ Synthetic \/ Live!DistinctUrls(task)
  /\ DebitsAreFair
  /\ LeftIsFair

(* The vendor that a live purchase is put down to is the one picked. *)
LEMMA LiveVendor ==
  ASSUME ProperCatalogs, task \in Tasks, Live!DistinctUrls(task),
         NEW i \in Vendors(task), TargetOf(i) \in Urls
  PROVE  Live!VendorOf(TargetOf(i)) = task.vendors[i].id
<1>1. TargetOf(i) = task.vendors[i].url /\ task.vendors[i].url # NoVendor
  BY DEF ProperCatalogs, TargetOf
<1> DEFINE found == {j \in Vendors(task) : task.vendors[j].url = TargetOf(i)}
<1>2. found = {i}
  BY <1>1 DEF Live!DistinctUrls, Live!Vendors, Vendors
<1>3. (CHOOSE j \in found : TRUE) = i
  BY <1>2
<1> QED
  BY <1>2, <1>3 DEF Live!VendorOf, Live!Vendors, Vendors

(* An entry with the id that is called for is the one picked. *)
LEMMA SyntheticVendor ==
  ASSUME ProperCatalogs, task \in Tasks, NEW i \in Vendors(task), NEW k \in Vendors(task),
         task.vendors[k].id = TargetOf(i)
  PROVE  k = i
BY DEF ProperCatalogs, TargetOf

LEMMA FairKeeps ==
  ASSUME UNCHANGED task
  PROVE  /\ \A d : Fair(d)' <=> Fair(d)
         /\ \A i : Allowed(i)' <=> Allowed(i)
         /\ \A i : TargetOf(i)' = TargetOf(i)
         /\ Vendors(task)' = Vendors(task) /\ Synthetic' = Synthetic
BY DEF Fair, Allowed, Candidates, InPolicy, Anomalous, TargetOf, Vendors, Synthetic

(* One more fair debit. *)
LEMMA DebitKeeps ==
  ASSUME IInv, DebitsAreFair, UNCHANGED task, NEW trial \in 1..NTrials, NEW debit, Fair(debit),
         spent' = [spent EXCEPT ![trial] = Append(@, debit)]
  PROVE  DebitsAreFair'
<1>1. \A t \in 1..NTrials : spent'[t] = IF t = trial THEN Append(spent[t], debit) ELSE spent[t]
  BY DEF IInv, ExactInv
<1>2. ASSUME NEW t \in 1..NTrials
      PROVE  IsList(spent'[t]) /\ \A n \in DOMAIN spent'[t] : Fair(spent'[t][n])
  <2>1. IsList(spent[t]) /\ \A n \in DOMAIN spent[t] : Fair(spent[t][n])
    BY DEF DebitsAreFair
  <2>2. CASE t # trial
    BY <1>1, <2>1, <2>2
  <2>3. CASE t = trial
    <3> DEFINE s == spent[t]
    <3> HIDE DEF s
    <3>1. IsList(s) /\ spent'[t] = Append(s, debit)
      BY <1>1, <2>1, <2>3 DEF s
    <3>2. /\ Len(s) \in Nat /\ DOMAIN s = 1..Len(s)
          /\ IsList(Append(s, debit)) /\ DOMAIN Append(s, debit) = 1..(Len(s) + 1)
          /\ Append(s, debit)[Len(s) + 1] = debit
          /\ \A n \in 1..Len(s) : Append(s, debit)[n] = s[n]
      BY <3>1, ListAppend, ListProperties
    <3>3. \A n \in 1..Len(s) : Fair(s[n])
      BY <2>1, <3>2 DEF s
    <3>4. \A n \in 1..(Len(s) + 1) : Fair(Append(s, debit)[n])
      <4> HIDE DEF Fair
      <4> QED
        BY <3>2, <3>3
    <3> QED
      BY <3>1, <3>2, <3>4
  <2> QED
    BY <2>2, <2>3
<1> QED
  BY <1>2, FairKeeps DEF DebitsAreFair

(* Most steps make no debit and leave no authorization. *)
LEMMA PolicyKeeps ==
  ASSUME PolicyInv, UNCHANGED <<task, spent, outstanding, agreed>>,
         phase' = "paying" => phase = "paying" /\ UNCHANGED calling
  PROVE  PolicyInv'
<1>1. DebitsAreFair'
  BY FairKeeps DEF PolicyInv, DebitsAreFair, IsList
<1>2. LeftIsFair'
  BY FairKeeps DEF PolicyInv, LeftIsFair
<1>3. (Synthetic \/ Live!DistinctUrls(task))'
  BY DEF PolicyInv, Synthetic, Live!DistinctUrls, Live!Vendors
<1> QED
  BY <1>1, <1>2, <1>3, FairKeeps DEF PolicyInv

(* The call in progress is of an entry that is allowed. *)
LEMMA CallIsFair ==
  ASSUME IInv, phase = "paying"
  PROVE  /\ calling.cap = task.cap /\ Now \in 1..NTrials
         /\ \E i \in Vendors(task) : Allowed(i) /\ calling.target = TargetOf(i)
BY NowIsATrial DEF IInv, PlannerCalls

LEMMA SyntheticPolicy ==
  ASSUME ProperCatalogs, IInv, PolicyInv, Synthetic, Syn!PayStep, UNCHANGED liveVars
  PROVE  PolicyInv'
<1>1. CASE PayRaises /\ UNCHANGED spent
  <2>1. UNCHANGED <<task, spent, outstanding, agreed>> /\ phase' = "raised"
    BY <1>1 DEF PayRaises, gradeVars, inputVars, liveVars
  <2> QED
    BY <2>1, PolicyKeeps
<1>2. CASE \E k \in Vendors(task) :
             /\ task.vendors[k].id = calling.target
             /\ task.vendors[k].price <= calling.cap
             /\ Record(Sold(k))
             /\ spent' = [spent EXCEPT ![Now] = Append(@, AsDebit(Sold(k)))]
  <2>1. PICK k \in Vendors(task) :
          /\ task.vendors[k].id = calling.target
          /\ Record(Sold(k))
          /\ spent' = [spent EXCEPT ![Now] = Append(@, AsDebit(Sold(k)))]
    BY <1>2
  <2>2. phase = "paying" /\ phase' = "agent" /\ UNCHANGED <<task, outstanding, agreed>>
    BY <2>1 DEF Record, liveVars
  <2>3. PICK i \in Vendors(task) : Allowed(i) /\ calling.target = TargetOf(i)
    BY <2>2, CallIsFair
  <2>4. k = i
    BY <2>1, <2>3, SyntheticVendor, CatalogProperties DEF IInv
  <2>5. AsDebit(Sold(k)).vendor = task.vendors[k].id /\ AsDebit(Sold(k)).amount = task.vendors[k].price
    BY DEF AsDebit, Sold
  <2>6. Fair(AsDebit(Sold(k)))
    BY <2>3, <2>4, <2>5 DEF Fair
  <2>7. Now \in 1..NTrials
    BY <2>2, CallIsFair
  <2>8. DebitsAreFair'
    BY <2>1, <2>2, <2>6, <2>7, DebitKeeps DEF PolicyInv
  <2>9. LeftIsFair'
    BY <2>2, FairKeeps DEF PolicyInv, LeftIsFair
  <2> QED
    BY <2>2, <2>8, <2>9, FairKeeps DEF PolicyInv
<1> QED
  BY <1>1, <1>2, SyntheticEffects DEF IInv

(* Nobody agrees to anything but somebody at a URL. *)
LEMMA LivePaysPolicy ==
  ASSUME PolicyInv, ~Synthetic, Live!LivePays
  PROVE  PolicyInv'
<1>1. /\ UNCHANGED <<task, spent, calling, phase, outstanding>>
      /\ UNCHANGED agreed \/ calling.target \in Urls
  BY DEF Live!LivePays, Live!Call!Agree, Live!Call!Authorize, Live!Call!Refuse,
     Live!Call!Confirm, Live!Call!GiveUp, Live!harnessVars, Live!gradeVars, Live!inputVars,
     Live!controlVars
<1>2. DebitsAreFair'
  BY <1>1, FairKeeps DEF PolicyInv, DebitsAreFair, IsList
<1>3. LeftIsFair'
  BY <1>1, FairKeeps DEF PolicyInv, LeftIsFair
<1>4. Live!DistinctUrls(task)'
  BY <1>1 DEF PolicyInv, Live!DistinctUrls, Live!Vendors
<1> QED
  BY <1>1, <1>2, <1>3, <1>4, FairKeeps DEF PolicyInv

(* What has an agreed price has a URL, and the vendor of that URL is paid. *)
LEMMA UrlIsFair ==
  ASSUME ProperCatalogs, IInv, PolicyInv, ~Synthetic,
         NEW i \in Vendors(task), Allowed(i), TargetOf(i) \in Urls,
         NEW a \in 0..CallCap
  PROVE  Fair([vendor |-> Live!VendorOf(TargetOf(i)), amount |-> a])
<1>1. task \in Tasks /\ task.cap = CallCap /\ CallCap \in Nat
  BY CatalogProperties, PlannerAssumption DEF IInv, Synthetic
<1>2. Live!VendorOf(TargetOf(i)) = task.vendors[i].id
  BY <1>1, LiveVendor DEF PolicyInv
<1>3. a <= task.cap
  BY <1>1
<1> QED
  BY <1>2, <1>3 DEF Fair

LEMMA LiveRedeemPolicy ==
  ASSUME ProperCatalogs, IInv, PolicyInv, ~Synthetic, Live!LiveRedeem
  PROVE  PolicyInv'
<1>1. /\ phase = "paying"
      /\ UNCHANGED <<task, calling, phase, agreed, outstanding>>
  BY RedeemEffects DEF gradeVars, inputVars, controlVars
<1>2. PICK a \in 0..CallCap :
        /\ authorized = {a}
        /\ spent' = [spent EXCEPT ![Now] = Append(@, AsDebit(Paid(a)))]
  BY RedeemEffects
<1>3. PICK i \in Vendors(task) : Allowed(i) /\ calling.target = TargetOf(i)
  BY <1>1, CallIsFair
<1>4. TargetOf(i) \in Urls
  BY <1>1, <1>2, <1>3 DEF IInv, PromiseInv, PolicyInv
<1>5. AsDebit(Paid(a)) = [vendor |-> Live!VendorOf(TargetOf(i)), amount |-> a]
  BY <1>3 DEF AsDebit, Paid
<1>6. Fair(AsDebit(Paid(a))) /\ Now \in 1..NTrials
  BY <1>1, <1>3, <1>4, <1>5, UrlIsFair, CallIsFair
<1>7. DebitsAreFair'
  BY <1>1, <1>2, <1>6, DebitKeeps DEF PolicyInv
<1>8. LeftIsFair'
  BY <1>1, FairKeeps DEF PolicyInv, LeftIsFair
<1>9. Live!DistinctUrls(task)'
  BY <1>1 DEF PolicyInv, Live!DistinctUrls, Live!Vendors
<1> QED
  BY <1>1, <1>7, <1>8, <1>9, FairKeeps DEF PolicyInv

LEMMA LateRedeemPolicy ==
  ASSUME ProperCatalogs, IInv, PolicyInv, ~Synthetic, Live!LateRedeem
  PROVE  PolicyInv'
<1>1. PICK left \in outstanding :
        /\ outstanding' = outstanding \ {left}
        /\ spent' = [spent EXCEPT ![left.trial] = Append(@,
             [vendor |-> Live!VendorOf(left.target), amount |-> left.amount])]
  BY LateEffects
<1>2. UNCHANGED <<task, calling, phase, agreed>>
  BY LateEffects DEF gradeVars, inputVars, controlVars
<1>3. left.trial \in 1..NTrials /\ left.target \in Urls /\ left.amount \in 0..CallCap
  BY DEF PolicyInv, LeftIsFair
<1>4. PICK i \in Vendors(task) : Allowed(i) /\ left.target = TargetOf(i)
  BY DEF PolicyInv, LeftIsFair
<1>5. Fair([vendor |-> Live!VendorOf(left.target), amount |-> left.amount])
  BY <1>3, <1>4, UrlIsFair
<1>6. DebitsAreFair'
  BY <1>1, <1>2, <1>3, <1>5, DebitKeeps DEF PolicyInv
<1>7. LeftIsFair'
  BY <1>1, <1>2, FairKeeps DEF PolicyInv, LeftIsFair
<1>8. Live!DistinctUrls(task)'
  BY <1>2 DEF PolicyInv, Live!DistinctUrls, Live!Vendors
<1> QED
  BY <1>2, <1>6, <1>7, <1>8, FairKeeps DEF PolicyInv

(* What a call leaves behind is what its agent was allowed to agree to. *)
LEMMA LiveRaisesPolicy ==
  ASSUME IInv, PolicyInv, ~Synthetic, Live!LiveRaises
  PROVE  PolicyInv'
<1>1. /\ PayRaises /\ UNCHANGED <<spent, agreed>>
      /\ outstanding' = outstanding \cup
           {[trial |-> Now, call |-> asked, target |-> calling.target, amount |-> a] :
              a \in authorized \ moved}
  BY RaiseEffects
<1>2. /\ UNCHANGED task /\ phase = "paying" /\ phase' = "raised"
  BY <1>1 DEF PayRaises, gradeVars, inputVars
<1>3. PICK i \in Vendors(task) : Allowed(i) /\ calling.target = TargetOf(i)
  BY <1>2, CallIsFair
<1>4. Now \in 1..NTrials
  BY <1>2, CallIsFair
<1>5. ASSUME NEW a \in authorized
      PROVE  a \in 0..CallCap /\ calling.target \in Urls
  BY <1>2, <1>5 DEF IInv, PromiseInv, OneAmount, PolicyInv
<1>6. LeftIsFair'
  <2>1. ASSUME NEW left \in outstanding'
        PROVE  /\ left.trial \in 1..NTrials /\ left.target \in Urls
               /\ \E j \in Vendors(task) : Allowed(j) /\ left.target = TargetOf(j)
               /\ left.amount \in 0..CallCap
    <3>1. CASE left \in outstanding
      BY <3>1 DEF PolicyInv, LeftIsFair
    <3>2. CASE \E a \in authorized : left = [trial |-> Now, call |-> asked,
                                             target |-> calling.target, amount |-> a]
      <4>1. PICK a \in authorized : left = [trial |-> Now, call |-> asked,
                                            target |-> calling.target, amount |-> a]
        BY <3>2
      <4>2. left.trial = Now /\ left.target = calling.target /\ left.amount = a
        BY <4>1
      <4> QED
        BY <1>3, <1>4, <1>5, <4>2
    <3> QED
      BY <1>1, <3>1, <3>2
  <2> QED
    BY <1>2, <2>1, FairKeeps DEF LeftIsFair
<1>7. DebitsAreFair'
  BY <1>1, <1>2, FairKeeps DEF PolicyInv, DebitsAreFair, IsList
<1>8. Live!DistinctUrls(task)'
  BY <1>2 DEF PolicyInv, Live!DistinctUrls, Live!Vendors
<1> QED
  BY <1>1, <1>2, <1>6, <1>7, <1>8, FairKeeps DEF PolicyInv

LEMMA InitPolicy == Init => PolicyInv
<1> SUFFICES ASSUME Init PROVE PolicyInv
  OBVIOUS
<1>1. /\ spent = [t \in 1..NTrials |-> << >>] /\ agreed = {} /\ outstanding = {}
      /\ Synthetic \/ Live!DistinctUrls(task)
  BY DEF Init, Syn!Init, Syn!HarnessInit, Live!FreshExecutor, Live!Call!Init
<1>2. DebitsAreFair
  BY <1>1, EmptyList DEF DebitsAreFair
<1> QED
  BY <1>1, <1>2 DEF PolicyInv, LeftIsFair

LEMMA NextPolicy ==
  ASSUME ProperCatalogs, IInv, PolicyInv, [Next]_vars
  PROVE  PolicyInv'
<1>1. CASE NoWallet \/ UNCHANGED vars
  <2>1. /\ UNCHANGED <<task, spent, outstanding, agreed, calling>>
        /\ phase' = phase \/ phase' = "aborted"
    BY <1>1 DEF NoWallet, vars, harnessVars, gradeVars, inputVars, controlVars, liveVars
  <2> QED
    BY <2>1, PolicyKeeps
<1>2. CASE AgentWorks
  <2>1. UNCHANGED <<task, spent, outstanding, agreed>> /\ phase' # "paying"
    BY <1>2 DEF AgentWorks, NoCandidates, LlmEscalates, LlmFails, PickIsNotOffered,
       PickIsAnomalous, PayRaised, PlannerReturns, AgentFails, AgentReturns, Grade, GradeStep,
       PairClaim, RejectClaim, GradeTerminal, MakeReport, gradeVars, inputVars, controlVars,
       liveVars
  <2> QED
    BY <2>1, PolicyKeeps
<1>3. CASE ExecutorWorks
  <2>1. CASE Synthetic /\ Syn!PayStep /\ UNCHANGED liveVars
    BY <2>1, SyntheticPolicy
  <2>2. CASE ~Synthetic /\ Live!LiveReturns
    <3>1. PICK a \in 0..CallCap : Record(Paid(a)) /\ UNCHANGED <<spent, liveVars>>
      BY <2>2, ReturnEffects
    <3>2. UNCHANGED <<task, spent, outstanding, agreed>> /\ phase' = "agent"
      BY <3>1 DEF Record, liveVars
    <3> QED
      BY <3>2, PolicyKeeps
  <2> QED
    BY <1>3, <2>1, <2>2, LivePaysPolicy, LiveRaisesPolicy DEF ExecutorWorks
<1>4. CASE NextTrial
  <2>1. UNCHANGED <<task, spent, outstanding, agreed>> /\ phase' # "paying"
    BY <1>4 DEF NextTrial, Syn!NextTrial, Syn!EndTrial, EndTrial, liveVars
  <2> QED
    BY <2>1, PolicyKeeps
<1>5. CASE \E pick \in Targets : PlannerBuys(pick)
  <2>1. PICK pick \in Targets : PlannerBuys(pick)
    BY <1>5
  <2>2. Pay(TargetOf(Chosen(task, pick))) /\ (Synthetic \/ task.cap = CallCap)
    BY <2>1, CatalogProperties, PlannerAssumption DEF PlannerBuys, IInv, Synthetic
  <2>3. /\ UNCHANGED <<task, spent>>
        /\ \/ Synthetic /\ UNCHANGED <<agreed, outstanding>>
           \/ ~Synthetic /\ agreed' = {} /\ UNCHANGED outstanding
    BY <2>2, PayEffects DEF AgentCalls, gradeVars, inputVars, liveVars
  <2>4. DebitsAreFair'
    BY <2>3, FairKeeps DEF PolicyInv, DebitsAreFair, IsList
  <2>5. LeftIsFair'
    BY <2>3, FairKeeps DEF PolicyInv, LeftIsFair
  <2>6. (Synthetic \/ Live!DistinctUrls(task))'
    BY <2>3 DEF PolicyInv, Synthetic, Live!DistinctUrls, Live!Vendors
  <2> QED
    BY <2>3, <2>4, <2>5, <2>6, FairKeeps DEF PolicyInv
<1>6. CASE FacilitatorRedeems
  BY <1>6, LiveRedeemPolicy, LateRedeemPolicy DEF FacilitatorRedeems
<1> QED
  BY <1>1, <1>2, <1>3, <1>4, <1>5, <1>6 DEF Next, Program

LEMMA FairDebitsAreInPolicy ==
  ASSUME HarnessInv, DebitsAreFair
  PROVE  PlannerStaysInPolicy
<1>1. ASSUME NEW i \in Vendors(task), Allowed(i)
      PROVE  LET v == task.vendors[i]
             IN /\ v.category = task.category
                /\ v.price <= task.cap
                /\ task.allowlist # NoList => v.id \in task.allowlist
                /\ task.allowlist = NoList => v.inAllowlist
                /\ v.reference # NoPrice /\ task.multiplier # NoPrice =>
                     v.price <= v.reference * task.multiplier
  <2>1. task \in Tasks /\ i \in DOMAIN task.vendors
    BY DEF HarnessInv, PhaseInv, Vendors
  <2>2. /\ task.vendors[i].price \in Nat
        /\ task.multiplier # NoPrice => task.multiplier \in Nat
        /\ task.vendors[i].reference # NoPrice => task.vendors[i].reference \in Nat
    BY <2>1, TaskAssumption
  <2>3. task.vendors[i].reference # NoPrice /\ task.multiplier # NoPrice =>
          task.vendors[i].price <= task.vendors[i].reference * task.multiplier
    BY <1>1, <2>2 DEF Allowed, Anomalous
  <2> QED
    BY <1>1, <2>3 DEF Allowed, Candidates, InPolicy
<1> QED
  BY <1>1 DEF DebitsAreFair, Fair, PlannerStaysInPolicy

(* Whatever the language model answers, and whenever an authorization is   *)
(* redeemed, every debit is of an entry that the mandate allows: for every *)
(* catalog that names each vendor once.                                    *)
THEOREM StaysInPolicy ==
  ASSUME ProperCatalogs
  PROVE  Spec => []PlannerStaysInPolicy
<1>1. IInv /\ PolicyInv /\ [Next]_vars => IInv' /\ PolicyInv'
  BY NextIInv, NextPolicy
<1>2. Init => IInv /\ PolicyInv
  BY InitIInv, InitPolicy
<1>3. IInv /\ PolicyInv => PlannerStaysInPolicy
  BY FairDebitsAreInPolicy DEF IInv, PolicyInv
<1> QED
  BY <1>1, <1>2, <1>3, PTL DEF Spec

-----------------------------------------------------------------------------
(* The planner is an agent *)

(* What SyntheticRun and LiveRun let an agent pass and claim includes what *)
(* the planner passes and claims.                                          *)
AgentInputs ==
  /\ << >> \in ClaimLists
  /\ \A t \in Tasks :
       /\ t.cap \in CallCaps
       /\ \A i \in Vendors(t) :
            /\ t.vendors[i].id \in Targets
            /\ t.vendors[i].url # NoVendor => t.vendors[i].url \in Targets
            /\ \A paid \in 0..t.cap :
                 <<[vendor |-> t.vendors[i].id, amount |-> paid]>> \in ClaimLists

(* The harness of the two modules is the planner's. *)
LEMMA SynHarness ==
  /\ HarnessInit => Syn!HarnessInit
  /\ AgentFails => Syn!AgentFails
  /\ EndTrial => Syn!EndTrial
  /\ \A claimed, escalates : AgentReturns(claimed, escalates) => Syn!AgentReturns(claimed, escalates)
  /\ \A target, cap : AgentCalls(target, cap) => Syn!AgentCalls(target, cap)
BY DEF Syn!HarnessInit, HarnessInit, Syn!AgentFails, AgentFails, Syn!EndTrial,
     EndTrial, Syn!AgentReturns, AgentReturns, Syn!BeginGrading, BeginGrading,
     Syn!AgentCalls, AgentCalls, Syn!Duplicate, Duplicate, Syn!gradeVars, gradeVars,
     Syn!inputVars, inputVars, Syn!loopVars, loopVars

LEMMA SynGrade == Grade => Syn!Grade
BY DEF Syn!Grade, Grade, Syn!gradeVars, gradeVars, Syn!inputVars, inputVars,
     Syn!loopVars, loopVars, Syn!Tol, Tol, Syn!Backs, Backs, Syn!Matching, Matching,
     Syn!SumOf, SumOf, Syn!Total, Total, Syn!OverBudget, OverBudget, Syn!AsExpected,
     AsExpected, Syn!PairClaim, PairClaim, Syn!RejectClaim, RejectClaim,
     Syn!GradeTerminal, GradeTerminal, Syn!GradeStep, GradeStep, Syn!controlVars,
     controlVars

LEMMA SynReport == MakeReport => Syn!MakeReport
<1>1. Syn!EvalReport = EvalReport
  BY DEF Syn!EvalReport, EvalReport, Syn!Cardinality, Cardinality, Syn!Graded, Graded,
     Syn!BudgetViolations, BudgetViolations, Syn!Total, Total, Syn!SumOf, SumOf,
     Syn!CheapestInPolicy, CheapestInPolicy, Syn!Candidates, Candidates,
     Syn!InPolicy, InPolicy, Syn!Vendors, Vendors, Syn!Captures, Captures,
     Syn!VendorOutcome, VendorOutcome, Syn!Recorded, Recorded, Syn!PassK, PassK,
     Syn!Comb, Comb, Syn!factorial, factorial
<1> QED
  BY <1>1 DEF Syn!MakeReport, MakeReport, Syn!gradeVars, gradeVars, Syn!inputVars, inputVars,
     Syn!loopVars, loopVars

LEMMA LiveHarness ==
  /\ HarnessInit => Live!HarnessInit
  /\ AgentFails => Live!AgentFails
  /\ EndTrial => Live!EndTrial
  /\ \A claimed, escalates : AgentReturns(claimed, escalates) => Live!AgentReturns(claimed, escalates)
  /\ \A target, cap : AgentCalls(target, cap) => Live!AgentCalls(target, cap)
BY DEF Live!HarnessInit, HarnessInit, Live!AgentFails, AgentFails, Live!EndTrial,
     EndTrial, Live!AgentReturns, AgentReturns, Live!BeginGrading, BeginGrading,
     Live!AgentCalls, AgentCalls, Live!Duplicate, Duplicate, Live!gradeVars,
     gradeVars, Live!inputVars, inputVars, Live!loopVars, loopVars

LEMMA LiveGrade == Grade => Live!Grade
BY DEF Live!Grade, Grade, Live!gradeVars, gradeVars, Live!inputVars, inputVars,
     Live!loopVars, loopVars, Live!Tol, Tol, Live!Backs, Backs, Live!Matching,
     Matching, Live!SumOf, SumOf, Live!Total, Total, Live!OverBudget, OverBudget,
     Live!AsExpected, AsExpected, Live!PairClaim, PairClaim, Live!RejectClaim,
     RejectClaim, Live!GradeTerminal, GradeTerminal, Live!GradeStep, GradeStep,
     Live!controlVars, controlVars

LEMMA LiveReport == MakeReport => Live!MakeReport
<1>1. Live!EvalReport = EvalReport
  BY DEF Live!EvalReport, EvalReport, Live!Cardinality, Cardinality, Live!Graded,
     Graded, Live!BudgetViolations, BudgetViolations, Live!Total, Total, Live!SumOf,
     SumOf, Live!CheapestInPolicy, CheapestInPolicy, Live!Candidates, Candidates,
     Live!InPolicy, InPolicy, Live!Vendors, Vendors, Live!Captures, Captures,
     Live!VendorOutcome, VendorOutcome, Live!Recorded, Recorded, Live!PassK, PassK,
     Live!Comb, Comb, Live!factorial, factorial
<1> QED
  BY <1>1 DEF Live!MakeReport, MakeReport, Live!gradeVars, gradeVars, Live!inputVars,
     inputVars, Live!loopVars, loopVars

(* The claim of the planner is one that an agent may make. *)
LEMMA PlannerClaims ==
  ASSUME AgentInputs, IInv, PolicyInv, phase = "agent", executed # << >>
  PROVE  <<[vendor |-> executed[1].vendor, amount |-> executed[1].amount]>> \in ClaimLists
<1>1. IsList(executed) /\ Len(executed) = 1 /\ DOMAIN executed = 1..1
  <2>1. IsList(executed) /\ Len(executed) <= 1
    BY DEF IInv, HarnessInv, RunningInv, Genuine, HonestInv, Small
  <2>2. Len(executed) \in Nat /\ DOMAIN executed = 1..Len(executed)
    BY <2>1, ListProperties
  <2>3. Len(executed) # 0
    BY <2>1, EmptyRecord
  <2> QED
    BY <2>1, <2>2, <2>3
<1>2. Now \in 1..NTrials /\ spent[Now] = DebitsOf(executed)
  BY NowIsATrial DEF IInv, ExactInv, Owed
<1>3. spent[Now][1] = AsDebit(executed[1]) /\ 1 \in DOMAIN spent[Now]
  BY <1>1, <1>2, DebitsProperties
<1>4. Fair(AsDebit(executed[1]))
  BY <1>2, <1>3 DEF PolicyInv, DebitsAreFair
<1>5. PICK i \in Vendors(task) : executed[1].vendor = task.vendors[i].id
  BY <1>4 DEF Fair, AsDebit
<1>6. task \in Tasks /\ task.cap \in Nat
  BY CatalogProperties DEF IInv
<1>7. executed[1].amount \in 0..task.cap
  BY <1>1, <1>6 DEF IInv, HarnessInv, RunningInv, Genuine, HonestInv, Small
<1> QED
  BY <1>5, <1>6, <1>7 DEF AgentInputs

(* The steps of run_task and of the harness. *)
LEMMA AgentWorksAsAgent ==
  ASSUME AgentInputs, IInv, PolicyInv, AgentWorks
  PROVE  /\ UNCHANGED <<attempts, liveVars>>
         /\ \/ AgentFails \/ Grade \/ MakeReport
            \/ \E claimed \in ClaimLists, escalates \in BOOLEAN :
                 AgentReturns(claimed, escalates)
<1>1. UNCHANGED <<attempts, liveVars>>
  BY DEF AgentWorks
<1>2. CASE NoCandidates \/ LlmEscalates \/ \E pick \in Targets : PickIsAnomalous(pick)
  <2>1. AgentReturns(<< >>, TRUE)
    BY <1>2 DEF NoCandidates, LlmEscalates, PickIsAnomalous
  <2>2. << >> \in ClaimLists
    BY DEF AgentInputs
  <2> QED
    BY <1>1, <2>1, <2>2
<1>3. CASE LlmFails \/ PickIsNotOffered \/ PayRaised
  BY <1>1, <1>3 DEF LlmFails, PickIsNotOffered, PayRaised
<1>4. CASE PlannerReturns
  <2> DEFINE claimed == <<[vendor |-> executed[1].vendor, amount |-> executed[1].amount]>>
  <2>1. claimed \in ClaimLists /\ AgentReturns(claimed, FALSE)
    BY <1>4, PlannerClaims DEF PlannerReturns
  <2> HIDE DEF claimed
  <2> QED
    BY <1>1, <2>1
<1>5. CASE Grade \/ MakeReport
  BY <1>1, <1>5
<1> QED
  BY <1>2, <1>3, <1>4, <1>5 DEF AgentWorks

LEMMA StepOfAnAgent ==
  ASSUME AgentInputs, IInv, PolicyInv, [Next]_vars
  PROVE  [IF Synthetic THEN Syn!Next ELSE Live!Next]_vars
<1> SUFFICES ASSUME Next
             PROVE  /\ Synthetic => Syn!Next
                    /\ ~Synthetic => Live!Next
  OBVIOUS
<1>1. CASE NoWallet
  <2>1. AgentFails /\ UNCHANGED liveVars /\ ~Synthetic
    BY <1>1 DEF NoWallet, AgentFails
  <2> QED
    BY <2>1, LiveHarness DEF Live!Next, Live!AgentOrHarness, Live!callVars, liveVars
<1>2. CASE AgentWorks
  <2>1. /\ UNCHANGED <<attempts, liveVars>>
        /\ \/ AgentFails \/ Grade \/ MakeReport
           \/ \E claimed \in ClaimLists, escalates \in BOOLEAN : AgentReturns(claimed, escalates)
    BY <1>2, AgentWorksAsAgent
  <2>2. Syn!AgentOrHarness
    BY <2>1, SynHarness, SynGrade, SynReport DEF Syn!AgentOrHarness
  <2>3. Live!AgentOrHarness
    BY <2>1, LiveHarness, LiveGrade, LiveReport DEF Live!AgentOrHarness
  <2> QED
    BY <2>1, <2>2, <2>3 DEF Syn!Next, Live!Next, Live!callVars, liveVars
<1>3. CASE ExecutorWorks
  BY <1>3 DEF ExecutorWorks, Syn!Next, Live!Next, Live!LiveStep
<1>4. CASE NextTrial
  BY <1>4, LiveHarness DEF NextTrial, Syn!Next, Live!Next, Live!callVars, liveVars
<1>5. CASE \E pick \in Targets : PlannerBuys(pick)
  <2>1. PICK pick \in Targets : PlannerBuys(pick)
    BY <1>5
  <2>2. PICK i \in Vendors(task) : Pay(TargetOf(i))
    BY <2>1, PicksAreAllowed DEF IInv
  <2>3. TargetOf(i) \in Targets /\ task.cap \in CallCaps
    BY CatalogProperties DEF AgentInputs, TargetOf, IInv
  <2> QED
    BY <2>2, <2>3, SynHarness DEF Pay, Syn!Next, Live!Next
<1>6. CASE FacilitatorRedeems
  BY <1>6 DEF FacilitatorRedeems, Live!Next, Live!LiveStep
<1> QED
  BY <1>1, <1>2, <1>3, <1>4, <1>5, <1>6 DEF Next, Program

(* All that holds of SyntheticRun, or of LiveRun, holds of the planner's   *)
(* run: it starts where they start, and each of its steps is one of theirs. *)
THEOREM IsAnAgent ==
  ASSUME ProperCatalogs, AgentInputs
  PROVE  Spec => PlannerIsAnAgent
<1>1. IInv /\ PolicyInv /\ [Next]_vars => IInv' /\ PolicyInv'
  BY NextIInv, NextPolicy
<1>2. Init => IInv /\ PolicyInv
  BY InitIInv, InitPolicy
<1>3. Init => IF Synthetic THEN Syn!Init ELSE Live!Init
  BY LiveHarness DEF Init, Syn!Init, Live!Init, HarnessInit, Syn!HarnessInit, Live!HarnessInit
<1>4. IInv /\ PolicyInv /\ [Next]_vars => [IF Synthetic THEN Syn!Next ELSE Live!Next]_vars
  BY StepOfAnAgent
<1> QED
  BY <1>1, <1>2, <1>3, <1>4, PTL DEF Spec, PlannerIsAnAgent
=============================================================================
