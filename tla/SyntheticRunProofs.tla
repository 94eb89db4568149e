-------------------------- MODULE SyntheticRunProofs --------------------------
(***************************************************************************)
(* Proofs about run_eval over the synthetic executor: for any tasks, any   *)
(* agent, any number of trials and calls, the harness's record of a trial  *)
(* is exactly what the trial has cost, and so the report is right.         *)
(***************************************************************************)
EXTENDS SyntheticRun, HarnessProofs

(* A record in which no vendor appears twice. *)
DistinctIn(record) ==
  \A m, n \in DOMAIN record : record[m].vendor = record[n].vendor => m = n

Sold(id) == \E n \in DOMAIN executed : executed[n].vendor = id

(* The executor's counters: each counted attempt was a call of this trial, *)
(* and the call in progress is not counted yet.                            *)
AttemptsInv ==
  /\ attempts \in [Ids(task) -> 0..MaxCalls]
  /\ \A id \in Ids(task) : attempts[id] <= asked
  /\ phase = "paying" => \A id \in Ids(task) : attempts[id] < asked
  /\ \A id \in Ids(task) : Sold(id) <=> attempts[id] > ById(id).failsNext

CallingInv == calling \in [target : Targets, cap : CallCaps] \cup {NoCall}

(* The money: every trial has cost its record, and no vendor sold twice.   *)
MoneyInv ==
  /\ DOMAIN spent = 1..NTrials
  /\ RecordsAreExact
  /\ \A t \in 1..NTrials : DistinctIn(RecordOf(t))

IInv == HarnessInv /\ CallingInv /\ AttemptsInv /\ MoneyInv

-----------------------------------------------------------------------------
(* The catalog *)

(* The entry that _by_id keeps exists, has the id, and is what the models  *)
(* have validated.                                                         *)
LEMMA ByIdProperties ==
  ASSUME HarnessInv, NEW id \in Ids(task)
  PROVE  /\ ById(id).id = id
         /\ ById(id).price \in Nat /\ ById(id).failsNext \in Nat
<1> DEFINE found == {i \in Vendors(task) : task.vendors[i].id = id}
<1>1. /\ Vendors(task) = 1..Len(task.vendors) /\ Len(task.vendors) \in Nat
      /\ \A i \in Vendors(task) :
           task.vendors[i].price \in Nat /\ task.vendors[i].failsNext \in Nat
  BY TaskAssumption DEF HarnessInv, PhaseInv, Vendors
<1>2. found # {} /\ found \subseteq 1..Len(task.vendors)
  BY <1>1 DEF Ids
<1>3. PICK k \in found : \A j \in found : j <= k
  <2> HIDE DEF found
  <2> QED
    BY <1>1, <1>2, LastIndex
<1>4. \E i \in Vendors(task) :
        /\ task.vendors[i].id = id
        /\ \A j \in Vendors(task) : task.vendors[j].id = id => j <= i
  BY <1>3
<1> DEFINE last == CHOOSE i \in Vendors(task) :
                     /\ task.vendors[i].id = id
                     /\ \A j \in Vendors(task) : task.vendors[j].id = id => j <= i
<1>5. last \in Vendors(task) /\ task.vendors[last].id = id
  BY <1>4
<1>6. ById(id) = task.vendors[last]
  BY DEF ById
<1> HIDE DEF last
<1> QED
  BY <1>1, <1>5, <1>6

(* The catalog is the task's: it does not change while the task does not. *)
LEMMA CatalogKeeps ==
  ASSUME UNCHANGED task
  PROVE  Ids(task)' = Ids(task) /\ \A id : ById(id)' = ById(id)
BY DEF Ids, ById, Vendors

-----------------------------------------------------------------------------
(* The invariant is inductive *)

LEMMA InitIInv == Init => IInv
<1> SUFFICES ASSUME Init PROVE IInv
  OBVIOUS
<1>1. HarnessInv
  BY HarnessInitInv DEF Init
<1>2. CallingInv
  BY DEF Init, HarnessInit, CallingInv
<1>3. executed = << >> /\ trials = << >> /\ asked = 0 /\ phase = "agent"
      /\ spent = [t \in 1..NTrials |-> << >>] /\ attempts = [id \in Ids(task) |-> 0]
  BY DEF Init, HarnessInit, FreshExecutor
<1>4. DOMAIN executed = {} /\ DOMAIN trials = {}
  BY <1>3, EmptyList
<1>5. AttemptsInv
  <2>1. attempts \in [Ids(task) -> 0..MaxCalls] /\ \A id \in Ids(task) : attempts[id] = 0
    BY <1>3, HarnessAssumption
  <2>2. \A id \in Ids(task) : Sold(id) <=> attempts[id] > ById(id).failsNext
    BY <1>1, <1>4, <2>1, ByIdProperties DEF Sold
  <2> QED
    BY <1>3, <2>1, <2>2 DEF AttemptsInv
<1>6. MoneyInv
  <2>1. \A t : RecordOf(t) = << >>
    BY <1>3, <1>4 DEF RecordOf
  <2> QED
    BY <1>3, <1>4, <2>1, DebitsOfNone DEF MoneyInv, RecordsAreExact, DistinctIn
<1> QED
  BY <1>1, <1>2, <1>5, <1>6 DEF IInv

(* What leaves the records and the money alone keeps them. *)
LEMMA MoneyKeeps ==
  ASSUME MoneyInv, UNCHANGED spent, \A t \in 1..NTrials : RecordOf(t)' = RecordOf(t)
  PROVE  MoneyInv'
BY DEF MoneyInv, RecordsAreExact, DistinctIn

(* What leaves the counters alone, too, while no call is in progress. *)
LEMMA AttemptsKeep ==
  ASSUME AttemptsInv, UNCHANGED <<task, attempts, asked, executed>>, phase' # "paying"
  PROVE  AttemptsInv'
BY CatalogKeeps DEF AttemptsInv, Sold

LEMMA AgentCallsIInv ==
  ASSUME IInv, NEW target \in Targets, NEW cap \in CallCaps,
         AgentCalls(target, cap), UNCHANGED attempts
  PROVE  IInv'
<1>1. /\ UNCHANGED <<task, executed, trials, spent>> /\ asked' = asked + 1 /\ asked < MaxCalls
      /\ calling' = calling \/ calling' = [target |-> target, cap |-> cap]
  BY DEF AgentCalls, gradeVars, inputVars
<1>2. HarnessInv'
  BY AgentCallsKeeps DEF IInv
<1>3. CallingInv'
  BY <1>1 DEF IInv, CallingInv
<1>4. AttemptsInv'
  <2>1. asked \in Nat /\ \A id \in Ids(task) : attempts[id] \in Nat /\ attempts[id] <= asked
    BY Numbers DEF IInv, AttemptsInv
  <2>2. \A id \in Ids(task) : attempts[id] < asked' /\ attempts[id] <= asked'
    BY <1>1, <2>1
  <2> QED
    BY <1>1, <2>2, CatalogKeeps DEF IInv, AttemptsInv, Sold
<1>5. MoneyInv'
  BY <1>1, SameRecords, MoneyKeeps DEF IInv
<1> QED
  BY <1>2, <1>3, <1>4, <1>5 DEF IInv

LEMMA RefusesIInv ==
  ASSUME IInv, SyntheticRefuses
  PROVE  IInv'
<1>1. /\ UNCHANGED <<task, executed, trials, asked, spent, attempts>>
      /\ PayRaises /\ phase' = "raised" /\ calling' = NoCall
  BY DEF SyntheticRefuses, PayRaises, gradeVars, inputVars
<1>2. HarnessInv' /\ CallingInv'
  BY <1>1, PayRaisesKeeps DEF IInv, CallingInv
<1>3. AttemptsInv' /\ MoneyInv'
  BY <1>1, AttemptsKeep, SameRecords, MoneyKeeps DEF IInv
<1> QED
  BY <1>2, <1>3 DEF IInv

(* Where a counted attempt goes to, and what it leaves. *)
LEMMA AttemptedProperties ==
  ASSUME IInv, Attempted
  PROVE  /\ calling.target \in Ids(task)
         /\ ~Sold(calling.target)
         /\ ById(calling.target).id = calling.target
         /\ ById(calling.target).price \in Nat /\ ById(calling.target).failsNext \in Nat
         /\ attempts' \in [Ids(task) -> 0..MaxCalls]
         /\ \A id \in Ids(task) : attempts'[id] <= asked
         /\ \A id \in Ids(task) \ {calling.target} : attempts'[id] = attempts[id]
         /\ attempts'[calling.target] = attempts[calling.target] + 1
<1>1. /\ phase = "paying" /\ calling.target \in Ids(task)
      /\ attempts' = [attempts EXCEPT ![calling.target] = @ + 1]
  BY DEF Attempted
<1>2. ~Sold(calling.target)
  BY <1>1 DEF IInv, HarnessInv, CallInv, Duplicate, Sold
<1>3. /\ attempts \in [Ids(task) -> 0..MaxCalls]
      /\ \A id \in Ids(task) : attempts[id] < asked
      /\ asked \in 0..MaxCalls /\ MaxCalls \in Nat
  BY <1>1, Numbers DEF IInv, HarnessInv, CallInv, AttemptsInv
<1>4. \A id \in Ids(task) : attempts[id] \in Nat /\ attempts[id] + 1 <= asked
  BY <1>3
<1>5. /\ \A id \in Ids(task) \ {calling.target} : attempts'[id] = attempts[id]
      /\ attempts'[calling.target] = attempts[calling.target] + 1
  BY <1>1, <1>3
<1>6. \A id \in Ids(task) : attempts'[id] \in 0..MaxCalls /\ attempts'[id] <= asked
  BY <1>3, <1>4, <1>5
<1>7. attempts' \in [Ids(task) -> 0..MaxCalls]
  BY <1>1, <1>3, <1>6
<1> QED
  BY <1>1, <1>2, <1>5, <1>6, <1>7, ByIdProperties DEF IInv

LEMMA RejectsIInv ==
  ASSUME IInv, SyntheticRejects
  PROVE  IInv'
<1>1. /\ UNCHANGED <<task, executed, trials, asked, spent>>
      /\ PayRaises /\ phase' = "raised" /\ calling' = NoCall
      /\ Attempted /\ attempts'[calling.target] <= ById(calling.target).failsNext
  BY DEF SyntheticRejects, PayRaises, gradeVars, inputVars
<1>2. HarnessInv' /\ CallingInv'
  BY <1>1, PayRaisesKeeps DEF IInv, CallingInv
<1>3. AttemptsInv'
  <2>1. ASSUME NEW id \in Ids(task)
        PROVE  Sold(id) <=> attempts'[id] > ById(id).failsNext
    <3>1. CASE id = calling.target
      BY <1>1, <3>1, AttemptedProperties
    <3>2. CASE id # calling.target
      BY <1>1, <3>2, AttemptedProperties DEF IInv, AttemptsInv
    <3> QED
      BY <3>1, <3>2
  <2>2. Ids(task)' = Ids(task) /\ \A id : ById(id)' = ById(id) /\ Sold(id)' = Sold(id)
    BY <1>1, CatalogKeeps DEF Sold
  <2> QED
    BY <1>1, <2>1, <2>2, AttemptedProperties DEF AttemptsInv
<1>4. MoneyInv'
  BY <1>1, SameRecords, MoneyKeeps DEF IInv
<1> QED
  BY <1>2, <1>3, <1>4 DEF IInv

(* The purchase is recorded and debited, to a vendor that had none. *)
LEMMA PaysIInv ==
  ASSUME IInv, SyntheticPays
  PROVE  IInv'
<1> DEFINE v == ById(calling.target)
           p == [vendor |-> v.id, url |-> NoVendor, amount |-> v.price, verified |-> TRUE]
           d == [vendor |-> v.id, amount |-> v.price]
<1>1. /\ Attempted /\ attempts'[calling.target] > v.failsNext
      /\ Record(p) /\ spent' = [spent EXCEPT ![Now] = Append(@, d)]
  BY DEF SyntheticPays
<1>2. /\ v.id = calling.target /\ v.price \in Nat
      /\ ~Sold(calling.target)
  BY <1>1, AttemptedProperties
<1>3. p.amount \in Nat /\ p.verified = TRUE /\ p.vendor = calling.target /\ d = AsDebit(p)
  BY <1>2 DEF AsDebit
<1> HIDE DEF p, d
<1>4. HarnessInv'
  BY <1>1, <1>3, RecordKeeps DEF IInv
<1>5. /\ UNCHANGED <<task, asked, trials>> /\ phase = "paying" /\ phase' = "agent"
      /\ calling' = NoCall /\ executed' = Append(executed, p)
  BY <1>1 DEF Record
<1>6. CallingInv'
  BY <1>5 DEF CallingInv
<1>7. /\ IsList(executed) /\ Len(executed) \in Nat /\ DOMAIN executed = 1..Len(executed)
      /\ DOMAIN executed' = 1..(Len(executed) + 1)
      /\ executed'[Len(executed) + 1] = p
      /\ \A n \in 1..Len(executed) : executed'[n] = executed[n]
  BY <1>5, Numbers, ListAppend DEF IInv, HarnessInv, RunningInv, Genuine
<1>8. \A n \in DOMAIN executed' : n \in DOMAIN executed \/ n = Len(executed) + 1
  BY <1>7
<1>9. DOMAIN executed \subseteq DOMAIN executed' /\ Len(executed) + 1 \in DOMAIN executed'
  BY <1>7
<1>10. AttemptsInv'
  <2>1. ASSUME NEW id \in Ids(task)
        PROVE  Sold(id)' <=> attempts'[id] > ById(id).failsNext
    <3>1. CASE id = calling.target
      <4>1. Sold(id)'
        BY <1>3, <1>7, <1>9, <3>1 DEF Sold
      <4> QED
        BY <1>1, <3>1, <4>1
    <3>2. CASE id # calling.target
      <4>1. Sold(id)' <=> Sold(id)
        BY <1>3, <1>7, <1>8, <1>9, <3>2 DEF Sold
      <4>2. attempts'[id] = attempts[id]
        BY <1>1, <3>2, AttemptedProperties
      <4> QED
        BY <4>1, <4>2 DEF IInv, AttemptsInv
    <3> QED
      BY <3>1, <3>2
  <2>2. Ids(task)' = Ids(task) /\ \A id : ById(id)' = ById(id)
    BY <1>5, CatalogKeeps
  <2> QED
    BY <1>1, <1>5, <2>1, <2>2, AttemptedProperties DEF AttemptsInv
<1>11. MoneyInv'
  <2>1. /\ DOMAIN spent = 1..NTrials /\ Now \in 1..NTrials /\ RecordOf(Now) = executed
        /\ spent[Now] = DebitsOf(executed)
    BY <1>5, NowIsATrial DEF IInv, MoneyInv, RecordsAreExact
  <2>2. /\ DOMAIN spent' = 1..NTrials
        /\ spent'[Now] = Append(DebitsOf(executed), AsDebit(p))
        /\ \A t \in (1..NTrials) \ {Now} : spent'[t] = spent[t]
    BY <1>1, <1>3, <2>1
  <2>3. DebitsOf(executed') = Append(DebitsOf(executed), AsDebit(p))
    BY <1>5, <1>7, DebitsAppend
  <2>4. ASSUME NEW t \in 1..NTrials
        PROVE  RecordOf(t)' = IF t = Now THEN executed' ELSE RecordOf(t)
    BY <1>1, <1>5, RecordRecords DEF IInv
  <2>5. DistinctIn(executed)
    BY <2>1 DEF IInv, MoneyInv
  <2>6. DistinctIn(executed')
    <3>1. \A n \in DOMAIN executed : executed'[n].vendor # calling.target
      BY <1>2, <1>7 DEF Sold
    <3> QED
      BY <1>3, <1>7, <1>8, <2>5, <3>1 DEF DistinctIn
  <2>7. \A t \in 1..NTrials : spent'[t] = DebitsOf(RecordOf(t)')
    BY <2>2, <2>3, <2>4 DEF IInv, MoneyInv, RecordsAreExact
  <2>8. \A t \in 1..NTrials : DistinctIn(RecordOf(t)')
    BY <2>4, <2>6 DEF IInv, MoneyInv
  <2> QED
    BY <2>2, <2>7, <2>8 DEF MoneyInv, RecordsAreExact, DebitsOf, DistinctIn
<1> QED
  BY <1>4, <1>6, <1>10, <1>11 DEF IInv

LEMMA AgentOrHarnessIInv ==
  ASSUME IInv, AgentOrHarness, UNCHANGED attempts
  PROVE  IInv'
<1>1. UNCHANGED <<task, executed, trials, asked, calling, spent>>
  BY AgentOrHarnessRecords
<1>2. phase' # "paying"
  BY DEF AgentOrHarness, AgentCatches, AgentFails, AgentReturns, Grade, MakeReport, controlVars
<1>3. HarnessInv' /\ CallingInv'
  BY <1>1, AgentOrHarnessKeeps DEF IInv, CallingInv
<1>4. AttemptsInv' /\ MoneyInv'
  BY <1>1, <1>2, AttemptsKeep, SameRecords, MoneyKeeps DEF IInv
<1> QED
  BY <1>3, <1>4 DEF IInv

(* The next trial starts with a new view and a new executor. *)
LEMMA NextTrialIInv ==
  ASSUME IInv, NextTrial
  PROVE  IInv'
<1>1. /\ EndTrial /\ UNCHANGED <<task, calling, spent>>
      /\ executed' = << >> /\ asked' = 0 /\ phase' # "paying"
      /\ attempts' = [id \in Ids(task) |-> 0]
  BY DEF NextTrial, EndTrial, FreshExecutor
<1>2. HarnessInv' /\ CallingInv'
  BY <1>1, EndTrialKeeps DEF IInv, CallingInv
<1>3. AttemptsInv'
  <2>1. DOMAIN executed' = {}
    BY <1>1, EmptyList
  <2>2. attempts' \in [Ids(task) -> 0..MaxCalls] /\ \A id \in Ids(task) : attempts'[id] = 0
    BY <1>1, HarnessAssumption
  <2>3. Ids(task)' = Ids(task) /\ \A id : ById(id)' = ById(id)
    BY <1>1, CatalogKeeps
  <2>4. \A id \in Ids(task) : Sold(id)' <=> attempts'[id] > ById(id).failsNext
    BY <2>1, <2>2, ByIdProperties DEF Sold, IInv
  <2> QED
    BY <1>1, <2>2, <2>3, <2>4 DEF AttemptsInv
<1>4. MoneyInv'
  BY <1>1, EndTrialRecords, MoneyKeeps DEF IInv
<1> QED
  BY <1>2, <1>3, <1>4 DEF IInv

LEMMA NextIInv == IInv /\ [Next]_vars => IInv'
<1> SUFFICES ASSUME IInv, [Next]_vars PROVE IInv'
  OBVIOUS
<1>1. CASE \E target \in Targets, cap \in CallCaps :
             AgentCalls(target, cap) /\ UNCHANGED attempts
  BY <1>1, AgentCallsIInv
<1>2. CASE PayStep
  BY <1>2, RefusesIInv, RejectsIInv, PaysIInv DEF PayStep
<1>3. CASE AgentOrHarness /\ UNCHANGED attempts
  BY <1>3, AgentOrHarnessIInv
<1>4. CASE NextTrial
  BY <1>4, NextTrialIInv
<1>5. CASE UNCHANGED vars
  <2>1. UNCHANGED <<gradeVars, controlVars, spent, attempts>>
    BY <1>5 DEF vars, harnessVars
  <2>2. UNCHANGED <<task, executed, trials, asked, calling, phase>>
    BY <2>1 DEF gradeVars, inputVars, controlVars
  <2>3. HarnessInv' /\ CallingInv'
    BY <2>1, <2>2, HarnessStutters DEF IInv, CallingInv
  <2>4. AttemptsInv'
    BY <2>1, <2>2, CatalogKeeps DEF IInv, AttemptsInv, Sold
  <2>5. MoneyInv'
    BY <2>1, <2>2, SameRecords, MoneyKeeps DEF IInv
  <2> QED
    BY <2>3, <2>4, <2>5 DEF IInv
<1> QED
  BY <1>1, <1>2, <1>3, <1>4, <1>5 DEF Next

(* Every reachable state of a run on a synthetic task satisfies it. *)
THEOREM Invariance == Spec => []IInv
BY InitIInv, NextIInv, PTL DEF Spec

-----------------------------------------------------------------------------
(* What follows from it *)

(* The run is well typed: in particular no trial makes more calls than it  *)
(* may, none records more purchases than it made calls, and no counter of  *)
(* the executor runs ahead of them.                                        *)
THEOREM TypeCorrect == Spec => []TypeOK
<1>1. IInv => TypeOK
  BY DEF IInv, HarnessInv, PhaseInv, CallInv, CallingInv, AttemptsInv, TypeOK
<1> QED
  BY <1>1, Invariance, PTL

(* The gate of the recording view works: over an executor whose errors are *)
(* clean no vendor is recorded twice in a trial.                           *)
THEOREM VendorsAreDistinct == Spec => []DistinctVendors
<1>1. ASSUME IInv PROVE DistinctVendors
  <2>1. CASE phase \in {"report", "done"}
    <3>1. executed = << >>
      BY <1>1, <2>1 DEF IInv, HarnessInv, PhaseInv
    <3> QED
      BY <3>1, EmptyList DEF DistinctVendors
  <2>2. CASE phase \notin {"report", "done"}
    <3>1. Now \in 1..NTrials /\ RecordOf(Now) = executed
      BY <1>1, <2>2, NowIsATrial DEF IInv
    <3>2. DistinctIn(executed)
      BY <1>1, <3>1 DEF IInv, MoneyInv
    <3> QED
      BY <3>2 DEF DistinctIn, DistinctVendors
  <2> QED
    BY <2>1, <2>2
<1> QED
  BY <1>1, Invariance, PTL

(* Faults are injected anew in every trial: a vendor's counter never       *)
(* exceeds the trial's own calls, and it has sold exactly if the trial's   *)
(* attempts have used its failures up.                                     *)
THEOREM FaultsAreInjectedPerTrial == Spec => []FaultsPerTrial
<1>1. IInv => FaultsPerTrial
  BY DEF IInv, AttemptsInv, Sold, FaultsPerTrial
<1> QED
  BY <1>1, Invariance, PTL

(* No vendor is paid twice in a trial, however often the agent asks.       *)
THEOREM NoDoubleBuys == Spec => []OneDebitPerVendor
<1>1. ASSUME IInv PROVE OneDebitPerVendor
  <2> SUFFICES ASSUME NEW t \in 1..NTrials, NEW m \in DOMAIN spent[t], NEW n \in DOMAIN spent[t],
                      spent[t][m].vendor = spent[t][n].vendor
               PROVE  m = n
    BY DEF OneDebitPerVendor
  <2> DEFINE s == RecordOf(t)
  <2>1. spent[t] = DebitsOf(s) /\ DistinctIn(s)
    BY <1>1 DEF IInv, MoneyInv, RecordsAreExact
  <2> HIDE DEF s
  <2>2. DOMAIN spent[t] = DOMAIN s /\ \A i \in DOMAIN s : spent[t][i] = AsDebit(s[i])
    BY <2>1 DEF DebitsOf
  <2>3. \A i \in DOMAIN s : spent[t][i].vendor = s[i].vendor
    <3>1. \A i \in DOMAIN s : AsDebit(s[i]).vendor = s[i].vendor
      BY DEF AsDebit
    <3> QED
      BY <2>2, <3>1
  <2> QED
    BY <2>1, <2>2, <2>3 DEF DistinctIn
<1> QED
  BY <1>1, Invariance, PTL

(* The report's budget_violations is the number of trials whose real spend *)
(* exceeded the cap.                                                       *)
THEOREM BudgetCountsAreExact == Spec => []BudgetCountIsExact
<1>1. IInv => BudgetCountIsExact
  BY BudgetIsCounted DEF IInv, MoneyInv
<1> QED
  BY <1>1, Invariance, PTL

(* A trial graded PASS cost exactly the purchase the task expects. *)
THEOREM PassesAreOnePurchase == Spec => []PassMeansOnePurchase
<1>1. IInv => PassMeansOnePurchase
  BY PassIsOnePurchase DEF IInv, MoneyInv
<1> QED
  BY <1>1, Invariance, PTL

(* vendor_outcomes counts every debit once. *)
THEOREM VendorCountsAreExact == Spec => []VendorOutcomesAreExact
<1>1. IInv => VendorOutcomesAreExact
  BY VendorsAreCounted DEF IInv, MoneyInv
<1> QED
  BY <1>1, Invariance, PTL

(* Every capture is a trial that bought the cheapest in-policy vendor and  *)
(* stayed within the cap.                                                  *)
THEOREM CapturesAreBought == Spec => []CapturesAreReal
<1>1. IInv => CapturesAreReal
  BY CapturesWereBought DEF IInv, MoneyInv
<1> QED
  BY <1>1, Invariance, PTL

(* pass^k is the share of the ways to choose k of the trials in which all  *)
(* k passed, for every k that is reported.                                 *)
THEOREM PassKIsUnbiased == Spec => []PassKIsExact
<1>1. IInv => PassKIsExact
  BY PassKCounts DEF IInv
<1> QED
  BY <1>1, Invariance, PTL
=============================================================================
