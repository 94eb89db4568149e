---------------------------- MODULE HarnessProofs ----------------------------
(***************************************************************************)
(* What run_eval keeps true whatever executor it is handed, for any tasks, *)
(* agents and numbers of trials and calls; and what its report says of the *)
(* real debits when the record of every trial is exact.  SyntheticRunProofs *)
(* and LiveRunProofs say when it is.                                       *)
(***************************************************************************)
EXTENDS Harness, FiniteSetTheorems, SequenceTheorems, TLAPS

-----------------------------------------------------------------------------
(* Induction over numbers.  The library's induction theorem takes an       *)
(* operator as a parameter; that a set of numbers has a least element does *)
(* not, and is as good: the least counterexample to a claim.               *)

(* The initial segments of the numbers, being finite sets, are ordered by  *)
(* inclusion, which is well-founded.                                       *)
LEMMA LeastNumber ==
  ASSUME NEW T, T \subseteq Nat, T # {}
  PROVE  \E m \in T : \A n \in T : m <= n
<1> DEFINE R == StrictSubsetOrdering(Nat)
           U == {0..n : n \in T}
<1>1. U \subseteq FiniteSubsetsOf(Nat)
  <2>1. ASSUME NEW n \in T
        PROVE  0..n \in SUBSET Nat /\ IsFiniteSet(0..n)
    BY FS_Interval
  <2> QED
    BY <2>1 DEF FiniteSubsetsOf
<1>2. IsWellFoundedOn(R, FiniteSubsetsOf(Nat)) /\ U # {}
  BY FS_StrictSubsetOrderingWellFounded
<1>3. \E x \in U : \A y \in U : ~(<<y, x>> \in R)
  <2> HIDE DEF R, U
  <2> QED
    BY <1>1, <1>2, WFMin
<1>4. PICK m \in T : \A n \in T : <<0..n, 0..m>> \notin R
  BY <1>3
<1>5. ASSUME NEW n \in T, n < m PROVE FALSE
  <2>1. 0..n \in SUBSET Nat /\ 0..m \in SUBSET Nat /\ 0..n \subseteq 0..m
    BY <1>5
  <2>2. m \in 0..m /\ m \notin 0..n
    BY <1>5
  <2>3. <<0..n, 0..m>> \in R
    BY <2>1, <2>2 DEF StrictSubsetOrdering
  <2> QED
    BY <1>4, <2>3
<1> QED
  BY <1>5

(* A set of indices of a list has a last one. *)
LEMMA LastIndex ==
  ASSUME NEW n \in Nat, NEW T, T \subseteq 1..n, T # {}
  PROVE  \E m \in T : \A k \in T : k <= m
<1> DEFINE U == {n - k : k \in T}
<1>1. U \subseteq Nat /\ U # {}
  <2>1. ASSUME NEW k \in T PROVE n - k \in Nat
    OBVIOUS
  <2> QED
    BY <2>1
<1>2. PICK u \in U : \A w \in U : u <= w
  BY <1>1, LeastNumber
<1>3. PICK m \in T : u = n - m
  BY <1>2
<1>4. ASSUME NEW k \in T PROVE k <= m
  <2>1. n - m <= n - k
    BY <1>2, <1>3
  <2> QED
    BY <2>1
<1> QED
  BY <1>4

-----------------------------------------------------------------------------
(* Lists, of whatever they may be *)

IsList(s) == \E S : s \in Seq(S)

LEMMA ListProperties ==
  ASSUME NEW s, IsList(s)
  PROVE  Len(s) \in Nat /\ DOMAIN s = 1..Len(s)
BY LenProperties DEF IsList

LEMMA EmptyList ==
  IsList(<< >>) /\ Len(<< >>) = 0 /\ DOMAIN << >> = {}
<1>1. << >> \in Seq({})
  BY EmptySeq
<1> QED
  BY <1>1 DEF IsList

LEMMA ListAppend ==
  ASSUME NEW s, IsList(s), NEW e
  PROVE  /\ IsList(Append(s, e))
         /\ Len(Append(s, e)) = Len(s) + 1
         /\ DOMAIN Append(s, e) = 1..(Len(s) + 1)
         /\ Append(s, e)[Len(s) + 1] = e
         /\ \A i \in 1..Len(s) : Append(s, e)[i] = s[i]
<1>1. PICK S : s \in Seq(S)
  BY DEF IsList
<1>2. s \in Seq(S \cup {e})
  BY <1>1, SeqMonotonic
<1>3. Append(s, e) \in Seq(S \cup {e}) /\ Len(Append(s, e)) = Len(s) + 1
  BY <1>2, AppendProperties
<1>4. Len(s) \in Nat
  BY <1>1
<1>5. /\ Append(s, e)[Len(s) + 1] = e
      /\ \A i \in 1..Len(s) : Append(s, e)[i] = s[i]
  BY <1>2, <1>4, AppendProperties
<1>6. DOMAIN Append(s, e) = 1..(Len(s) + 1)
  BY <1>3, LenProperties
<1> QED
  BY <1>3, <1>5, <1>6 DEF IsList

LEMMA ListsEqual ==
  ASSUME NEW s, NEW t, IsList(s), IsList(t), Len(s) = Len(t),
         \A i \in 1..Len(s) : s[i] = t[i]
  PROVE  s = t
<1>1. PICK S, T : s \in Seq(S) /\ t \in Seq(T)
  BY DEF IsList
<1>2. s \in Seq(S \cup T) /\ t \in Seq(S \cup T)
  BY <1>1, SeqMonotonic
<1> QED
  BY <1>2, SeqEqual

-----------------------------------------------------------------------------
(* Sums *)

(* The equation that defines the partial sums of a list, up to the m-th. *)
Sums(g, a, m) == g = [n \in 0..m |-> IF n = 0 THEN 0 ELSE g[n - 1] + a[n]]

(* It has a solution, all of numbers: the least m for which it had none    *)
(* would not be 0, and would have one by extending that of m - 1.          *)
LEMMA SumsExist ==
  ASSUME NEW a, NEW m \in Nat, \A n \in 1..m : a[n] \in Nat
  PROVE  \E g \in [0..m -> Nat] : Sums(g, a, m)
<1> DEFINE Bad == {k \in 0..m : ~ \E g \in [0..k -> Nat] : Sums(g, a, k)}
<1> SUFFICES ASSUME Bad # {} PROVE FALSE
  <2>1. m \in 0..m
    OBVIOUS
  <2>2. m \notin Bad => \E g \in [0..m -> Nat] : Sums(g, a, m)
    BY <2>1
  <2> QED
    BY <2>2
<1>1. PICK k \in Bad : \A l \in Bad : k <= l
  <2>1. Bad \subseteq Nat
    OBVIOUS
  <2> HIDE DEF Bad
  <2> QED
    BY <2>1, LeastNumber
<1>2. k \in 0..m /\ k \in Nat
  BY <1>1
<1>3. k # 0
  <2> SUFFICES ASSUME k = 0 PROVE FALSE
    OBVIOUS
  <2> DEFINE g == [n \in 0..0 |-> 0]
  <2>1. g \in [0..k -> Nat] /\ Sums(g, a, k)
    BY DEF Sums
  <2> QED
    BY <1>1, <2>1
<1>4. k - 1 \in 0..m /\ k - 1 \notin Bad
  <2>1. k - 1 \in 0..m /\ ~(k <= k - 1)
    BY <1>2, <1>3
  <2> QED
    BY <1>1, <2>1
<1>5. PICK g \in [0..(k - 1) -> Nat] : Sums(g, a, k - 1)
  BY <1>4
<1> DEFINE h == [n \in 0..k |-> IF n = k THEN g[k - 1] + a[k] ELSE g[n]]
<1>6. h \in [0..k -> Nat]
  BY <1>2, <1>3, <1>5
<1>7. \A n \in 0..k : h[n] = IF n = 0 THEN 0 ELSE h[n - 1] + a[n]
  <2> SUFFICES ASSUME NEW n \in 0..k
               PROVE  h[n] = IF n = 0 THEN 0 ELSE h[n - 1] + a[n]
    OBVIOUS
  <2>1. CASE n = k
    BY <1>2, <1>3, <2>1
  <2>2. CASE n # k
    <3>1. n \in 0..(k - 1) /\ h[n] = g[n]
      BY <1>2, <2>2
    <3>2. g[n] = IF n = 0 THEN 0 ELSE g[n - 1] + a[n]
      BY <1>5, <3>1 DEF Sums
    <3>3. n # 0 => h[n - 1] = g[n - 1]
      BY <1>2, <3>1
    <3> QED
      BY <3>1, <3>2, <3>3
  <2> QED
    BY <2>1, <2>2
<1>8. Sums(h, a, k)
  BY <1>6, <1>7 DEF Sums
<1> QED
  BY <1>1, <1>6, <1>8

(* Every solution consists of numbers: there is no first partial sum that  *)
(* is not one.                                                             *)
LEMMA SumsAreNumbers ==
  ASSUME NEW a, NEW m \in Nat, \A n \in 1..m : a[n] \in Nat, NEW g, Sums(g, a, m)
  PROVE  \A n \in 0..m : g[n] \in Nat
<1> DEFINE Bad == {n \in 0..m : g[n] \notin Nat}
<1> SUFFICES ASSUME Bad # {} PROVE FALSE
  OBVIOUS
<1>1. PICK k \in Bad : \A l \in Bad : k <= l
  <2>1. Bad \subseteq Nat
    OBVIOUS
  <2> HIDE DEF Bad
  <2> QED
    BY <2>1, LeastNumber
<1>2. k \in 0..m /\ g[k] = IF k = 0 THEN 0 ELSE g[k - 1] + a[k]
  BY <1>1 DEF Sums
<1>3. CASE k = 0
  BY <1>1, <1>2, <1>3
<1>4. CASE k # 0
  <2>1. k - 1 \in 0..m /\ ~(k <= k - 1) /\ a[k] \in Nat
    BY <1>2, <1>4
  <2>2. g[k - 1] \in Nat
    BY <1>1, <2>1
  <2> QED
    BY <1>1, <1>2, <1>4, <2>1, <2>2
<1> QED
  BY <1>3, <1>4

(* The sum of a list of numbers is a number; that of one number is that    *)
(* number, and that of none is 0.                                          *)
LEMMA SumOfList ==
  ASSUME NEW a, Len(a) \in Nat, \A n \in 1..Len(a) : a[n] \in Nat
  PROVE  /\ SumOf(a) \in Nat
         /\ Len(a) = 0 => SumOf(a) = 0
         /\ Len(a) = 1 => SumOf(a) = a[1]
<1> DEFINE s == CHOOSE g : Sums(g, a, Len(a))
<1>1. Sums(s, a, Len(a))
  BY SumsExist
<1>2. SumOf(a) = s[Len(a)]
  BY DEF SumOf, Sums
<1> HIDE DEF s
<1>3. \A n \in 0..Len(a) : s[n] \in Nat
  BY <1>1, SumsAreNumbers
<1>4. \A n \in 0..Len(a) : s[n] = IF n = 0 THEN 0 ELSE s[n - 1] + a[n]
  BY <1>1 DEF Sums
<1>5. Len(a) = 0 => s[Len(a)] = 0
  BY <1>4
<1>6. Len(a) = 1 => s[Len(a)] = a[1]
  <2> SUFFICES ASSUME Len(a) = 1 PROVE s[1] = a[1]
    OBVIOUS
  <2>1. s[1] = s[0] + a[1] /\ s[0] = 0
    BY <1>4
  <2>2. a[1] \in Nat
    OBVIOUS
  <2> QED
    BY <2>1, <2>2
<1> QED
  BY <1>2, <1>3, <1>5, <1>6

-----------------------------------------------------------------------------
(* Records of purchases and the debits they stand for *)

(* What a record of verified purchases is. *)
Genuine(record) ==
  /\ IsList(record)
  /\ \A n \in DOMAIN record : record[n].amount \in Nat /\ record[n].verified = TRUE

LEMMA ListOf ==
  ASSUME NEW n \in Nat, NEW f, DOMAIN f = 1..n, f = [i \in 1..n |-> f[i]]
  PROVE  IsList(f) /\ Len(f) = n
<1> DEFINE S == {f[i] : i \in 1..n}
<1>1. f \in Seq(S) /\ Len(f) = n
  <2>1. f \in [1..n -> S]
    OBVIOUS
  <2> HIDE DEF S
  <2> QED
    BY <2>1
<1> QED
  BY <1>1 DEF IsList

LEMMA DebitsProperties ==
  ASSUME NEW s, IsList(s)
  PROVE  /\ IsList(DebitsOf(s)) /\ Len(DebitsOf(s)) = Len(s)
         /\ DOMAIN DebitsOf(s) = DOMAIN s
         /\ \A n \in DOMAIN s : DebitsOf(s)[n] = AsDebit(s[n])
<1>1. Len(s) \in Nat /\ DOMAIN s = 1..Len(s)
  BY ListProperties
<1>2. /\ DOMAIN DebitsOf(s) = 1..Len(s)
      /\ \A n \in 1..Len(s) : DebitsOf(s)[n] = AsDebit(s[n])
      /\ DebitsOf(s) = [n \in 1..Len(s) |-> DebitsOf(s)[n]]
  BY <1>1 DEF DebitsOf
<1>3. IsList(DebitsOf(s)) /\ Len(DebitsOf(s)) = Len(s)
  BY <1>1, <1>2, ListOf
<1> QED
  BY <1>1, <1>2, <1>3

LEMMA DebitsOfNone == DebitsOf(<< >>) = << >>
<1>1. /\ IsList(DebitsOf(<< >>)) /\ IsList(<< >>)
      /\ Len(DebitsOf(<< >>)) = 0 /\ Len(<< >>) = 0
  BY EmptyList, DebitsProperties
<1> QED
  BY <1>1, ListsEqual

(* A purchase recorded and its debit made keep the two lists in step. *)
LEMMA DebitsAppend ==
  ASSUME NEW s, IsList(s), NEW p
  PROVE  DebitsOf(Append(s, p)) = Append(DebitsOf(s), AsDebit(p))
<1>1. Len(s) \in Nat /\ DOMAIN s = 1..Len(s)
  BY ListProperties
<1>2. /\ IsList(Append(s, p)) /\ Len(Append(s, p)) = Len(s) + 1
      /\ DOMAIN Append(s, p) = 1..(Len(s) + 1)
      /\ Append(s, p)[Len(s) + 1] = p
      /\ \A i \in 1..Len(s) : Append(s, p)[i] = s[i]
  BY ListAppend
<1>3. /\ IsList(DebitsOf(Append(s, p))) /\ Len(DebitsOf(Append(s, p))) = Len(s) + 1
      /\ \A i \in 1..(Len(s) + 1) : DebitsOf(Append(s, p))[i] = AsDebit(Append(s, p)[i])
  BY <1>2, DebitsProperties
<1>4. /\ IsList(DebitsOf(s)) /\ Len(DebitsOf(s)) = Len(s)
      /\ \A i \in 1..Len(s) : DebitsOf(s)[i] = AsDebit(s[i])
  BY <1>1, DebitsProperties
<1>5. /\ IsList(Append(DebitsOf(s), AsDebit(p)))
      /\ Len(Append(DebitsOf(s), AsDebit(p))) = Len(s) + 1
      /\ Append(DebitsOf(s), AsDebit(p))[Len(s) + 1] = AsDebit(p)
      /\ \A i \in 1..Len(s) : Append(DebitsOf(s), AsDebit(p))[i] = DebitsOf(s)[i]
  BY <1>4, ListAppend
<1>6. \A i \in 1..(Len(s) + 1) : i \in 1..Len(s) \/ i = Len(s) + 1
  BY <1>1
<1>7. \A i \in 1..(Len(s) + 1) :
        DebitsOf(Append(s, p))[i] = Append(DebitsOf(s), AsDebit(p))[i]
  BY <1>2, <1>3, <1>4, <1>5, <1>6
<1> QED
  BY <1>3, <1>5, <1>7, ListsEqual

(* The record costs what its debits cost. *)
LEMMA DebitsTotal ==
  ASSUME NEW s, IsList(s)
  PROVE  Total(DebitsOf(s)) = Total(s)
<1>1. /\ DOMAIN DebitsOf(s) = DOMAIN s
      /\ \A n \in DOMAIN s : DebitsOf(s)[n].amount = s[n].amount
  <2>1. /\ DOMAIN DebitsOf(s) = DOMAIN s
        /\ \A n \in DOMAIN s : DebitsOf(s)[n] = AsDebit(s[n])
    BY DebitsProperties
  <2>2. \A n \in DOMAIN s : AsDebit(s[n]).amount = s[n].amount
    BY DEF AsDebit
  <2> QED
    BY <2>1, <2>2
<1>2. [n \in DOMAIN DebitsOf(s) |-> DebitsOf(s)[n].amount] = [n \in DOMAIN s |-> s[n].amount]
  BY <1>1
<1> QED
  BY <1>2 DEF Total

LEMMA TotalIsANumber ==
  ASSUME NEW s, Genuine(s)
  PROVE  /\ Total(s) \in Nat
         /\ Len(s) = 0 => Total(s) = 0
         /\ Len(s) = 1 => Total(s) = s[1].amount
<1> DEFINE a == [n \in DOMAIN s |-> s[n].amount]
<1>1. Len(s) \in Nat /\ DOMAIN s = 1..Len(s)
  BY ListProperties DEF Genuine
<1>2. /\ DOMAIN a = 1..Len(s) /\ a = [n \in 1..Len(s) |-> a[n]]
      /\ \A n \in 1..Len(s) : a[n] = s[n].amount /\ a[n] \in Nat
  BY <1>1 DEF Genuine
<1>3. Total(s) = SumOf(a)
  BY DEF Total
<1> HIDE DEF a
<1>4. Len(a) = Len(s)
  BY <1>1, <1>2, ListOf
<1>5. SumOf(a) \in Nat /\ (Len(a) = 0 => SumOf(a) = 0) /\ (Len(a) = 1 => SumOf(a) = a[1])
  BY <1>1, <1>2, <1>4, SumOfList
<1> QED
  BY <1>1, <1>2, <1>3, <1>4, <1>5

-----------------------------------------------------------------------------
(* The invariant of run_eval, with any executor that returns purchases     *)
(* that are verified and cost a number.                                    *)

Over(record) == task.adherence /\ Total(record) > task.cap

Expected(record) ==
  IF task.expected = NoVendor THEN record = << >>
  ELSE /\ Len(record) = 1
       /\ record[1].vendor = task.expected
       /\ record[1].amount <= task.maxPrice

(* A trial is running, and it is not yet graded while the agent works. *)
PhaseInv ==
  /\ task \in Tasks
  /\ phase \in Phases
  /\ outcome \in Outcomes \cup {"none"}
  /\ phase # "grading" => outcome = "none"
  /\ IsList(trials) /\ Len(trials) <= NTrials
  /\ phase \in {"report", "done"} <=> Len(trials) = NTrials
  /\ phase \in {"report", "done"} => executed = << >>

(* What is recorded is what calls have returned, and the gate has let the  *)
(* call in progress through.                                               *)
CallInv ==
  /\ asked \in 0..MaxCalls
  /\ Len(executed) <= asked
  /\ phase \in {"paying", "raised"} => Len(executed) < asked
  /\ phase = "paying" => ~Duplicate(calling.target, executed)

(* What a verdict says of a record. *)
Verdict(record, verdict) ==
  /\ verdict \in {"pass", "fail"} => ~Over(record)
  /\ verdict = "pass" => Expected(record)

RunningInv == Genuine(executed) /\ Verdict(executed, outcome)

TrialsInv ==
  \A t \in DOMAIN trials :
    /\ trials[t].outcome \in Outcomes
    /\ Genuine(trials[t].executed) /\ Len(trials[t].executed) <= MaxCalls
    /\ Verdict(trials[t].executed, trials[t].outcome)

ReportInv == phase = "done" => evalReport = EvalReport

HarnessInv == PhaseInv /\ CallInv /\ RunningInv /\ TrialsInv /\ ReportInv

(* The parts of the state that the report is about. *)
LEMMA ReportKeeps ==
  ASSUME UNCHANGED <<task, trials>>
  PROVE  EvalReport' = EvalReport
BY DEF EvalReport, Graded, BudgetViolations, Captures, VendorOutcome, Recorded

LEMMA TrialsKeep ==
  ASSUME TrialsInv, UNCHANGED <<task, trials>>
  PROVE  TrialsInv'
BY DEF TrialsInv, Verdict, Over, Expected

LEMMA RunningKeeps ==
  ASSUME RunningInv, UNCHANGED <<task, executed, outcome>>
  PROVE  RunningInv'
BY DEF RunningInv, Verdict, Over, Expected

LEMMA NoVerdictYet ==
  ASSUME Genuine(executed), outcome = "none"
  PROVE  RunningInv
BY DEF RunningInv, Verdict

LEMMA NothingRecorded == Genuine(<< >>) /\ Len(<< >>) = 0
BY EmptyList DEF Genuine

LEMMA HarnessInitInv == HarnessInit => HarnessInv
<1> SUFFICES ASSUME HarnessInit PROVE HarnessInv
  OBVIOUS
<1>1. IsList(<< >>) /\ Len(<< >>) = 0 /\ DOMAIN << >> = {} /\ Genuine(<< >>)
  BY EmptyList, NothingRecorded
<1>2. PhaseInv
  BY <1>1, HarnessAssumption DEF HarnessInit, PhaseInv, Phases
<1>3. CallInv
  BY <1>1, HarnessAssumption DEF HarnessInit, CallInv
<1>4. RunningInv
  BY <1>1, NoVerdictYet DEF HarnessInit
<1>5. TrialsInv /\ ReportInv
  BY <1>1 DEF HarnessInit, TrialsInv, ReportInv
<1> QED
  BY <1>2, <1>3, <1>4, <1>5 DEF HarnessInv

LEMMA Numbers ==
  ASSUME HarnessInv
  PROVE  /\ NTrials \in Nat /\ NTrials > 0 /\ MaxCalls \in Nat
         /\ asked \in Nat /\ Len(executed) \in Nat /\ Len(trials) \in Nat
         /\ DOMAIN executed = 1..Len(executed) /\ DOMAIN trials = 1..Len(trials)
BY HarnessAssumption, ListProperties DEF HarnessInv, PhaseInv, CallInv, RunningInv, Genuine

(* view.pay() is called: the gate lets it through or raises. *)
LEMMA AgentCallsKeeps ==
  ASSUME HarnessInv, NEW target, NEW cap, AgentCalls(target, cap)
  PROVE  HarnessInv'
<1>1. /\ UNCHANGED <<task, executed, outcome, trials, evalReport>>
      /\ phase = "agent" /\ phase' \in {"paying", "raised"}
      /\ asked < MaxCalls /\ asked' = asked + 1
      /\ phase' = "paying" => calling'.target = target /\ ~Duplicate(target, executed)
  BY DEF AgentCalls, gradeVars, inputVars
<1>2. PhaseInv'
  BY <1>1 DEF HarnessInv, PhaseInv, Phases
<1>3. CallInv'
  <2>1. asked' \in 0..MaxCalls /\ Len(executed') < asked' /\ Len(executed') <= asked'
    BY <1>1, Numbers DEF HarnessInv, CallInv
  <2>2. phase' = "paying" => ~Duplicate(calling'.target, executed')
    BY <1>1 DEF Duplicate
  <2> QED
    BY <2>1, <2>2 DEF CallInv, Duplicate
<1>4. RunningInv' /\ TrialsInv'
  BY <1>1, RunningKeeps, TrialsKeep DEF HarnessInv
<1>5. ReportInv'
  BY <1>1 DEF ReportInv
<1> QED
  BY <1>2, <1>3, <1>4, <1>5 DEF HarnessInv

(* The executor returned a purchase. *)
LEMMA RecordKeeps ==
  ASSUME HarnessInv, NEW p, p.amount \in Nat, p.verified = TRUE, Record(p)
  PROVE  HarnessInv'
<1>1. /\ UNCHANGED <<task, outcome, asked, trials, evalReport>>
      /\ phase = "paying" /\ phase' = "agent" /\ outcome = "none"
      /\ executed' = Append(executed, p)
  BY DEF Record, HarnessInv, PhaseInv
<1>2. /\ IsList(executed') /\ Len(executed') = Len(executed) + 1
      /\ DOMAIN executed' = 1..(Len(executed) + 1)
      /\ executed'[Len(executed) + 1] = p
      /\ \A i \in 1..Len(executed) : executed'[i] = executed[i]
  BY <1>1, ListAppend DEF HarnessInv, RunningInv, Genuine
<1>3. Genuine(executed')
  <2>1. \A n \in DOMAIN executed' : n \in DOMAIN executed \/ n = Len(executed) + 1
    BY <1>2, Numbers
  <2> QED
    BY <2>1, <1>2, Numbers DEF HarnessInv, RunningInv, Genuine
<1>4. PhaseInv'
  BY <1>1 DEF HarnessInv, PhaseInv, Phases
<1>5. CallInv'
  BY <1>1, <1>2, Numbers DEF HarnessInv, CallInv
<1>6. RunningInv'
  BY <1>1, <1>3 DEF RunningInv, Verdict
<1>7. TrialsInv' /\ ReportInv'
  BY <1>1, TrialsKeep DEF HarnessInv, ReportInv
<1> QED
  BY <1>4, <1>5, <1>6, <1>7 DEF HarnessInv

(* The executor raised. *)
LEMMA PayRaisesKeeps ==
  ASSUME HarnessInv, PayRaises
  PROVE  HarnessInv'
<1>1. /\ UNCHANGED <<task, executed, outcome, asked, trials, evalReport>>
      /\ phase = "paying" /\ phase' = "raised"
  BY DEF PayRaises, gradeVars, inputVars
<1>2. PhaseInv' /\ CallInv' /\ ReportInv'
  BY <1>1 DEF HarnessInv, PhaseInv, CallInv, ReportInv, Phases
<1> QED
  BY <1>1, <1>2, RunningKeeps, TrialsKeep DEF HarnessInv

(* What pay() raised is caught, or the agent fails. *)
LEMMA AgentFailsKeeps ==
  ASSUME HarnessInv, UNCHANGED <<task, executed, outcome, asked, trials, evalReport>>,
         phase \in {"agent", "raised"}, phase' \in {"agent", "aborted"}
  PROVE  HarnessInv'
<1>1. PhaseInv' /\ CallInv' /\ ReportInv'
  BY DEF HarnessInv, PhaseInv, CallInv, ReportInv, Phases
<1> QED
  BY <1>1, RunningKeeps, TrialsKeep DEF HarnessInv

(* The agent returns, and grade() begins. *)
LEMMA AgentReturnsKeeps ==
  ASSUME HarnessInv, NEW claimed, NEW escalates, AgentReturns(claimed, escalates)
  PROVE  HarnessInv'
<1>1. /\ UNCHANGED <<task, executed, asked, trials, evalReport>>
      /\ phase = "agent" /\ phase' = "grading" /\ outcome' = "none"
  BY DEF AgentReturns, BeginGrading
<1>2. PhaseInv' /\ CallInv' /\ ReportInv'
  BY <1>1 DEF HarnessInv, PhaseInv, CallInv, ReportInv, Phases
<1>3. RunningInv'
  BY <1>1 DEF HarnessInv, RunningInv, Verdict
<1> QED
  BY <1>1, <1>2, <1>3, TrialsKeep DEF HarnessInv

(* A step of grade(): the verdicts that are about the record are right.    *)
LEMMA GradeKeeps ==
  ASSUME HarnessInv, Grade
  PROVE  HarnessInv'
<1>1. /\ UNCHANGED <<task, executed, phase, calling, asked, trials, evalReport>>
      /\ phase = "grading" /\ outcome = "none"
  BY DEF Grade, GradeStep, PairClaim, RejectClaim, GradeTerminal, inputVars, controlVars
<1>2. outcome' \in Outcomes \cup {"none"} /\ Verdict(executed, outcome')
  BY <1>1 DEF Grade, GradeStep, PairClaim, RejectClaim, GradeTerminal, Outcomes, Verdict,
              OverBudget, AsExpected, Over, Expected
<1>3. PhaseInv' /\ CallInv' /\ ReportInv'
  BY <1>1, <1>2 DEF HarnessInv, PhaseInv, CallInv, ReportInv, Duplicate
<1>4. RunningInv'
  BY <1>1, <1>2 DEF HarnessInv, RunningInv, Verdict, Over, Expected
<1> QED
  BY <1>1, <1>3, <1>4, TrialsKeep DEF HarnessInv

(* The trial is added to those that are graded. *)
LEMMA EndTrialKeeps ==
  ASSUME HarnessInv, EndTrial
  PROVE  HarnessInv'
<1> DEFINE trial == [executed |-> executed, outcome |-> outcome]
<1>1. /\ UNCHANGED <<task, evalReport>>
      /\ phase = "grading" /\ outcome \in Outcomes
      /\ trials' = Append(trials, trial)
      /\ phase' = IF Len(trials') = NTrials THEN "report" ELSE "agent"
      /\ executed' = << >> /\ outcome' = "none" /\ asked' = 0
  BY DEF EndTrial, HarnessInv, PhaseInv
<1>2. /\ IsList(trials') /\ Len(trials') = Len(trials) + 1
      /\ DOMAIN trials' = 1..(Len(trials) + 1)
      /\ trials'[Len(trials) + 1] = trial
      /\ \A i \in 1..Len(trials) : trials'[i] = trials[i]
  <2>1. IsList(trials)
    BY DEF HarnessInv, PhaseInv
  <2> QED
    BY <1>1, <2>1, ListAppend
<1>3. PhaseInv'
  <2>1. Len(trials) < NTrials
    BY <1>1, Numbers DEF HarnessInv, PhaseInv
  <2>2. Len(trials') <= NTrials /\ (phase' = "report" <=> Len(trials') = NTrials)
    BY <1>1, <1>2, <2>1, Numbers
  <2> QED
    BY <1>1, <1>2, <2>2 DEF HarnessInv, PhaseInv, Phases
<1>4. CallInv' /\ RunningInv'
  BY <1>1, NothingRecorded, Numbers DEF CallInv, RunningInv, Verdict
<1>5. TrialsInv'
  <2>1. \A t \in DOMAIN trials' : t \in DOMAIN trials \/ t = Len(trials) + 1
    BY <1>2, Numbers
  <2>2. ASSUME NEW t \in DOMAIN trials
        PROVE  /\ trials'[t].outcome \in Outcomes
               /\ Genuine(trials'[t].executed) /\ Len(trials'[t].executed) <= MaxCalls
               /\ Verdict(trials'[t].executed, trials'[t].outcome)
    <3>1. trials'[t] = trials[t]
      BY <1>2, Numbers
    <3> QED
      BY <3>1 DEF HarnessInv, TrialsInv
  <2>3. Len(executed) <= MaxCalls
    BY Numbers DEF HarnessInv, CallInv
  <2>4. /\ trial.outcome \in Outcomes
        /\ Genuine(trial.executed) /\ Len(trial.executed) <= MaxCalls
        /\ Verdict(trial.executed, trial.outcome)
    BY <1>1, <2>3 DEF HarnessInv, RunningInv
  <2> HIDE DEF trial
  <2>5. \A t \in DOMAIN trials' :
          /\ trials'[t].outcome \in Outcomes
          /\ Genuine(trials'[t].executed) /\ Len(trials'[t].executed) <= MaxCalls
          /\ Verdict(trials'[t].executed, trials'[t].outcome)
    BY <1>2, <2>1, <2>2, <2>4
  <2>6. \A r, v : Verdict(r, v)' <=> Verdict(r, v)
    BY <1>1 DEF Verdict, Over, Expected
  <2> QED
    BY <2>5, <1>1 DEF TrialsInv, Verdict, Over, Expected
<1>6. ReportInv'
  BY <1>1 DEF ReportInv
<1> QED
  BY <1>3, <1>4, <1>5, <1>6 DEF HarnessInv

(* The report is made. *)
LEMMA MakeReportKeeps ==
  ASSUME HarnessInv, MakeReport
  PROVE  HarnessInv'
<1>1. /\ UNCHANGED <<task, executed, outcome, asked, trials>>
      /\ phase = "report" /\ phase' = "done" /\ evalReport' = EvalReport
  BY DEF MakeReport, gradeVars, inputVars
<1>2. PhaseInv' /\ CallInv'
  BY <1>1 DEF HarnessInv, PhaseInv, CallInv, Phases
<1>3. ReportInv'
  BY <1>1, ReportKeeps DEF ReportInv
<1> QED
  BY <1>1, <1>2, <1>3, RunningKeeps, TrialsKeep DEF HarnessInv

LEMMA AgentOrHarnessKeeps ==
  ASSUME HarnessInv, AgentOrHarness
  PROVE  HarnessInv'
<1>1. CASE AgentCatches \/ AgentFails
  BY <1>1, AgentFailsKeeps DEF AgentCatches, AgentFails, gradeVars, inputVars
<1>2. CASE \E claimed \in ClaimLists, escalates \in BOOLEAN : AgentReturns(claimed, escalates)
  BY <1>2, AgentReturnsKeeps
<1>3. CASE Grade
  BY <1>3, GradeKeeps
<1>4. CASE MakeReport
  BY <1>4, MakeReportKeeps
<1> QED
  BY <1>1, <1>2, <1>3, <1>4 DEF AgentOrHarness

(* Steps that are none of the harness's. *)
LEMMA HarnessStutters ==
  ASSUME HarnessInv, UNCHANGED <<gradeVars, controlVars>>
  PROVE  HarnessInv'
<1>1. UNCHANGED <<task, executed, outcome, phase, calling, asked, trials, evalReport>>
  BY DEF gradeVars, inputVars, controlVars
<1>2. PhaseInv' /\ CallInv'
  BY <1>1 DEF HarnessInv, PhaseInv, CallInv, Duplicate
<1>3. ReportInv'
  BY <1>1, ReportKeeps DEF HarnessInv, ReportInv
<1> QED
  BY <1>1, <1>2, <1>3, RunningKeeps, TrialsKeep DEF HarnessInv

-----------------------------------------------------------------------------
(* What the report is worth: nothing here depends on the executor, only on *)
(* the record of every trial being what the trial has cost.                *)

RecordsAreExact == \A t \in 1..NTrials : spent[t] = DebitsOf(RecordOf(t))

(* Of a graded trial the record is the one that was graded. *)
LEMMA GradedRecord ==
  ASSUME HarnessInv, NEW t \in DOMAIN trials
  PROVE  /\ t \in 1..NTrials /\ RecordOf(t) = trials[t].executed
         /\ Genuine(trials[t].executed)
<1>1. t \in 1..NTrials
  BY Numbers DEF HarnessInv, PhaseInv
<1> QED
  BY <1>1 DEF RecordOf, HarnessInv, TrialsInv

LEMMA GradedDebits ==
  ASSUME HarnessInv, RecordsAreExact, NEW t \in DOMAIN trials
  PROVE  /\ spent[t] = DebitsOf(trials[t].executed)
         /\ Total(spent[t]) = Total(trials[t].executed)
         /\ Total(spent[t]) \in Nat
         /\ DOMAIN spent[t] = DOMAIN trials[t].executed
         /\ Len(spent[t]) = Len(trials[t].executed)
         /\ \A n \in DOMAIN spent[t] :
              /\ spent[t][n].vendor = trials[t].executed[n].vendor
              /\ spent[t][n].amount = trials[t].executed[n].amount
<1> DEFINE s == trials[t].executed
<1>1. Genuine(s) /\ IsList(s) /\ spent[t] = DebitsOf(s)
  BY GradedRecord DEF RecordsAreExact, Genuine
<1> HIDE DEF s
<1>2. Total(DebitsOf(s)) = Total(s) /\ Total(s) \in Nat
  BY <1>1, DebitsTotal, TotalIsANumber
<1>3. /\ Len(DebitsOf(s)) = Len(s) /\ DOMAIN DebitsOf(s) = DOMAIN s
      /\ \A n \in DOMAIN s : DebitsOf(s)[n] = AsDebit(s[n])
  BY <1>1, DebitsProperties
<1>4. \A n \in DOMAIN s : DebitsOf(s)[n].vendor = s[n].vendor /\ DebitsOf(s)[n].amount = s[n].amount
  BY <1>3 DEF AsDebit
<1> QED
  BY <1>1, <1>2, <1>3, <1>4 DEF s

LEMMA AllGraded ==
  ASSUME HarnessInv, phase = "done"
  PROVE  DOMAIN trials = 1..NTrials
BY Numbers DEF HarnessInv, PhaseInv

(* Exact records make an exact count of the trials over budget. *)
LEMMA BudgetIsCounted ==
  ASSUME HarnessInv, RecordsAreExact
  PROVE  BudgetCountIsExact
<1> SUFFICES ASSUME phase = "done"
             PROVE  evalReport.budgetViolations =
                      Cardinality({t \in 1..NTrials :
                        task.adherence /\ Total(spent[t]) > task.cap})
  BY DEF BudgetCountIsExact
<1>1. {t \in 1..NTrials : task.adherence /\ Total(spent[t]) > task.cap}
        = {t \in DOMAIN trials : task.adherence /\ Total(trials[t].executed) > task.cap}
  BY AllGraded, GradedDebits
<1>2. evalReport.budgetViolations = BudgetViolations
  BY DEF HarnessInv, ReportInv, EvalReport
<1> QED
  BY <1>1, <1>2 DEF BudgetViolations

(* A PASS cost exactly the expected purchase. *)
LEMMA PassIsOnePurchase ==
  ASSUME HarnessInv, RecordsAreExact
  PROVE  PassMeansOnePurchase
<1> SUFFICES ASSUME NEW t \in DOMAIN trials, trials[t].outcome = "pass"
             PROVE  IF task.expected = NoVendor THEN spent[t] = << >>
                    ELSE /\ Len(spent[t]) = 1
                         /\ spent[t][1].vendor = task.expected
                         /\ spent[t][1].amount <= task.maxPrice
  BY DEF PassMeansOnePurchase
<1>1. Expected(trials[t].executed)
  BY DEF HarnessInv, TrialsInv, Verdict
<1>2. CASE task.expected = NoVendor
  <2>1. spent[t] = DebitsOf(<< >>)
    BY <1>1, <1>2, GradedDebits DEF Expected
  <2> QED
    BY <1>2, <2>1, DebitsOfNone
<1>3. CASE task.expected # NoVendor
  <2>1. /\ Len(trials[t].executed) = 1
        /\ trials[t].executed[1].vendor = task.expected
        /\ trials[t].executed[1].amount <= task.maxPrice
    BY <1>1, <1>3 DEF Expected
  <2>2. DOMAIN trials[t].executed = 1..Len(trials[t].executed)
    BY GradedRecord, ListProperties DEF Genuine
  <2>3. 1 \in DOMAIN spent[t]
    BY <2>1, <2>2, GradedDebits
  <2> QED
    BY <1>3, <2>1, <2>3, GradedDebits
<1> QED
  BY <1>2, <1>3

(* vendor_outcomes counts every purchase once, and none that is not there. *)
LEMMA VendorsAreCounted ==
  ASSUME HarnessInv, RecordsAreExact
  PROVE  VendorOutcomesAreExact
<1> SUFFICES ASSUME phase = "done", NEW v
             PROVE  Cardinality({tn \in (1..NTrials) \X (1..MaxCalls) :
                      tn[2] \in DOMAIN spent[tn[1]] /\ spent[tn[1]][tn[2]].vendor = v})
                    = IF v \in DOMAIN evalReport.vendorOutcomes
                      THEN evalReport.vendorOutcomes[v].successes ELSE 0
  BY DEF VendorOutcomesAreExact
<1> DEFINE bought == {tn \in (1..NTrials) \X (1..MaxCalls) :
                        tn[2] \in DOMAIN spent[tn[1]] /\ spent[tn[1]][tn[2]].vendor = v}
           counted == {tn \in (DOMAIN trials) \X (1..MaxCalls) :
                         /\ tn[2] \in DOMAIN trials[tn[1]].executed
                         /\ trials[tn[1]].executed[tn[2]].vendor = v
                         /\ trials[tn[1]].executed[tn[2]].verified = TRUE}
<1>1. bought = counted
  <2>1. ASSUME NEW t \in 1..NTrials, NEW n \in 1..MaxCalls
        PROVE  (n \in DOMAIN spent[t] /\ spent[t][n].vendor = v)
                 <=> /\ n \in DOMAIN trials[t].executed
                     /\ trials[t].executed[n].vendor = v
                     /\ trials[t].executed[n].verified = TRUE
    <3>1. t \in DOMAIN trials
      BY AllGraded
    <3>2. \A m \in DOMAIN trials[t].executed : trials[t].executed[m].verified = TRUE
      BY <3>1, GradedRecord DEF Genuine
    <3> QED
      BY <3>1, <3>2, GradedDebits
  <2>2. DOMAIN trials = 1..NTrials
    BY AllGraded
  <2>3. \A tn \in (1..NTrials) \X (1..MaxCalls) : tn[1] \in 1..NTrials /\ tn[2] \in 1..MaxCalls
    OBVIOUS
  <2> QED
    BY <2>1, <2>2, <2>3
<1>2. /\ DOMAIN evalReport.vendorOutcomes = Recorded
      /\ v \in Recorded => evalReport.vendorOutcomes[v].successes = VendorOutcome(v, TRUE)
  <2> HIDE DEF bought, counted
  <2>1. evalReport.vendorOutcomes =
          [w \in Recorded |->
            [successes |-> VendorOutcome(w, TRUE), failures |-> VendorOutcome(w, FALSE)]]
    <3>1. evalReport = EvalReport
      BY DEF HarnessInv, ReportInv
    <3>2. EvalReport.vendorOutcomes =
          [w \in Recorded |->
            [successes |-> VendorOutcome(w, TRUE), failures |-> VendorOutcome(w, FALSE)]]
      BY DEF EvalReport
    <3> QED
      BY <3>1, <3>2
  <2>2. DOMAIN evalReport.vendorOutcomes = Recorded
    BY <2>1
  <2> DEFINE good == VendorOutcome(v, TRUE)
             bad == VendorOutcome(v, FALSE)
  <2>3. v \in Recorded => evalReport.vendorOutcomes[v] = [successes |-> good, failures |-> bad]
    BY <2>1
  <2> HIDE DEF good, bad
  <2>4. v \in Recorded => evalReport.vendorOutcomes[v].successes = good
    BY <2>3
  <2> QED
    BY <2>2, <2>4 DEF good
<1>3. VendorOutcome(v, TRUE) = Cardinality(counted)
  BY DEF VendorOutcome
<1>4. v \notin Recorded => counted = {}
  <2> SUFFICES ASSUME NEW tn \in counted PROVE v \in Recorded
    OBVIOUS
  <2>1. /\ tn[1] \in DOMAIN trials /\ tn[2] \in DOMAIN trials[tn[1]].executed
        /\ trials[tn[1]].executed[tn[2]].vendor = v
    OBVIOUS
  <2>2. v \in {trials[tn[1]].executed[n].vendor : n \in DOMAIN trials[tn[1]].executed}
    BY <2>1
  <2> QED
    BY <2>1, <2>2 DEF Recorded
<1> HIDE DEF counted
<1> QED
  BY <1>1, <1>2, <1>3, <1>4, FS_EmptySet

(* The trials that count as captures are among those that bought the       *)
(* cheapest in-policy vendor and stayed within the cap.                    *)
LEMMA CapturesWereBought ==
  ASSUME HarnessInv, RecordsAreExact
  PROVE  CapturesAreReal
<1> DEFINE real == {t \in 1..NTrials :
                      /\ \E n \in DOMAIN spent[t] : spent[t][n].vendor = CheapestInPolicy(task)
                      /\ task.adherence => Total(spent[t]) <= task.cap}
           counted == {t \in DOMAIN trials :
                         /\ trials[t].outcome \notin {"budget_violation", "unverified_claim"}
                         /\ Len(trials[t].executed) = 1
                         /\ trials[t].executed[1].vendor = CheapestInPolicy(task)}
<1> SUFFICES ASSUME phase = "done", evalReport.captures # NotApplicable
             PROVE  evalReport.captures <= Cardinality(real)
  BY DEF CapturesAreReal
<1>1. evalReport.captures = Cardinality(counted)
  <2>1. evalReport.captures = Captures
    BY DEF HarnessInv, ReportInv, EvalReport
  <2> QED
    BY <2>1 DEF Captures
<1>2. counted \subseteq real
  <2> SUFFICES ASSUME NEW t \in counted PROVE t \in real
    OBVIOUS
  <2>1. /\ t \in DOMAIN trials /\ Len(trials[t].executed) = 1
        /\ trials[t].outcome \notin {"budget_violation", "unverified_claim"}
        /\ trials[t].executed[1].vendor = CheapestInPolicy(task)
    OBVIOUS
  <2> HIDE DEF counted
  <2>2. trials[t].outcome \in {"pass", "fail"}
    BY <2>1 DEF HarnessInv, TrialsInv, Outcomes
  <2>3. ~(task.adherence /\ Total(trials[t].executed) > task.cap)
    BY <2>1, <2>2 DEF HarnessInv, TrialsInv, Verdict, Over
  <2>4. 1 \in DOMAIN trials[t].executed
    BY <2>1, GradedRecord, ListProperties DEF Genuine
  <2>5. 1 \in DOMAIN spent[t] /\ spent[t][1].vendor = CheapestInPolicy(task)
    BY <2>1, <2>4, GradedDebits
  <2>6. task.cap \in Nat
    BY TaskAssumption DEF HarnessInv, PhaseInv
  <2>7. task.adherence => Total(spent[t]) <= task.cap
    BY <2>1, <2>3, <2>6, GradedDebits
  <2>8. t \in 1..NTrials
    BY <2>1, GradedRecord
  <2> QED
    BY <2>5, <2>7, <2>8
<1>3. IsFiniteSet(real)
  <2>1. real \in SUBSET (1..NTrials) /\ IsFiniteSet(1..NTrials)
    BY FS_Interval, HarnessAssumption
  <2> QED
    BY <2>1, FS_Subset
<1> HIDE DEF real, counted
<1> QED
  BY <1>1, <1>2, <1>3, FS_Subset

-----------------------------------------------------------------------------
(* Ways to choose *)

(* The equation that defines the factorials up to m, and that it has a     *)
(* solution.                                                               *)
Factorials(g, m) == g = [n \in 0..m |-> IF n = 0 THEN 1 ELSE n * g[n - 1]]

LEMMA FactorialsExist ==
  ASSUME NEW m \in Nat
  PROVE  \E g : Factorials(g, m)
<1> DEFINE Bad == {k \in 0..m : ~ \E g : Factorials(g, k)}
<1> SUFFICES ASSUME Bad # {} PROVE FALSE
  <2>1. m \in 0..m
    OBVIOUS
  <2>2. m \notin Bad => \E g : Factorials(g, m)
    BY <2>1
  <2> QED
    BY <2>2
<1>1. PICK k \in Bad : \A l \in Bad : k <= l
  <2>1. Bad \subseteq Nat
    OBVIOUS
  <2> HIDE DEF Bad
  <2> QED
    BY <2>1, LeastNumber
<1>2. k \in 0..m /\ k \in Nat
  BY <1>1
<1>3. k # 0
  <2> SUFFICES ASSUME k = 0 PROVE FALSE
    OBVIOUS
  <2> DEFINE g == [n \in 0..0 |-> 1]
  <2>1. Factorials(g, k)
    BY DEF Factorials
  <2> QED
    BY <1>1, <2>1
<1>4. k - 1 \in 0..m /\ k - 1 \notin Bad
  <2>1. k - 1 \in 0..m /\ ~(k <= k - 1)
    BY <1>2, <1>3
  <2> QED
    BY <1>1, <2>1
<1>5. PICK g : Factorials(g, k - 1)
  BY <1>4
<1> DEFINE h == [n \in 0..k |-> IF n = k THEN k * g[k - 1] ELSE g[n]]
<1>6. \A n \in 0..k : h[n] = IF n = 0 THEN 1 ELSE n * h[n - 1]
  <2> SUFFICES ASSUME NEW n \in 0..k
               PROVE  h[n] = IF n = 0 THEN 1 ELSE n * h[n - 1]
    OBVIOUS
  <2>1. CASE n = k
    BY <1>2, <1>3, <2>1
  <2>2. CASE n # k
    <3>1. n \in 0..(k - 1) /\ h[n] = g[n]
      BY <1>2, <2>2
    <3>2. g[n] = IF n = 0 THEN 1 ELSE n * g[n - 1]
      BY <1>5, <3>1 DEF Factorials
    <3>3. n # 0 => h[n - 1] = g[n - 1]
      BY <1>2, <3>1
    <3> QED
      BY <3>1, <3>2, <3>3
  <2> QED
    BY <2>1, <2>2
<1>7. h = [n \in 0..k |-> h[n]]
  OBVIOUS
<1> HIDE DEF h
<1>8. Factorials(h, k)
  BY <1>6, <1>7 DEF Factorials
<1> QED
  BY <1>1, <1>8

LEMMA FactorialSteps ==
  /\ factorial[0] = 1
  /\ \A n \in 1..NTrials : factorial[n] = n * factorial[n - 1]
<1> DEFINE g == CHOOSE h : Factorials(h, NTrials)
<1>1. Factorials(g, NTrials)
  BY FactorialsExist, HarnessAssumption
<1>2. factorial = g
  BY DEF factorial, Factorials
<1> HIDE DEF g
<1>3. \A n \in 0..NTrials : factorial[n] = IF n = 0 THEN 1 ELSE n * factorial[n - 1]
  BY <1>1, <1>2 DEF Factorials
<1> QED
  BY <1>3, HarnessAssumption

LEMMA FactorialIsPositive ==
  ASSUME NEW n \in 0..NTrials
  PROVE  factorial[n] \in Nat \ {0}
<1> DEFINE Bad == {k \in 0..NTrials : factorial[k] \notin Nat \ {0}}
<1> SUFFICES ASSUME Bad # {} PROVE FALSE
  OBVIOUS
<1>1. PICK k \in Bad : \A l \in Bad : k <= l
  <2>1. Bad \subseteq Nat
    OBVIOUS
  <2> HIDE DEF Bad
  <2> QED
    BY <2>1, LeastNumber
<1>2. CASE k = 0
  BY <1>1, <1>2, FactorialSteps
<1>3. CASE k # 0
  <2>1. k \in 1..NTrials /\ k \in Nat /\ k - 1 \in 0..NTrials /\ ~(k <= k - 1)
    BY <1>1, <1>3, HarnessAssumption
  <2>2. factorial[k - 1] \in Nat \ {0} /\ factorial[k] = k * factorial[k - 1]
    BY <1>1, <2>1, FactorialSteps
  <2>3. k * factorial[k - 1] \in Nat \ {0}
    BY <1>3, <2>1, <2>2
  <2> QED
    BY <1>1, <2>2, <2>3
<1> QED
  BY <1>2, <1>3

Choices(S, k) == {ts \in SUBSET S : Cardinality(ts) = k}

(* Of the ways to choose k elements of S, some leave x out and the others  *)
(* choose k - 1 elements beside it.                                        *)
LEMMA ChoicesAddUp ==
  ASSUME NEW S, IsFiniteSet(S), NEW x \in S, NEW k \in Nat \ {0}
  PROVE  /\ IsFiniteSet(Choices(S, k))
         /\ Cardinality(Choices(S, k)) =
              Cardinality(Choices(S \ {x}, k)) + Cardinality(Choices(S \ {x}, k - 1))
<1> DEFINE T == S \ {x}
           A == Choices(T, k)
           B == Choices(T, k - 1)
           f == [ts \in B |-> ts \cup {x}]
           C == {ts \cup {x} : ts \in B}
<1>1. IsFiniteSet(T) /\ \A ts \in SUBSET T : IsFiniteSet(ts)
  BY FS_Subset
<1>2. IsFiniteSet(A) /\ IsFiniteSet(B)
  <2>1. A \in SUBSET (SUBSET T) /\ B \in SUBSET (SUBSET T)
    BY DEF Choices
  <2> QED
    BY <1>1, <2>1, FS_SUBSET, FS_Subset
<1>3. IsFiniteSet(C) /\ Cardinality(C) = Cardinality(B)
  <2>1. f \in [B -> C] /\ \A c \in C : \E b \in B : f[b] = c
    OBVIOUS
  <2>2. \A b1, b2 \in B : f[b1] = f[b2] => b1 = b2
    <3> SUFFICES ASSUME NEW b1 \in B, NEW b2 \in B, f[b1] = f[b2] PROVE b1 = b2
      OBVIOUS
    <3>1. b1 \cup {x} = b2 \cup {x} /\ x \notin b1 /\ x \notin b2
      BY DEF Choices
    <3> QED
      BY <3>1
  <2>3. f \in Bijection(B, C)
    BY <2>1, <2>2 DEF Bijection, Injection, IsInjective, Surjection
  <2>4. ExistsBijection(B, C)
    BY <2>3 DEF ExistsBijection
  <2> QED
    BY <1>2, <2>4, FS_Bijection
<1>4. A \cap C = {}
  BY DEF Choices
<1>5. Choices(S, k) = A \cup C
  <2>1. ASSUME NEW ts \in Choices(S, k) PROVE ts \in A \cup C
    <3>1. ts \in SUBSET S /\ Cardinality(ts) = k /\ IsFiniteSet(ts)
      BY FS_Subset DEF Choices
    <3>2. CASE x \notin ts
      BY <3>1, <3>2 DEF Choices
    <3>3. CASE x \in ts
      <4>1. Cardinality(ts \ {x}) = k - 1 /\ ts \ {x} \in SUBSET T
        BY <3>1, <3>3, FS_RemoveElement
      <4>2. ts \ {x} \in B /\ (ts \ {x}) \cup {x} = ts
        BY <3>3, <4>1 DEF Choices
      <4> QED
        BY <4>2
    <3> QED
      BY <3>2, <3>3
  <2>2. ASSUME NEW ts \in A PROVE ts \in Choices(S, k)
    BY DEF Choices
  <2>3. ASSUME NEW ts \in B PROVE ts \cup {x} \in Choices(S, k)
    <3>1. ts \in SUBSET T /\ Cardinality(ts) = k - 1 /\ IsFiniteSet(ts) /\ x \notin ts
      BY <1>1 DEF Choices
    <3>2. Cardinality(ts \cup {x}) = Cardinality(ts) + 1
      BY <3>1, FS_AddElement
    <3>3. Cardinality(ts \cup {x}) = k
      BY <3>1, <3>2
    <3> QED
      BY <3>1, <3>3 DEF Choices
  <2> QED
    BY <2>1, <2>2, <2>3
<1> HIDE DEF A, B, C, f
<1>6. Cardinality(A \cup C) = Cardinality(A) + Cardinality(C) - Cardinality(A \cap C)
      /\ IsFiniteSet(A \cup C)
  BY <1>2, <1>3, FS_Union
<1>7. Cardinality(A) \in Nat /\ Cardinality(B) \in Nat /\ Cardinality(A \cap C) = 0
  BY <1>2, <1>4, FS_CardinalityType, FS_EmptySet
<1> QED
  BY <1>3, <1>5, <1>6, <1>7 DEF A, B

(* A product of numbers divided by one of them. *)
LEMMA DivideProduct ==
  ASSUME NEW q \in Nat, NEW d \in Nat \ {0}
  PROVE  (q * d) \div d = q
OBVIOUS

LEMMA AddProducts ==
  ASSUME NEW a \in Nat, NEW b \in Nat, NEW p \in Nat, NEW q \in Nat, NEW k \in Nat, NEW m \in Nat,
         NEW F \in Nat, a * ((k * p) * q) = F, b * (p * (m * q)) = F
  PROVE  (a + b) * ((k * p) * (m * q)) = (k + m) * F
<1>1. (a + b) * ((k * p) * (m * q)) = m * (a * ((k * p) * q)) + k * (b * (p * (m * q)))
  OBVIOUS
<1> QED
  BY <1>1

LEMMA ExtremeChoices ==
  ASSUME NEW S, IsFiniteSet(S)
  PROVE  /\ Cardinality(Choices(S, 0)) = 1
         /\ Cardinality(Choices(S, Cardinality(S))) = 1
<1>1. \A ts \in SUBSET S : /\ IsFiniteSet(ts)
                           /\ Cardinality(ts) = 0 <=> ts = {}
                           /\ Cardinality(S) = Cardinality(ts) => S = ts
  BY FS_Subset, FS_EmptySet
<1>2. Choices(S, 0) = {{}} /\ Choices(S, Cardinality(S)) = {S}
  BY <1>1 DEF Choices
<1> QED
  BY <1>2, FS_Singleton

(* There are n! / (k! (n - k)!) ways to choose k of n trials: no smallest  *)
(* set of trials is counted wrong.                                         *)
LEMMA ChoicesAreCounted ==
  ASSUME NEW S \in SUBSET (1..NTrials), NEW k \in 0..Cardinality(S)
  PROVE  /\ Cardinality(S) \in 0..NTrials
         /\ Cardinality(Choices(S, k)) \in Nat
         /\ Cardinality(Choices(S, k)) * (factorial[k] * factorial[Cardinality(S) - k])
              = factorial[Cardinality(S)]
<1> DEFINE N == 1..NTrials
           Count(T, i) == Cardinality(Choices(T, i))
           Right(T, i) ==
             Count(T, i) * (factorial[i] * factorial[Cardinality(T) - i])
               = factorial[Cardinality(T)]
           Bad == {n \in 0..NTrials :
                     \E T \in SUBSET N : /\ Cardinality(T) = n
                                         /\ \E i \in 0..n : ~Right(T, i)}
<1>1. ASSUME NEW T \in SUBSET N
      PROVE  /\ IsFiniteSet(T) /\ Cardinality(T) \in 0..NTrials
             /\ \A i : Count(T, i) \in Nat
  <2>1. IsFiniteSet(N) /\ Cardinality(N) = NTrials
    BY FS_Interval, HarnessAssumption
  <2>2. IsFiniteSet(T) /\ Cardinality(T) <= NTrials /\ Cardinality(T) \in Nat
    BY <2>1, FS_Subset, FS_CardinalityType
  <2>3. \A i : Choices(T, i) \in SUBSET (SUBSET T)
    BY DEF Choices
  <2>4. \A i : IsFiniteSet(Choices(T, i))
    BY <2>2, <2>3, FS_SUBSET, FS_Subset
  <2>5. \A i : Count(T, i) \in Nat
    BY <2>4, FS_CardinalityType
  <2> QED
    BY <2>2, <2>5, HarnessAssumption
<1>2. Bad = {}
  <2> SUFFICES ASSUME Bad # {} PROVE FALSE
    OBVIOUS
  <2>1. PICK n \in Bad : \A l \in Bad : n <= l
    <3>1. Bad \subseteq Nat
      OBVIOUS
    <3> HIDE DEF Bad
    <3> QED
      BY <3>1, LeastNumber
  <2>2. PICK T \in SUBSET N, i \in 0..n : Cardinality(T) = n /\ ~Right(T, i)
    BY <2>1
  <2>3. IsFiniteSet(T) /\ n \in 0..NTrials /\ n \in Nat /\ i \in Nat
    BY <1>1, <2>1, <2>2
  <2>4. factorial[n] \in Nat \ {0} /\ factorial[0] = 1
    BY <2>3, FactorialIsPositive, FactorialSteps
  <2>5. CASE i = 0 \/ i = n
    <3>1. Count(T, i) = 1
      BY <2>2, <2>3, <2>5, ExtremeChoices
    <3>2. factorial[i] * factorial[n - i] = factorial[n]
      BY <2>3, <2>4, <2>5
    <3> HIDE DEF Count
    <3>3. Right(T, i)
      BY <2>2, <2>4, <3>1, <3>2
    <3> QED
      BY <2>2, <3>3
  <2>6. CASE i # 0 /\ i # n
    <3> DEFINE j == n - i
    <3>1. i \in 1..(n - 1) /\ j \in 1..(n - 1) /\ n = i + j /\ n \in 1..NTrials
      BY <2>2, <2>3, <2>6, HarnessAssumption
    <3>2. PICK x \in T : TRUE
      <4>1. T # {}
        BY <2>2, <3>1, FS_EmptySet
      <4> QED
        BY <4>1
    <3> DEFINE U == T \ {x}
    <3>3. U \in SUBSET N /\ Cardinality(U) = n - 1
      BY <2>2, <2>3, FS_RemoveElement
    <3>4. n - 1 \in 0..NTrials /\ n - 1 \notin Bad
      BY <2>1, <3>1, HarnessAssumption
    <3>5. i \in 0..(n - 1) /\ i - 1 \in 0..(n - 1)
      BY <3>1
    <3>6. Right(U, i) /\ Right(U, i - 1)
      BY <3>3, <3>4, <3>5
    <3>7. Count(T, i) = Count(U, i) + Count(U, i - 1)
      BY <2>3, <3>1, ChoicesAddUp
    <3> HIDE DEF Count, j, U
    <3>8. Count(U, i) \in Nat /\ Count(U, i - 1) \in Nat
      BY <1>1, <3>3
    <3>9. /\ factorial[i] = i * factorial[i - 1]
          /\ factorial[j] = j * factorial[j - 1]
          /\ factorial[n] = n * factorial[n - 1]
          /\ factorial[i - 1] \in Nat /\ factorial[j - 1] \in Nat
          /\ factorial[n - 1] \in Nat
      <4>1. i \in 1..NTrials /\ j \in 1..NTrials /\ i - 1 \in 0..NTrials
            /\ j - 1 \in 0..NTrials /\ n - 1 \in 0..NTrials
        BY <3>1, HarnessAssumption
      <4> QED
        BY <3>1, <4>1, FactorialSteps, FactorialIsPositive
    <3>10. (n - 1) - i = j - 1 /\ (n - 1) - (i - 1) = j /\ n - i = j
      BY <3>1 DEF j
    <3>11. /\ Count(U, i) * ((i * factorial[i - 1]) * factorial[j - 1]) = factorial[n - 1]
           /\ Count(U, i - 1) * (factorial[i - 1] * (j * factorial[j - 1])) = factorial[n - 1]
      BY <3>3, <3>6, <3>9, <3>10
    <3>12. i \in Nat /\ j \in Nat
      BY <3>1
    <3>13. (Count(U, i) + Count(U, i - 1))
             * ((i * factorial[i - 1]) * (j * factorial[j - 1])) = (i + j) * factorial[n - 1]
      <4> DEFINE a == Count(U, i)
                 b == Count(U, i - 1)
                 p == factorial[i - 1]
                 q == factorial[j - 1]
                 F == factorial[n - 1]
      <4>1. /\ a \in Nat /\ b \in Nat /\ p \in Nat /\ q \in Nat /\ F \in Nat
            /\ i \in Nat /\ j \in Nat
            /\ a * ((i * p) * q) = F /\ b * (p * (j * q)) = F
        BY <3>8, <3>9, <3>11, <3>12
      <4> HIDE DEF a, b, p, q, F
      <4>2. (a + b) * ((i * p) * (j * q)) = (i + j) * F
        BY <4>1, AddProducts
      <4> QED
        BY <4>2 DEF a, b, p, q, F
    <3>14. Count(T, i) * (factorial[i] * factorial[j]) = factorial[n]
      BY <3>1, <3>7, <3>9, <3>13
    <3>15. Right(T, i)
      BY <2>2, <3>10, <3>14
    <3> QED
      BY <2>2, <3>15
  <2> QED
    BY <2>5, <2>6
<1>3. Cardinality(S) \notin Bad /\ Cardinality(S) \in 0..NTrials /\ Count(S, k) \in Nat
  BY <1>1, <1>2
<1>4. Right(S, k)
  BY <1>3
<1> QED
  BY <1>3, <1>4

LEMMA CombCounts ==
  ASSUME NEW S \in SUBSET (1..NTrials), NEW k \in 0..Cardinality(S)
  PROVE  Comb(Cardinality(S), k) = Cardinality(Choices(S, k))
<1> DEFINE n == Cardinality(S)
           q == Cardinality(Choices(S, k))
<1>1. n \in 0..NTrials /\ q \in Nat /\ q * (factorial[k] * factorial[n - k]) = factorial[n]
  BY ChoicesAreCounted
<1> HIDE DEF q
<1>2. k \in 0..NTrials /\ n - k \in 0..NTrials
  BY <1>1, HarnessAssumption
<1>3. factorial[k] \in Nat \ {0} /\ factorial[n - k] \in Nat \ {0}
  BY <1>2, FactorialIsPositive
<1>4. factorial[k] * factorial[n - k] \in Nat \ {0}
  BY <1>3
<1>5. (q * (factorial[k] * factorial[n - k])) \div (factorial[k] * factorial[n - k]) = q
  BY <1>1, <1>4, DivideProduct
<1> QED
  BY <1>1, <1>5 DEF Comb, q

(* pass_k counts the ways to choose k trials that all passed, and the ways *)
(* to choose k trials.                                                     *)
LEMMA PassKCounts ==
  ASSUME HarnessInv
  PROVE  PassKIsExact
<1> SUFFICES ASSUME phase = "done", NEW k \in DOMAIN evalReport.passK
             PROVE  LET choices == {ts \in SUBSET (1..NTrials) : Cardinality(ts) = k}
                        allPass == {ts \in choices : \A t \in ts : trials[t].outcome = "pass"}
                        share == evalReport.passK[k]
                    IN /\ choices # {}
                       /\ share[1] * Cardinality(choices) = share[2] * Cardinality(allPass)
  BY DEF PassKIsExact
<1> DEFINE N == 1..NTrials
           P == Graded("pass")
<1>1. DOMAIN trials = N
  BY AllGraded
<1>2. {ts \in Choices(N, k) : \A t \in ts : trials[t].outcome = "pass"} = Choices(P, k)
  BY <1>1 DEF Choices, Graded
<1>3. k \in PassKValues /\ k <= NTrials /\ evalReport.passK[k] = PassK(Cardinality(P), k)
  BY DEF HarnessInv, ReportInv, EvalReport
<1>4. k \in 0..NTrials /\ IsFiniteSet(N) /\ Cardinality(N) = NTrials
  BY <1>3, FS_Interval, HarnessAssumption
<1>5. P \in SUBSET N /\ IsFiniteSet(P) /\ Cardinality(P) \in Nat
  <2>1. P \in SUBSET N
    BY <1>1 DEF Graded
  <2> QED
    BY <1>4, <2>1, FS_Subset, FS_CardinalityType
<1>6. N \in SUBSET N /\ k \in 0..Cardinality(N)
  BY <1>4
<1>7. /\ Comb(NTrials, k) = Cardinality(Choices(N, k))
      /\ Cardinality(Choices(N, k)) \in Nat
      /\ Cardinality(Choices(N, k)) # 0
  <2>1. /\ Cardinality(Choices(N, k)) \in Nat
        /\ Cardinality(Choices(N, k)) * (factorial[k] * factorial[Cardinality(N) - k])
             = factorial[Cardinality(N)]
    BY <1>6, ChoicesAreCounted
  <2>2. NTrials - k \in 0..NTrials /\ NTrials \in 0..NTrials
    BY <1>4, HarnessAssumption
  <2>3. /\ factorial[k] \in Nat /\ factorial[NTrials - k] \in Nat
        /\ factorial[NTrials] \in Nat \ {0}
    BY <1>4, <2>2, FactorialIsPositive
  <2>4. Cardinality(Choices(N, k)) # 0
    BY <1>4, <2>1, <2>3
  <2> QED
    BY <1>4, <1>6, <2>1, <2>4, CombCounts
<1>8. Choices(N, k) # {}
  BY <1>7, FS_EmptySet
<1>9. Cardinality(Choices(P, k)) \in Nat
  <2>1. Choices(P, k) \in SUBSET (SUBSET P)
    BY DEF Choices
  <2> QED
    BY <1>5, <2>1, FS_SUBSET, FS_Subset, FS_CardinalityType
<1> HIDE DEF P
<1>10. CASE Cardinality(P) < k
  <2>1. evalReport.passK[k] = <<0, 1>>
    BY <1>3, <1>10 DEF PassK
  <2>2. Choices(P, k) = {}
    <3>1. \A ts \in SUBSET P : Cardinality(ts) <= Cardinality(P) /\ Cardinality(ts) \in Nat
      BY <1>5, FS_Subset, FS_CardinalityType
    <3> QED
      BY <1>4, <1>5, <1>10, <3>1 DEF Choices
  <2>3. Cardinality(Choices(P, k)) = 0
    BY <2>2, FS_EmptySet
  <2>4. evalReport.passK[k][1] * Cardinality(Choices(N, k))
          = evalReport.passK[k][2] * Cardinality(Choices(P, k))
    BY <1>7, <2>1, <2>3
  <2> QED
    BY <1>2, <1>8, <2>4 DEF Choices
<1>11. CASE ~(Cardinality(P) < k)
  <2>1. evalReport.passK[k] = <<Comb(Cardinality(P), k), Comb(NTrials, k)>>
    BY <1>3, <1>11 DEF PassK
  <2>2. k \in 0..Cardinality(P)
    BY <1>4, <1>5, <1>11
  <2>3. Comb(Cardinality(P), k) = Cardinality(Choices(P, k))
    BY <1>5, <2>2, CombCounts
  <2>4. evalReport.passK[k][1] * Cardinality(Choices(N, k))
          = evalReport.passK[k][2] * Cardinality(Choices(P, k))
    BY <1>7, <1>9, <2>1, <2>3
  <2> QED
    BY <1>2, <1>8, <2>4 DEF Choices
<1> QED
  BY <1>10, <1>11

-----------------------------------------------------------------------------
(* How the records move *)

LEMMA NowIsATrial ==
  ASSUME HarnessInv, phase \notin {"report", "done"}
  PROVE  Now \in 1..NTrials /\ Now \notin DOMAIN trials /\ RecordOf(Now) = executed
<1>1. Len(trials) < NTrials /\ Now = Len(trials) + 1
  BY Numbers DEF HarnessInv, PhaseInv, Now
<1>2. Now \in 1..NTrials /\ Now \notin DOMAIN trials
  BY <1>1, Numbers
<1> QED
  BY <1>2 DEF RecordOf

(* Ending a trial moves its record, and changes none. *)
LEMMA EndTrialRecords ==
  ASSUME HarnessInv, EndTrial, NEW t \in 1..NTrials
  PROVE  RecordOf(t)' = RecordOf(t)
<1>1. /\ trials' = Append(trials, [executed |-> executed, outcome |-> outcome])
      /\ executed' = << >> /\ IsList(trials)
  BY DEF EndTrial, HarnessInv, PhaseInv
<1>2. /\ Len(trials') = Len(trials) + 1 /\ DOMAIN trials' = 1..(Len(trials) + 1)
      /\ trials'[Len(trials) + 1] = [executed |-> executed, outcome |-> outcome]
      /\ \A i \in 1..Len(trials) : trials'[i] = trials[i]
  BY <1>1, ListAppend
<1>3. t \in Nat /\ Len(trials) \in Nat /\ DOMAIN trials = 1..Len(trials)
  BY Numbers
<1>4. CASE t \in DOMAIN trials
  BY <1>2, <1>3, <1>4 DEF RecordOf
<1>5. CASE t = Len(trials) + 1
  BY <1>2, <1>3, <1>5 DEF RecordOf, Now
<1>6. CASE t > Len(trials) + 1
  BY <1>1, <1>2, <1>3, <1>6 DEF RecordOf, Now
<1> QED
  BY <1>3, <1>4, <1>5, <1>6

(* Recording a purchase changes the record of the running trial alone. *)
LEMMA RecordRecords ==
  ASSUME HarnessInv, NEW p, Record(p), NEW t \in 1..NTrials
  PROVE  RecordOf(t)' = IF t = Now THEN Append(executed, p) ELSE RecordOf(t)
<1>1. UNCHANGED trials /\ executed' = Append(executed, p) /\ phase = "paying"
  BY DEF Record
<1>2. Now \notin DOMAIN trials
  BY <1>1, NowIsATrial
<1> QED
  BY <1>1, <1>2 DEF RecordOf, Now

LEMMA SameRecords ==
  ASSUME UNCHANGED <<executed, trials>>, NEW t
  PROVE  RecordOf(t)' = RecordOf(t)
BY DEF RecordOf, Now

(* The steps of the agent and the harness between calls touch no record    *)
(* and no money.                                                           *)
LEMMA AgentOrHarnessRecords ==
  ASSUME AgentOrHarness
  PROVE  UNCHANGED <<task, executed, trials, asked, calling, spent>>
BY DEF AgentOrHarness, AgentCatches, AgentFails, AgentReturns, Grade, GradeStep, PairClaim,
       RejectClaim, GradeTerminal, MakeReport, gradeVars, inputVars, controlVars
=============================================================================
