---------------------------- MODULE LiveRunProofs ----------------------------
(***************************************************************************)
(* Proofs about run_eval over real payments: for any tasks, any agent, any *)
(* number of trials and calls, and whenever an authorization is redeemed,  *)
(* what the view has recorded was really paid, once; and a trial in which  *)
(* no call was left unresolved has cost nothing else.  Of pay() only       *)
(* PaymentPromise is used, which X402PayProofs shows it to implement.      *)
(***************************************************************************)
EXTENDS LiveRun, HarnessProofs

(* At most one amount is agreed on, authorized and moved in a call. *)
OneAmount(s) == s = {} \/ \E a \in 0..CallCap : s = {a}

(* What a call of pay() keeps. *)
PromiseInv ==
  /\ OneAmount(agreed) /\ OneAmount(authorized) /\ OneAmount(moved)
  /\ moved = {} \/ moved = authorized
  /\ report \in {"pending", "refused", "paid", "unresolved"}
  /\ report = "refused" => authorized = {}
  /\ report = "paid" => moved # {}

CallingInv ==
  /\ calling \in [target : Targets, cap : {CallCap}] \cup {NoCall}
  /\ phase = "paying" => calling \in [target : Targets, cap : {CallCap}]

(* Only unresolved calls leave authorizations behind. *)
OutstandingInv ==
  \A left \in outstanding :
    left.trial \in 1..NTrials /\ left.trial \in unresolved /\ left.target \in Targets

(* The purchase that the call in progress has paid for. *)
Paid(a) == [vendor |-> VendorOf(calling.target), url |-> calling.target,
            amount |-> a, verified |-> TRUE]

(* What a trial has certainly paid: what is recorded, and what the call in *)
(* progress has paid and may still return.                                 *)
Owed(t) ==
  IF t = Now /\ phase = "paying" /\ moved # {}
  THEN Append(executed, Paid(CHOOSE a \in moved : TRUE))
  ELSE RecordOf(t)

(* Every purchase of a record has a debit of its own. *)
Backed(record, debits) ==
  \E f \in [DOMAIN record -> DOMAIN debits] :
    /\ \A m, n \in DOMAIN record : f[m] = f[n] => m = n
    /\ \A n \in DOMAIN record : debits[f[n]] = AsDebit(record[n])

MoneyInv ==
  /\ DOMAIN spent = 1..NTrials
  /\ \A t \in 1..NTrials :
       /\ IsList(spent[t])
       /\ Backed(Owed(t), spent[t])
       /\ t \notin unresolved => spent[t] = DebitsOf(Owed(t))

IInv == HarnessInv /\ CallingInv /\ PromiseInv /\ OutstandingInv /\ MoneyInv

-----------------------------------------------------------------------------
(* Debits behind records *)

LEMMA NothingIsBacked ==
  ASSUME NEW s
  PROVE  Backed(<< >>, s)
<1> DEFINE f == [n \in {} |-> n]
<1>1. DOMAIN << >> = {}
  BY EmptyList
<1>2. f \in [DOMAIN << >> -> DOMAIN s]
  BY <1>1
<1> QED
  BY <1>1, <1>2 DEF Backed

(* A debit more does no harm. *)
LEMMA BackedByMore ==
  ASSUME NEW r, NEW s, IsList(s), Backed(r, s), NEW d
  PROVE  Backed(r, Append(s, d))
<1>1. PICK f \in [DOMAIN r -> DOMAIN s] :
        /\ \A m, n \in DOMAIN r : f[m] = f[n] => m = n
        /\ \A n \in DOMAIN r : s[f[n]] = AsDebit(r[n])
  BY DEF Backed
<1>2. /\ DOMAIN s = 1..Len(s) /\ Len(s) \in Nat
      /\ DOMAIN Append(s, d) = 1..(Len(s) + 1)
      /\ \A i \in 1..Len(s) : Append(s, d)[i] = s[i]
  BY ListProperties, ListAppend
<1>3. f \in [DOMAIN r -> DOMAIN Append(s, d)]
  BY <1>1, <1>2
<1>4. \A n \in DOMAIN r : Append(s, d)[f[n]] = AsDebit(r[n])
  BY <1>1, <1>2
<1> QED
  BY <1>1, <1>3, <1>4 DEF Backed

(* A purchase more needs a debit more. *)
LEMMA BackedAppend ==
  ASSUME NEW r, NEW s, IsList(r), IsList(s), Backed(r, s), NEW p
  PROVE  Backed(Append(r, p), Append(s, AsDebit(p)))
<1>1. PICK f \in [DOMAIN r -> DOMAIN s] :
        /\ \A m, n \in DOMAIN r : f[m] = f[n] => m = n
        /\ \A n \in DOMAIN r : s[f[n]] = AsDebit(r[n])
  BY DEF Backed
<1> DEFINE rr == Append(r, p)
           ss == Append(s, AsDebit(p))
           g == [n \in DOMAIN rr |-> IF n = Len(r) + 1 THEN Len(s) + 1 ELSE f[n]]
<1>2. /\ DOMAIN r = 1..Len(r) /\ Len(r) \in Nat /\ DOMAIN rr = 1..(Len(r) + 1)
      /\ rr[Len(r) + 1] = p /\ \A i \in 1..Len(r) : rr[i] = r[i]
  BY ListProperties, ListAppend
<1>3. /\ DOMAIN s = 1..Len(s) /\ Len(s) \in Nat /\ DOMAIN ss = 1..(Len(s) + 1)
      /\ ss[Len(s) + 1] = AsDebit(p) /\ \A i \in 1..Len(s) : ss[i] = s[i]
  BY ListProperties, ListAppend
<1> HIDE DEF rr, ss
<1>4. /\ g[Len(r) + 1] = Len(s) + 1
      /\ \A n \in DOMAIN r : g[n] = f[n] /\ f[n] \in 1..Len(s)
      /\ \A n \in DOMAIN rr : n \in DOMAIN r \/ n = Len(r) + 1
  BY <1>1, <1>2, <1>3
<1>5. g \in [DOMAIN rr -> DOMAIN ss]
  <2>1. \A n \in DOMAIN rr : g[n] \in DOMAIN ss
    BY <1>3, <1>4
  <2> QED
    BY <2>1
<1> HIDE DEF g
<1>6. \A m, n \in DOMAIN rr : g[m] = g[n] => m = n
  <2>1. \A n \in DOMAIN r : g[n] # Len(s) + 1
    BY <1>3, <1>4
  <2> QED
    BY <1>1, <1>4, <2>1
<1>7. \A n \in DOMAIN rr : ss[g[n]] = AsDebit(rr[n])
  <2>1. ASSUME NEW n \in DOMAIN r PROVE ss[g[n]] = AsDebit(rr[n])
    BY <1>1, <1>2, <1>3, <1>4
  <2>2. ss[g[Len(r) + 1]] = AsDebit(rr[Len(r) + 1])
    BY <1>2, <1>3, <1>4
  <2> QED
    BY <1>4, <2>1, <2>2
<1>8. Backed(rr, ss)
  BY <1>5, <1>6, <1>7 DEF Backed
<1> QED
  BY <1>8 DEF rr, ss

(* What backs a record backs what was recorded before. *)
LEMMA BackedBefore ==
  ASSUME NEW r, NEW s, IsList(r), NEW p, Backed(Append(r, p), s)
  PROVE  Backed(r, s)
<1>1. PICK f \in [DOMAIN Append(r, p) -> DOMAIN s] :
        /\ \A m, n \in DOMAIN Append(r, p) : f[m] = f[n] => m = n
        /\ \A n \in DOMAIN Append(r, p) : s[f[n]] = AsDebit(Append(r, p)[n])
  BY DEF Backed
<1>2. /\ DOMAIN r = 1..Len(r) /\ Len(r) \in Nat /\ DOMAIN Append(r, p) = 1..(Len(r) + 1)
      /\ \A i \in 1..Len(r) : Append(r, p)[i] = r[i]
  BY ListProperties, ListAppend
<1> DEFINE g == [n \in DOMAIN r |-> f[n]]
<1>3. DOMAIN r \subseteq DOMAIN Append(r, p)
  BY <1>2
<1>4. g \in [DOMAIN r -> DOMAIN s] /\ \A n \in DOMAIN r : g[n] = f[n]
  BY <1>1, <1>3
<1>5. \A m, n \in DOMAIN r : g[m] = g[n] => m = n
  BY <1>1, <1>3, <1>4
<1>6. \A n \in DOMAIN r : s[g[n]] = AsDebit(r[n])
  BY <1>1, <1>2, <1>3, <1>4
<1> QED
  BY <1>4, <1>5, <1>6 DEF Backed

-----------------------------------------------------------------------------
(* The invariant is inductive *)

LEMMA InitIInv == Init => IInv
<1> SUFFICES ASSUME Init PROVE IInv
  OBVIOUS
<1>1. /\ executed = << >> /\ trials = << >> /\ phase = "agent" /\ calling = NoCall
      /\ spent = [t \in 1..NTrials |-> << >>]
      /\ agreed = {} /\ authorized = {} /\ moved = {} /\ report = "pending"
      /\ outstanding = {} /\ unresolved = {}
  BY DEF Init, HarnessInit, FreshExecutor, Call!Init
<1>2. HarnessInv
  BY HarnessInitInv DEF Init
<1>3. CallingInv /\ PromiseInv /\ OutstandingInv
  BY <1>1 DEF CallingInv, PromiseInv, OneAmount, OutstandingInv
<1>4. \A t : Owed(t) = << >>
  BY <1>1, EmptyList DEF Owed, RecordOf
<1>5. MoneyInv
  BY <1>1, <1>4, EmptyList, NothingIsBacked, DebitsOfNone DEF MoneyInv
<1> QED
  BY <1>2, <1>3, <1>5 DEF IInv

(* Outside a call, what is owed is what is recorded. *)
LEMMA OwedOutsideCalls ==
  ASSUME phase # "paying" \/ moved = {}, NEW t
  PROVE  Owed(t) = RecordOf(t)
BY DEF Owed

LEMMA MoneyKeeps ==
  ASSUME MoneyInv, UNCHANGED <<spent, unresolved>>, \A t \in 1..NTrials : Owed(t)' = Owed(t)
  PROVE  MoneyInv'
<1>1. \A t \in 1..NTrials :
        /\ IsList(spent'[t])
        /\ Backed(Owed(t)', spent'[t])
        /\ t \notin unresolved' => spent'[t] = DebitsOf(Owed(t)')
  BY DEF MoneyInv
<1> QED
  BY <1>1 DEF MoneyInv, IsList, Backed, DebitsOf, AsDebit

LEMMA PromiseKeeps ==
  ASSUME PromiseInv, UNCHANGED callVars
  PROVE  PromiseInv'
BY DEF PromiseInv, OneAmount, callVars

LEMMA OutstandingKeeps ==
  ASSUME OutstandingInv, UNCHANGED <<outstanding, unresolved>>
  PROVE  OutstandingInv'
BY DEF OutstandingInv

LEMMA LiveCallIInv ==
  ASSUME IInv, NEW target \in Targets, LiveCall(target)
  PROVE  IInv'
<1>1. /\ AgentCalls(target, CallCap)
      /\ UNCHANGED <<executed, trials, spent, outstanding, unresolved>>
      /\ agreed' = {} /\ authorized' = {} /\ moved' = {} /\ report' = "pending"
      /\ phase = "agent"
      /\ \/ phase' = "raised" /\ calling' = calling
         \/ calling' = [target |-> target, cap |-> CallCap]
  BY DEF LiveCall, AgentCalls, gradeVars, inputVars
<1>2. HarnessInv'
  BY <1>1, AgentCallsKeeps DEF IInv
<1>3. CallingInv' /\ PromiseInv' /\ OutstandingInv'
  BY <1>1 DEF IInv, CallingInv, PromiseInv, OneAmount, OutstandingInv
<1>4. \A t : Owed(t) = RecordOf(t) /\ Owed(t)' = RecordOf(t)' /\ RecordOf(t)' = RecordOf(t)
  BY <1>1, OwedOutsideCalls, SameRecords DEF Owed
<1>5. MoneyInv'
  BY <1>1, <1>4, MoneyKeeps DEF IInv
<1> QED
  BY <1>2, <1>3, <1>5 DEF IInv

LEMMA SameOwed ==
  ASSUME UNCHANGED <<task, executed, trials, calling, phase, moved>>, NEW t
  PROVE  Owed(t)' = Owed(t)
BY DEF Owed, Now, RecordOf, Paid, VendorOf, Vendors

(* A step of pay() that moves nothing. *)
LEMMA LivePaysIInv ==
  ASSUME IInv, LivePays
  PROVE  IInv'
<1>1. UNCHANGED <<harnessVars, moved, outstanding, unresolved>>
  BY DEF LivePays, Call!Agree, Call!Authorize, Call!Refuse, Call!Confirm, Call!GiveUp
<1>2. /\ UNCHANGED <<gradeVars, controlVars, spent>>
      /\ UNCHANGED <<task, executed, trials, calling, phase>>
  BY <1>1 DEF harnessVars, gradeVars, inputVars, controlVars
<1>3. HarnessInv'
  BY <1>2, HarnessStutters DEF IInv
<1>4. CallingInv' /\ OutstandingInv'
  BY <1>1, <1>2, OutstandingKeeps DEF IInv, CallingInv
<1>5. PromiseInv'
  <2>1. ASSUME NEW p \in 0..CallCap, Call!Agree(p)
        PROVE  PromiseInv'
    BY <2>1, <1>1 DEF Call!Agree, IInv, PromiseInv, OneAmount
  <2>2. ASSUME NEW a \in 0..CallCap, Call!Authorize(a)
        PROVE  PromiseInv'
    BY <2>2, <1>1 DEF Call!Authorize, IInv, PromiseInv, OneAmount
  <2>3. CASE Call!Refuse \/ Call!Confirm \/ Call!GiveUp
    BY <2>3, <1>1 DEF Call!Refuse, Call!Confirm, Call!GiveUp, IInv, PromiseInv, OneAmount
  <2> QED
    BY <2>1, <2>2, <2>3 DEF LivePays
<1>6. MoneyInv'
  BY <1>1, <1>2, SameOwed, MoneyKeeps DEF IInv
<1> QED
  BY <1>3, <1>4, <1>5, <1>6 DEF IInv

(* The authorization of the call in progress is redeemed. *)
LEMMA LiveRedeemIInv ==
  ASSUME IInv, LiveRedeem
  PROVE  IInv'
<1>1. /\ phase = "paying" /\ UNCHANGED <<gradeVars, controlVars, outstanding, unresolved>>
      /\ authorized # {} /\ moved = {} /\ moved' = authorized
      /\ UNCHANGED <<agreed, authorized, report>>
      /\ UNCHANGED <<task, executed, trials, calling, phase>>
  BY DEF LiveRedeem, Call!Redeem, gradeVars, inputVars, controlVars
<1>2. PICK a \in authorized : Debit(Now, calling.target, a)
  BY DEF LiveRedeem
<1>3. authorized = {a} /\ a \in 0..CallCap
  BY <1>1, <1>2 DEF IInv, PromiseInv, OneAmount
<1>4. HarnessInv'
  BY <1>1, HarnessStutters DEF IInv
<1>5. CallingInv' /\ OutstandingInv' /\ PromiseInv'
  BY <1>1, OutstandingKeeps DEF IInv, CallingInv, PromiseInv, OneAmount
<1>6. /\ Now \in 1..NTrials /\ RecordOf(Now) = executed /\ IsList(executed)
      /\ DOMAIN spent = 1..NTrials
  BY <1>1, NowIsATrial DEF IInv, HarnessInv, RunningInv, Genuine, MoneyInv
<1>7. /\ \A t : Owed(t) = RecordOf(t)
      /\ \A t : Owed(t)' = IF t = Now THEN Append(executed, Paid(a)) ELSE RecordOf(t)
  <2>1. (CHOOSE x \in moved' : TRUE) = a
    BY <1>1, <1>3
  <2>2. Now' = Now /\ \A t : RecordOf(t)' = RecordOf(t)
    BY <1>1, SameRecords DEF Now
  <2>3. \A x : Paid(x)' = Paid(x)
    BY <1>1 DEF Paid, VendorOf, Vendors
  <2>4. moved' # {} /\ phase' = "paying" /\ executed' = executed
    BY <1>1
  <2>5. \A t : Owed(t)' = IF t = Now THEN Append(executed, Paid(CHOOSE x \in moved' : TRUE))
                                     ELSE RecordOf(t)
    BY <2>2, <2>3, <2>4 DEF Owed
  <2> QED
    BY <1>1, <2>1, <2>5, OwedOutsideCalls
<1>8. /\ AsDebit(Paid(a)) = [vendor |-> VendorOf(calling.target), amount |-> a]
      /\ spent' = [spent EXCEPT ![Now] = Append(@, AsDebit(Paid(a)))]
  BY <1>2 DEF Debit, AsDebit, Paid
<1>9. /\ DOMAIN spent' = 1..NTrials
      /\ spent'[Now] = Append(spent[Now], AsDebit(Paid(a)))
      /\ \A t \in (1..NTrials) \ {Now} : spent'[t] = spent[t]
  BY <1>6, <1>8
<1>10. ASSUME NEW t \in 1..NTrials
       PROVE  /\ IsList(spent'[t])
              /\ Backed(Owed(t)', spent'[t])
              /\ t \notin unresolved' => spent'[t] = DebitsOf(Owed(t)')
  <2>1. /\ IsList(spent[t]) /\ Backed(RecordOf(t), spent[t])
        /\ t \notin unresolved => spent[t] = DebitsOf(RecordOf(t))
    BY <1>7 DEF IInv, MoneyInv
  <2>2. CASE t = Now
    <3>1. IsList(spent'[t]) /\ Backed(Append(executed, Paid(a)), spent'[t])
      <4>1. spent'[t] = Append(spent[t], AsDebit(Paid(a))) /\ Backed(executed, spent[t])
        BY <1>6, <1>9, <2>1, <2>2
      <4>2. /\ IsList(Append(spent[t], AsDebit(Paid(a))))
            /\ Backed(Append(executed, Paid(a)), Append(spent[t], AsDebit(Paid(a))))
        BY <1>6, <2>1, <4>1, ListAppend, BackedAppend
      <4> QED
        BY <4>1, <4>2
    <3>2. t \notin unresolved => spent'[t] = DebitsOf(Append(executed, Paid(a)))
      BY <1>6, <1>9, <2>1, <2>2, DebitsAppend
    <3> QED
      BY <1>1, <1>7, <2>2, <3>1, <3>2
  <2>3. CASE t # Now
    BY <1>1, <1>7, <1>9, <2>1, <2>3
  <2> QED
    BY <2>2, <2>3
<1>11. MoneyInv'
  BY <1>9, <1>10 DEF MoneyInv, IsList, Backed, DebitsOf, AsDebit
<1> QED
  BY <1>4, <1>5, <1>11 DEF IInv

(* The call returns what it has paid: it is owed and becomes recorded.     *)
LEMMA LiveReturnsIInv ==
  ASSUME IInv, LiveReturns
  PROVE  IInv'
<1>1. PICK a \in moved : Record(Paid(a))
  BY DEF LiveReturns, Paid
<1>2. /\ UNCHANGED <<spent, callVars, outstanding, unresolved, trials>>
      /\ phase = "paying" /\ phase' = "agent" /\ calling' = NoCall
  BY <1>1 DEF LiveReturns, Record
<1>3. moved = {a} /\ a \in Nat
  BY LiveAssumption, <1>1 DEF IInv, PromiseInv, OneAmount
<1>4. Paid(a).amount = a /\ Paid(a).verified = TRUE
  BY DEF Paid
<1>5. HarnessInv'
  BY <1>1, <1>3, <1>4, RecordKeeps DEF IInv
<1>6. CallingInv' /\ OutstandingInv' /\ PromiseInv'
  BY <1>2, OutstandingKeeps, PromiseKeeps DEF IInv, CallingInv
<1>7. ASSUME NEW t \in 1..NTrials PROVE Owed(t)' = Owed(t)
  <2>1. (CHOOSE x \in moved : TRUE) = a
    BY <1>3
  <2>2. Owed(t) = IF t = Now THEN Append(executed, Paid(a)) ELSE RecordOf(t)
    BY <1>2, <1>3, <2>1 DEF Owed
  <2>3. RecordOf(t)' = IF t = Now THEN Append(executed, Paid(a)) ELSE RecordOf(t)
    BY <1>1, RecordRecords DEF IInv
  <2>4. Owed(t)' = RecordOf(t)'
    BY <1>2 DEF Owed
  <2> QED
    BY <2>2, <2>3, <2>4
<1>8. MoneyInv'
  BY <1>2, <1>7, MoneyKeeps DEF IInv
<1> QED
  BY <1>5, <1>6, <1>8 DEF IInv

(* The call raises: if it has signed, the trial is marked as unresolved,   *)
(* and what is not redeemed is left behind.                                *)
LEMMA LiveRaisesIInv ==
  ASSUME IInv, LiveRaises
  PROVE  IInv'
<1>1. /\ report \in {"refused", "unresolved"} /\ PayRaises
      /\ phase = "paying" /\ phase' = "raised" /\ calling' = NoCall
      /\ UNCHANGED <<executed, trials, spent, callVars>>
      /\ outstanding' = outstanding \cup
           {[trial |-> Now, call |-> asked, target |-> calling.target, amount |-> a] :
              a \in authorized \ moved}
      /\ unresolved' = IF report = "unresolved" THEN unresolved \cup {Now} ELSE unresolved
  BY DEF LiveRaises, PayRaises, gradeVars, inputVars
<1>2. HarnessInv'
  BY <1>1, PayRaisesKeeps DEF IInv
<1>3. CallingInv' /\ PromiseInv'
  BY <1>1, PromiseKeeps DEF IInv, CallingInv
<1>4. /\ Now \in 1..NTrials /\ RecordOf(Now) = executed /\ IsList(executed)
      /\ calling.target \in Targets
  BY <1>1, NowIsATrial DEF IInv, HarnessInv, RunningInv, Genuine, CallingInv
<1>5. unresolved \subseteq unresolved' /\ (authorized # {} => Now \in unresolved')
  BY <1>1 DEF IInv, PromiseInv
<1>6. OutstandingInv'
  <2> SUFFICES ASSUME NEW left \in outstanding'
               PROVE  /\ left.trial \in 1..NTrials /\ left.trial \in unresolved'
                      /\ left.target \in Targets
    BY DEF OutstandingInv
  <2>1. CASE left \in outstanding
    BY <2>1, <1>5 DEF IInv, OutstandingInv
  <2>2. CASE left \notin outstanding
    <3>1. PICK a \in authorized : left = [trial |-> Now, call |-> asked,
                                          target |-> calling.target, amount |-> a]
      BY <1>1, <2>2
    <3>2. left.trial = Now /\ left.target = calling.target
      BY <3>1
    <3> QED
      BY <1>4, <1>5, <3>1, <3>2
  <2> QED
    BY <2>1, <2>2
<1>7. ASSUME NEW t \in 1..NTrials
      PROVE  /\ IsList(spent'[t])
             /\ Backed(Owed(t)', spent'[t])
             /\ t \notin unresolved' => spent'[t] = DebitsOf(Owed(t)')
  <2>1. /\ IsList(spent[t]) /\ Backed(Owed(t), spent[t])
        /\ t \notin unresolved => spent[t] = DebitsOf(Owed(t))
    BY DEF IInv, MoneyInv
  <2>2. Owed(t)' = RecordOf(t) /\ spent' = spent
    BY <1>1, SameRecords DEF Owed
  <2>3. CASE t = Now /\ moved # {}
    <3>1. Now \in unresolved'
      BY <1>5, <2>3 DEF IInv, PromiseInv
    <3>2. Owed(t) = Append(executed, Paid(CHOOSE a \in moved : TRUE))
      BY <1>1, <2>3 DEF Owed
    <3>3. Backed(executed, spent[t])
      BY <1>4, <2>1, <3>2, BackedBefore
    <3> QED
      BY <1>4, <2>1, <2>2, <2>3, <3>1, <3>3
  <2>4. CASE ~(t = Now /\ moved # {})
    <3>1. Owed(t) = RecordOf(t)
      BY <2>4 DEF Owed
    <3> QED
      BY <1>5, <2>1, <2>2, <3>1
  <2> QED
    BY <2>3, <2>4
<1>8. MoneyInv'
  <2>1. DOMAIN spent' = 1..NTrials
    BY <1>1 DEF IInv, MoneyInv
  <2> QED
    BY <2>1, <1>7 DEF MoneyInv, IsList, Backed, DebitsOf, AsDebit
<1> QED
  BY <1>2, <1>3, <1>6, <1>8 DEF IInv

(* What a call has left behind is redeemed: in an unresolved trial. *)
LEMMA LateRedeemIInv ==
  ASSUME IInv, LateRedeem
  PROVE  IInv'
<1>1. PICK left \in outstanding :
        outstanding' = outstanding \ {left} /\ Debit(left.trial, left.target, left.amount)
  BY DEF LateRedeem
<1>2. /\ UNCHANGED <<gradeVars, controlVars, callVars, unresolved>>
      /\ UNCHANGED <<task, executed, trials, calling, phase, moved>>
  BY DEF LateRedeem, gradeVars, inputVars, controlVars, callVars
<1>3. HarnessInv'
  BY <1>2, HarnessStutters DEF IInv
<1>4. CallingInv' /\ PromiseInv' /\ OutstandingInv'
  BY <1>1, <1>2, PromiseKeeps DEF IInv, CallingInv, OutstandingInv
<1>5. PICK d : spent' = [spent EXCEPT ![left.trial] = Append(@, d)]
  BY <1>1 DEF Debit
<1>6. /\ left.trial \in 1..NTrials /\ left.trial \in unresolved /\ DOMAIN spent = 1..NTrials
      /\ \A t \in 1..NTrials :
           spent'[t] = IF t = left.trial THEN Append(spent[t], d) ELSE spent[t]
  BY <1>5 DEF IInv, OutstandingInv, MoneyInv
<1>7. ASSUME NEW t \in 1..NTrials
      PROVE  /\ IsList(spent'[t])
             /\ Backed(Owed(t)', spent'[t])
             /\ t \notin unresolved' => spent'[t] = DebitsOf(Owed(t)')
  <2>1. /\ IsList(spent[t]) /\ Backed(Owed(t), spent[t])
        /\ t \notin unresolved => spent[t] = DebitsOf(Owed(t))
    BY DEF IInv, MoneyInv
  <2>2. Owed(t)' = Owed(t)
    BY <1>2, SameOwed
  <2>3. IsList(Append(spent[t], d)) /\ Backed(Owed(t), Append(spent[t], d))
    BY <2>1, ListAppend, BackedByMore
  <2> QED
    BY <1>2, <1>6, <2>1, <2>2, <2>3
<1>8. MoneyInv'
  <2>1. DOMAIN spent' = 1..NTrials
    BY <1>5, <1>6
  <2> QED
    BY <2>1, <1>7 DEF MoneyInv, IsList, Backed, DebitsOf, AsDebit
<1> QED
  BY <1>3, <1>4, <1>8 DEF IInv

LEMMA AgentOrHarnessIInv ==
  ASSUME IInv, AgentOrHarness, UNCHANGED <<callVars, outstanding, unresolved>>
  PROVE  IInv'
<1>1. UNCHANGED <<task, executed, trials, asked, calling, spent>>
  BY AgentOrHarnessRecords
<1>2. phase # "paying" /\ phase' # "paying"
  BY DEF AgentOrHarness, AgentCatches, AgentFails, AgentReturns, Grade, MakeReport, controlVars
<1>3. HarnessInv'
  BY AgentOrHarnessKeeps DEF IInv
<1>4. CallingInv' /\ PromiseInv' /\ OutstandingInv'
  BY <1>1, <1>2, PromiseKeeps, OutstandingKeeps DEF IInv, CallingInv
<1>5. \A t : Owed(t)' = Owed(t)
  BY <1>1, <1>2, SameRecords DEF Owed
<1>6. MoneyInv'
  BY <1>1, <1>5, MoneyKeeps DEF IInv
<1> QED
  BY <1>3, <1>4, <1>6 DEF IInv

LEMMA EndTrialIInv ==
  ASSUME IInv, EndTrial, UNCHANGED <<callVars, outstanding, unresolved>>
  PROVE  IInv'
<1>1. UNCHANGED <<calling, spent>> /\ phase = "grading" /\ phase' # "paying"
  BY DEF EndTrial
<1>2. HarnessInv'
  BY EndTrialKeeps DEF IInv
<1>3. CallingInv' /\ PromiseInv' /\ OutstandingInv'
  BY <1>1, PromiseKeeps, OutstandingKeeps DEF IInv, CallingInv
<1>4. \A t \in 1..NTrials : Owed(t)' = Owed(t)
  BY <1>1, EndTrialRecords DEF Owed, IInv
<1>5. MoneyInv'
  BY <1>1, <1>4, MoneyKeeps DEF IInv
<1> QED
  BY <1>2, <1>3, <1>5 DEF IInv

LEMMA NextIInv == IInv /\ [Next]_vars => IInv'
<1> SUFFICES ASSUME IInv, [Next]_vars PROVE IInv'
  OBVIOUS
<1>1. CASE \E target \in Targets : LiveCall(target)
  BY <1>1, LiveCallIInv
<1>2. CASE LiveStep
  BY <1>2, LivePaysIInv, LiveRedeemIInv, LiveReturnsIInv, LiveRaisesIInv, LateRedeemIInv
  DEF LiveStep
<1>3. CASE AgentOrHarness /\ UNCHANGED <<callVars, outstanding, unresolved>>
  BY <1>3, AgentOrHarnessIInv
<1>4. CASE EndTrial /\ UNCHANGED <<callVars, outstanding, unresolved>>
  BY <1>4, EndTrialIInv
<1>5. CASE UNCHANGED vars
  <2>1. /\ UNCHANGED <<gradeVars, controlVars, callVars, spent, outstanding, unresolved>>
        /\ UNCHANGED <<task, executed, trials, calling, phase, moved>>
    BY <1>5 DEF vars, harnessVars, gradeVars, inputVars, controlVars, callVars
  <2>2. HarnessInv' /\ CallingInv' /\ PromiseInv' /\ OutstandingInv'
    BY <2>1, HarnessStutters, PromiseKeeps, OutstandingKeeps DEF IInv, CallingInv
  <2>3. MoneyInv'
    BY <2>1, SameOwed, MoneyKeeps DEF IInv
  <2> QED
    BY <2>2, <2>3 DEF IInv
<1> QED
  BY <1>1, <1>2, <1>3, <1>4, <1>5 DEF Next

(* Every reachable state of a run on a live task satisfies it. *)
THEOREM Invariance == Spec => []IInv
BY InitIInv, NextIInv, PTL DEF Spec

-----------------------------------------------------------------------------
(* What follows from it *)

(* The run is well typed: in particular a call agrees on, signs for and    *)
(* moves at most one amount, within the mandate.                           *)
THEOREM TypeCorrect == Spec => []TypeOK
<1>1. ASSUME IInv PROVE TypeOK
  <2>1. ASSUME NEW s, OneAmount(s)
        PROVE  s \subseteq 0..CallCap /\ Cardinality(s) <= 1
    <3>1. CASE s = {}
      BY <3>1, FS_EmptySet
    <3>2. CASE \E a \in 0..CallCap : s = {a}
      BY <3>2, FS_Singleton
    <3> QED
      BY <2>1, <3>1, <3>2 DEF OneAmount
  <2>2. \A s \in {agreed, authorized, moved} : s \subseteq 0..CallCap /\ Cardinality(s) <= 1
    BY <1>1, <2>1 DEF IInv, PromiseInv
  <2> QED
    BY <1>1, <2>2
    DEF IInv, HarnessInv, PhaseInv, CallInv, CallingInv, PromiseInv, OutstandingInv, TypeOK
<1> QED
  BY <1>1, Invariance, PTL

(* Everything the view has recorded was really paid, at the amount         *)
(* recorded, once, whatever is redeemed whenever.                          *)
THEOREM RecordsAreBacked == Spec => []RecordIsBacked
<1>1. ASSUME IInv PROVE RecordIsBacked
  <2> SUFFICES ASSUME NEW t \in 1..NTrials PROVE Backed(RecordOf(t), spent[t])
    BY DEF RecordIsBacked, Backed
  <2>1. Backed(Owed(t), spent[t])
    BY <1>1 DEF IInv, MoneyInv
  <2>2. CASE t = Now /\ phase = "paying" /\ moved # {}
    <3>1. RecordOf(t) = executed /\ IsList(executed)
      BY <1>1, <2>2, NowIsATrial DEF IInv, HarnessInv, RunningInv, Genuine
    <3> QED
      BY <2>1, <2>2, <3>1, BackedBefore DEF Owed
  <2>3. CASE ~(t = Now /\ phase = "paying" /\ moved # {})
    BY <2>1, <2>3 DEF Owed
  <2> QED
    BY <2>2, <2>3
<1> QED
  BY <1>1, Invariance, PTL

(* A trial in which no call was left unresolved has cost what is recorded, *)
(* then and ever after.                                                    *)
THEOREM RecordsAreComplete == Spec => []RecordIsComplete
<1>1. ASSUME IInv PROVE RecordIsComplete
  <2> SUFFICES ASSUME NEW t \in 1..NTrials, t \notin unresolved, t = Now => phase # "paying"
               PROVE  spent[t] = DebitsOf(RecordOf(t))
    BY DEF RecordIsComplete
  <2> QED
    BY <1>1 DEF IInv, MoneyInv, Owed
<1> QED
  BY <1>1, Invariance, PTL

(* Without unresolved calls the report counts the trials over budget       *)
(* exactly, live as in the simulation.                                     *)
THEOREM BudgetCountsAreExactIfResolved == Spec => []BudgetCountIsExactIfResolved
<1>1. ASSUME IInv PROVE BudgetCountIsExactIfResolved
  <2> SUFFICES ASSUME unresolved = {}, phase = "done" PROVE BudgetCountIsExact
    BY DEF BudgetCountIsExactIfResolved, BudgetCountIsExact
  <2>1. RecordsAreExact
    BY <1>1 DEF IInv, MoneyInv, Owed, RecordsAreExact
  <2> QED
    BY <1>1, <2>1, BudgetIsCounted DEF IInv
<1> QED
  BY <1>1, Invariance, PTL

-----------------------------------------------------------------------------
(* Vendors of a live record *)

(* A catalog names each vendor once, and none by a sentinel.  Nothing in   *)
(* the code checks the first: of two entries with one id and different     *)
(* URLs the gate lets both be bought in one trial.                         *)
ProperNames ==
  \A t \in Tasks : \A i \in Vendors(t) :
    /\ \A j \in Vendors(t) : t.vendors[i].id = t.vendors[j].id => i = j
    /\ \A target \in Targets : t.vendors[i].id # <<"unmapped", target>>

(* No URL is bought from twice, and each purchase has the vendor of its    *)
(* URL.                                                                    *)
GateInv ==
  /\ \A n \in DOMAIN executed :
       executed[n].url \in Targets /\ executed[n].vendor = VendorOf(executed[n].url)
  /\ \A m, n \in DOMAIN executed : executed[m].url = executed[n].url => m = n

(* With proper names, different targets are different vendors. *)
LEMMA VendorOfIsInjective ==
  ASSUME ProperNames, task \in Tasks, NEW x \in Targets, NEW y \in Targets,
         VendorOf(x) = VendorOf(y)
  PROVE  x = y
<1> DEFINE Found(u) == {i \in Vendors(task) : task.vendors[i].url = u}
<1>1. ASSUME NEW u, Found(u) # {}
      PROVE  \E i \in Vendors(task) :
               task.vendors[i].url = u /\ VendorOf(u) = task.vendors[i].id
  <2>1. PICK i \in Found(u) : i = CHOOSE j \in Found(u) : TRUE
    BY <1>1
  <2>2. VendorOf(u) = task.vendors[i].id
    BY <1>1, <2>1 DEF VendorOf
  <2> QED
    BY <2>1, <2>2
<1>2. ASSUME NEW u, Found(u) = {} PROVE VendorOf(u) = <<"unmapped", u>>
  BY <1>2 DEF VendorOf
<1> HIDE DEF Found
<1>3. CASE Found(x) # {} /\ Found(y) # {}
  <2>1. PICK i \in Vendors(task) : task.vendors[i].url = x /\ VendorOf(x) = task.vendors[i].id
    BY <1>1, <1>3
  <2>2. PICK j \in Vendors(task) : task.vendors[j].url = y /\ VendorOf(y) = task.vendors[j].id
    BY <1>1, <1>3
  <2>3. i = j
    BY <2>1, <2>2 DEF ProperNames
  <2> QED
    BY <2>1, <2>2, <2>3
<1>4. CASE Found(x) = {} /\ Found(y) = {}
  BY <1>2, <1>4
<1>5. CASE (Found(x) = {}) # (Found(y) = {})
  BY <1>1, <1>2, <1>5 DEF ProperNames
<1> QED
  BY <1>3, <1>4, <1>5

LEMMA GateKeeps ==
  ASSUME GateInv, UNCHANGED <<task, executed>>
  PROVE  GateInv'
BY DEF GateInv, VendorOf, Vendors

LEMMA LiveReturnsGate ==
  ASSUME IInv, GateInv, LiveReturns
  PROVE  GateInv'
<1>1. PICK a \in moved :
        Record([vendor |-> VendorOf(calling.target), url |-> calling.target,
                amount |-> a, verified |-> TRUE])
  BY DEF LiveReturns
<1> DEFINE p == [vendor |-> VendorOf(calling.target), url |-> calling.target,
                 amount |-> a, verified |-> TRUE]
<1>2. /\ phase = "paying" /\ UNCHANGED task /\ executed' = Append(executed, p)
      /\ p.vendor = VendorOf(calling.target) /\ p.url = calling.target
  BY <1>1 DEF Record
<1>3. calling.target \in Targets
  BY <1>2 DEF IInv, CallingInv
<1>4. \A n \in DOMAIN executed : executed[n].url # calling.target
  BY <1>2 DEF IInv, HarnessInv, CallInv, Duplicate
<1> HIDE DEF p
<1>5. /\ IsList(executed) /\ Len(executed) \in Nat /\ DOMAIN executed = 1..Len(executed)
      /\ DOMAIN executed' = 1..(Len(executed) + 1)
      /\ executed'[Len(executed) + 1] = p
      /\ \A n \in 1..Len(executed) : executed'[n] = executed[n]
  <2>1. IsList(executed)
    BY DEF IInv, HarnessInv, RunningInv, Genuine
  <2> QED
    BY <1>2, <2>1, ListProperties, ListAppend
<1>6. \A n \in DOMAIN executed' :
        \/ n \in DOMAIN executed /\ executed'[n] = executed[n]
        \/ n = Len(executed) + 1 /\ executed'[n] = p
  BY <1>5
<1>7. \A u : VendorOf(u)' = VendorOf(u)
  BY <1>2 DEF VendorOf, Vendors
<1>8. \A n \in DOMAIN executed' :
        executed'[n].url \in Targets /\ executed'[n].vendor = VendorOf(executed'[n].url)
  BY <1>2, <1>3, <1>6 DEF GateInv
<1>9. \A m, n \in DOMAIN executed' : executed'[m].url = executed'[n].url => m = n
  BY <1>2, <1>4, <1>6 DEF GateInv
<1> QED
  BY <1>7, <1>8, <1>9 DEF GateInv

(* In a live trial too no vendor is recorded twice, so that the pairing of *)
(* claims can be trusted: for every catalog that names each vendor once.   *)
THEOREM VendorsAreDistinct ==
  ASSUME ProperNames
  PROVE  Spec => []DistinctVendors
<1>1. IInv /\ GateInv => DistinctVendors
  BY VendorOfIsInjective DEF IInv, HarnessInv, PhaseInv, GateInv, DistinctVendors
<1>2. Init => IInv /\ GateInv
  <2>1. Init => GateInv
    BY EmptyList DEF Init, HarnessInit, GateInv
  <2> QED
    BY <2>1, InitIInv
<1>3. IInv /\ GateInv /\ [Next]_vars => IInv' /\ GateInv'
  <2> SUFFICES ASSUME IInv, GateInv, [Next]_vars PROVE GateInv'
    BY NextIInv
  <2>1. CASE LiveReturns
    BY <2>1, LiveReturnsGate
  <2>2. CASE EndTrial
    <3>1. executed' = << >> /\ DOMAIN << >> = {}
      BY <2>2, EmptyList DEF EndTrial
    <3> QED
      BY <3>1 DEF GateInv
  <2>3. CASE AgentOrHarness
    BY <2>3, AgentOrHarnessRecords, GateKeeps
  <2>4. CASE \/ \E target \in Targets : LiveCall(target)
             \/ LivePays \/ LiveRedeem \/ LiveRaises \/ LateRedeem
             \/ UNCHANGED vars
    <3>1. UNCHANGED <<task, executed>>
      BY <2>4 DEF LiveCall, AgentCalls, LivePays, LiveRedeem, LiveRaises, PayRaises,
         LateRedeem, vars, harnessVars, gradeVars, inputVars
    <3> QED
      BY <3>1, GateKeeps
  <2> QED
    BY <2>1, <2>2, <2>3, <2>4 DEF Next, LiveStep
<1> QED
  BY <1>1, <1>2, <1>3, PTL DEF Spec
=============================================================================
