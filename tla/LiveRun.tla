------------------------------- MODULE LiveRun -------------------------------
(***************************************************************************)
(* run_eval handed a RealX402Executor: every call of the agent is a call   *)
(* of payments.client.pay(), of which this module knows what               *)
(* PaymentPromise says and nothing else (X402Pay implements it).           *)
(*                                                                         *)
(* "spent" is what the wallet has really paid.  An authorization may be    *)
(* redeemed while the call waits, or after the call has raised and the     *)
(* agent, or even the harness, has moved on.                               *)
(***************************************************************************)
EXTENDS Harness

CONSTANTS
  Targets,       (* what an agent may pass to pay(): URLs, ids of vendors without one *)
  Urls,          (* the URLs at which somebody may answer *)
  CallCap        (* max_amount: agents pass the mandate's cap *)

ASSUME LiveAssumption == CallCap \in Nat

VARIABLES
  agreed, authorized, moved, report,   (* the call of pay() in progress *)
  outstanding,                         (* authorizations left behind by calls that raised *)
  unresolved                           (* auxiliary: trials in which a call was left unresolved *)

callVars == <<agreed, authorized, moved, report>>
vars == <<harnessVars, callVars, outstanding, unresolved>>

Call == INSTANCE PaymentPromise WITH Cap <- CallCap

(* A mutant: a URL that is not in the catalog is given a vendor's id. *)
VendorOfFirst(target) == task.vendors[1].id

(* RealX402Executor.pay: the catalog entry with this URL, or a sentinel    *)
(* that is no vendor's id.                                                 *)
VendorOf(target) ==
  LET found == {i \in Vendors(task) : task.vendors[i].url = target}
  IN IF found = {} THEN <<"unmapped", target>>
     ELSE task.vendors[CHOOSE i \in found : TRUE].id

(* RealX402Executor.__init__ refuses a catalog in which two vendors share  *)
(* a URL.                                                                  *)
DistinctUrls(t) ==
  \A i, j \in Vendors(t) :
    t.vendors[i].url # NoVendor /\ t.vendors[i].url = t.vendors[j].url => i = j

FreshExecutor == Call!Init /\ outstanding = {} /\ unresolved = {}

Init == HarnessInit /\ DistinctUrls(task) /\ FreshExecutor

LiveCall(target) ==
  /\ AgentCalls(target, CallCap)
  /\ agreed' = {} /\ authorized' = {} /\ moved' = {} /\ report' = "pending"
  /\ UNCHANGED <<outstanding, unresolved>>

(* pay() at work.  What is no URL is EndpointUnreachable. *)
LivePays ==
  /\ phase = "paying"
  /\ \/ calling.target \in Urls /\ \E p \in 0..CallCap : Call!Agree(p)
     \/ \E a \in 0..CallCap : Call!Authorize(a)
     \/ Call!Refuse \/ Call!Confirm \/ Call!GiveUp
  /\ UNCHANGED <<harnessVars, outstanding, unresolved>>

Debit(t, target, amount) ==
  spent' = [spent EXCEPT ![t] = Append(@, [vendor |-> VendorOf(target), amount |-> amount])]

LiveRedeem ==
  /\ phase = "paying"
  /\ Call!Redeem
  /\ \E a \in authorized : Debit(Now, calling.target, a)
  /\ UNCHANGED <<gradeVars, controlVars, outstanding, unresolved>>

(* A mutant: what is recorded is the amount the agent was ready to pay. *)
LiveReturnsCap ==
  /\ report = "paid"
  /\ Record([vendor |-> VendorOf(calling.target), url |-> calling.target,
             amount |-> calling.cap, verified |-> TRUE])
  /\ UNCHANGED <<spent, callVars, outstanding, unresolved>>

(* PaymentOutcome: the amount is the one verified on chain. *)
LiveReturns ==
  /\ report = "paid"
  /\ \E a \in moved :
       Record([vendor |-> VendorOf(calling.target), url |-> calling.target,
               amount |-> a, verified |-> TRUE])
  /\ UNCHANGED <<spent, callVars, outstanding, unresolved>>

(* pay() raised.  What it had signed, if anything, is out of its hands.    *)
LiveRaises ==
  /\ report \in {"refused", "unresolved"}
  /\ PayRaises
  /\ outstanding' = outstanding \cup
       {[trial |-> Now, call |-> asked, target |-> calling.target, amount |-> a] :
          a \in authorized \ moved}
  /\ unresolved' = IF report = "unresolved" THEN unresolved \cup {Now} ELSE unresolved
  /\ UNCHANGED <<spent, callVars>>

(* The facilitator redeems an authorization whose call has raised. *)
LateRedeem ==
  \E left \in outstanding :
    /\ outstanding' = outstanding \ {left}
    /\ Debit(left.trial, left.target, left.amount)
    /\ UNCHANGED <<gradeVars, controlVars, callVars, unresolved>>

LiveStep == LivePays \/ LiveRedeem \/ LiveReturns \/ LiveRaises \/ LateRedeem

Next ==
  \/ \E target \in Targets : LiveCall(target)
  \/ LiveStep
  \/ AgentOrHarness /\ UNCHANGED <<callVars, outstanding, unresolved>>
  \/ EndTrial /\ UNCHANGED <<callVars, outstanding, unresolved>>

Spec == Init /\ [][Next]_vars

-----------------------------------------------------------------------------
(* Properties *)

TypeOK ==
  /\ phase \in Phases
  /\ calling \in [target : Targets, cap : {CallCap}] \cup {NoCall}
  /\ asked \in 0..MaxCalls
  /\ Len(executed) <= asked
  /\ report \in {"pending", "refused", "paid", "unresolved"}
  /\ \A s \in {agreed, authorized, moved} :
       s \subseteq 0..CallCap /\ Cardinality(s) <= 1
  /\ \A left \in outstanding : left.trial \in 1..NTrials /\ left.target \in Targets

(* Everything the view has recorded was really paid, at the amount         *)
(* recorded, once.                                                         *)
RecordIsBacked ==
  \A t \in 1..NTrials :
    \E f \in [DOMAIN RecordOf(t) -> DOMAIN spent[t]] :
      /\ \A m, n \in DOMAIN RecordOf(t) : f[m] = f[n] => m = n
      /\ \A n \in DOMAIN RecordOf(t) : spent[t][f[n]] = AsDebit(RecordOf(t)[n])

(* A trial in which no call was left unresolved has cost exactly what the  *)
(* view has recorded, also after its end: errors of the refusing kind are  *)
(* safe to retry and to fall back from.  What escapes the record escapes   *)
(* it through SettlementRejected, SettlementNotConfirmed and the like.     *)
RecordIsComplete ==
  \A t \in 1..NTrials :
    t \notin unresolved /\ (t = Now => phase # "paying") =>
      spent[t] = DebitsOf(RecordOf(t))

(* With no unresolved call, the report's budget count is right.            *)
BudgetCountIsExactIfResolved ==
  unresolved = {} => BudgetCountIsExact
=============================================================================
