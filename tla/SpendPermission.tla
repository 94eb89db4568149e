--------------------------- MODULE SpendPermission ---------------------------
(***************************************************************************)
(* payments/spend_permission.py and payments/spend_router.py: the calls a  *)
(* spender and the account's owner make around one spend permission, each  *)
(* from a wallet of its own, possibly several at a time, with the chain    *)
(* they are broadcast to.                                                  *)
(*                                                                         *)
(* Every call has the same skeleton: check the chain, for spend() dry-run, *)
(* read the nonce, sign and broadcast, poll for the receipt, check its     *)
(* status, and for register_spend_permission() read the state back.  Each  *)
(* request to the node is a step of its own.  The contracts                *)
(* (SpendPermissionManager, SpendRouter) and the node's mempool are        *)
(* external: they are modelled from what the code and its comments say of  *)
(* them.                                                                   *)
(***************************************************************************)
EXTENDS Naturals, FiniteSets

CONSTANTS
  Calls,         (* call identities; each is made at most once *)
  Values,        (* amounts a caller may ask for, in 1/Fraction atomic units *)
  Fraction,      (* how much finer than one atomic unit a Decimal may be *)
  Allowance,     (* permission.allowance, atomic, per period *)
  Funds,         (* USDC in the smart account, atomic *)
  Periods,       (* bound: number of periods *)
  Window,        (* the periods between permission.start and permission.end *)
  Retries,       (* wait_for_receipt's retries *)
  Owner, Spender, (* the wallets *)
  Sepolia, Mainnet

ASSUME SpendAssumption ==
  /\ Values \subseteq Nat /\ Fraction \in Nat \ {0}
  /\ Allowance \in Nat /\ Funds \in Nat /\ Periods \in Nat
  /\ Retries \in Nat \ {0}
  /\ Sepolia # Mainnet /\ Owner # Spender

VARIABLES
  (* the chain *)
  deployed,      (* the smart account has code *)
  approved,      (* _isApproved[hash] *)
  revoked,       (* _isRevoked[hash]: never cleared *)
  used,          (* spent in the current period *)
  period,        (* the current period *)
  funds,         (* what is left in the account *)
  mined,         (* wallet |-> its transactions mined so far: its next nonce *)
  (* one entry per call *)
  step,          (* where the call is *)
  op,            (* what it does *)
  sender,        (* the wallet it is given *)
  value,         (* the amount asked for *)
  tx,            (* its transaction: none, pending, mined, reverted *)
  nonce,         (* the nonce it read *)
  racing,        (* auxiliary: what was under way from its wallet as it read it *)
  polls,         (* the polls for its receipt so far, while it waits *)
  debit,         (* what its transaction took out of the account *)
  result         (* what it returned or raised *)

chainVars == <<deployed, approved, revoked, used, period, funds, mined>>
askVars == <<op, sender, value>>
txVars == <<tx, nonce, racing, debit>>
callVars == <<step, askVars, txVars, polls, result>>
vars == <<chainVars, callVars>>

Steps ==
  {"idle", "check", "nonce", "send", "wait", "readApproved", "readRevoked", "done"}
Ops == {"provision", "register", "revoke", "spend", "route", "routeSigned"}
Spends == {"spend", "route", "routeSigned"}
Wallets == {Owner, Spender}

(* The exceptions after which the transaction may be anywhere: the first   *)
(* carries its hash, the second, a transport error of the node's RPC, does *)
(* not.  The others are raised because nothing was, or will be, done.      *)
Ambiguous == {"SettlementNotConfirmed", "TransportError"}
Failures ==
  {"PaymentError", "ConnectionError", "SpendCapExceeded",
   "SpendPermissionUnauthorized", "OnChainTransactionReverted",
   "ContractCustomError", "Web3RPCError"}

TypeOK ==
  /\ deployed \in BOOLEAN /\ approved \in BOOLEAN /\ revoked \in BOOLEAN
  /\ used \in 0..Allowance /\ funds \in 0..Funds
  /\ period \in 0..Periods /\ mined \in [Wallets -> Nat]
  /\ step \in [Calls -> Steps]
  /\ op \in [Calls -> Ops] /\ sender \in [Calls -> Wallets]
  /\ value \in [Calls -> Values \cup {0}]
  /\ tx \in [Calls -> {"none", "pending", "mined", "reverted"}]
  /\ nonce \in [Calls -> Nat]
  /\ racing \in [Calls -> SUBSET Calls]
  /\ polls \in [Calls -> 0..Retries]
  /\ debit \in [Calls -> 0..Allowance]
  /\ result \in [Calls -> {"none", "ok"} \cup Ambiguous \cup Failures]

(* The calls may find the permission in any state that earlier ones have   *)
(* left it in.                                                             *)
Init ==
  /\ deployed \in BOOLEAN /\ approved \in BOOLEAN /\ revoked \in BOOLEAN
  /\ approved => deployed
  /\ used = 0 /\ period = 0 /\ funds = Funds /\ mined = [w \in Wallets |-> 0]
  /\ step = [c \in Calls |-> "idle"]
  /\ op = [c \in Calls |-> "provision"]
  /\ sender = [c \in Calls |-> Owner]
  /\ value = [c \in Calls |-> 0]
  /\ tx = [c \in Calls |-> "none"]
  /\ nonce = [c \in Calls |-> 0]
  /\ racing = [c \in Calls |-> {}]
  /\ polls = [c \in Calls |-> 0]
  /\ debit = [c \in Calls |-> 0]
  /\ result = [c \in Calls |-> "none"]

-----------------------------------------------------------------------------
Goto(c, s) == step' = [step EXCEPT ![c] = s]

Finish(c, kind) ==
  /\ Goto(c, "done")
  /\ result' = [result EXCEPT ![c] = kind]

(* int(value * 10**6) *)
Atomic(c) == value[c] \div Fraction

(* A mutant: the router is called on any chain. *)
GuardSpendOnly(operation, network) == operation = "spend" => network = Sepolia

(* The chains a call lets through: spend() and the router's calls are for  *)
(* Base Sepolia only.                                                      *)
ChainAllowed(operation, network) == operation \in Spends => network = Sepolia

-----------------------------------------------------------------------------
(* The contracts *)

(* What registration reads back, as the comment on _MANAGER_ABI explains:  *)
(* approved and not revoked, whether or not the window has begun or ended. *)
Granted == approved /\ ~revoked

(* Why SpendPermissionManager.spend would revert on an amount.        *)
SpendRevert(wallet, amount) ==
  IF wallet # Spender THEN "InvalidSender"
  ELSE IF amount = 0 THEN "ZeroValue"
  ELSE IF ~Granted THEN "UnauthorizedSpendPermission"
  ELSE IF period \notin Window THEN "OutsideStartAndEnd"
  ELSE IF used + amount > Allowance THEN "ExceededSpendPermission"
  ELSE IF amount > funds THEN "TransferExceedsBalance"
  ELSE "none"

-----------------------------------------------------------------------------
(* A call, up to its broadcast *)

(* The account is provisioned by its owner; nothing in the code ties the   *)
(* wallet of any other call to the permission.                             *)
Begin(c, operation, amount) ==
  /\ step[c] = "idle"
  /\ op' = [op EXCEPT ![c] = operation]
  /\ \E w \in (IF operation = "provision" THEN {Owner} ELSE Wallets) :
       sender' = [sender EXCEPT ![c] = w]
  /\ value' = [value EXCEPT ![c] = amount]
  /\ UNCHANGED <<chainVars, nonce, racing, polls, debit>>

(* The guards of spend() and of _require_router_chain. *)
ChainRefused(c, operation, amount, network) ==
  /\ Begin(c, operation, amount)
  /\ ~ChainAllowed(operation, network)
  /\ Finish(c, "PaymentError")
  /\ UNCHANGED tx

(* get_web3: no endpoint answers with the right chain id. *)
NoRpcReachable(c, operation, amount, network) ==
  /\ Begin(c, operation, amount)
  /\ ChainAllowed(operation, network)
  /\ Finish(c, "ConnectionError")
  /\ UNCHANGED tx

(* The chain of this module is Base Sepolia: a call for another chain is   *)
(* followed no further, but for what the guards are there to prevent.  On  *)
(* Base the router's address has no code: a call to it mines and pays      *)
(* nobody.                                                                 *)
Start(c, operation, amount, network) ==
  /\ Begin(c, operation, amount)
  /\ ChainAllowed(operation, network)
  /\ \/ /\ network = Sepolia
        /\ Goto(c, "check")
        /\ UNCHANGED <<tx, result>>
     \/ /\ network = Mainnet /\ operation \in Spends
        /\ tx' = [tx EXCEPT ![c] = "mined"]
        /\ Finish(c, "ok")

(* provision_smart_wallet_account: nothing to do when the account has code. *)
AlreadyProvisioned(c) ==
  /\ step[c] = "check" /\ op[c] = "provision" /\ deployed
  /\ Finish(c, "ok")
  /\ UNCHANGED <<chainVars, askVars, txVars, polls>>

(* _translate_custom_error: two of the manager's errors have a type of     *)
(* their own, any other is raised as it came.  A revert with a string is   *)
(* no custom error.                                                        *)
Translated(why) ==
  CASE why = "UnauthorizedSpendPermission" -> "SpendPermissionUnauthorized"
    [] why = "ExceededSpendPermission" -> "SpendCapExceeded"
    [] why = "TransferExceedsBalance" -> "OnChainTransactionReverted"
    [] OTHER -> "ContractCustomError"

DryRun(c) == SpendRevert(sender[c], Atomic(c))

DryRunReverts(c) ==
  /\ step[c] = "check" /\ op[c] = "spend"
  /\ DryRun(c) # "none"
  /\ Finish(c, Translated(DryRun(c)))
  /\ UNCHANGED <<chainVars, askVars, txVars, polls>>

Proceed(c) ==
  /\ step[c] = "check"
  /\ op[c] = "provision" => ~deployed
  /\ op[c] = "spend" => DryRun(c) = "none"
  /\ Goto(c, "nonce")
  /\ UNCHANGED <<chainVars, askVars, txVars, polls, result>>

Pending == {c \in Calls : tx[c] = "pending"}

(* A mutant: the count includes the pending transactions. *)
NextNoncePending(wallet) ==
  mined[wallet] + Cardinality({c \in Pending : sender[c] = wallet})

(* get_transaction_count(address): mined transactions only. *)
NextNonce(wallet) == mined[wallet]

(* The calls that have read a nonce and may still use it. *)
UnderWay(wallet) ==
  {c \in Calls : sender[c] = wallet /\ (step[c] = "send" \/ tx[c] = "pending")}

(* send_transaction's first request. *)
ReadNonce(c) ==
  /\ step[c] = "nonce"
  /\ nonce' = [nonce EXCEPT ![c] = NextNonce(sender[c])]
  /\ racing' = [racing EXCEPT ![c] = UnderWay(sender[c])]
  /\ Goto(c, "send")
  /\ UNCHANGED <<chainVars, askVars, tx, polls, debit, result>>

(* The pending transactions of the wallet with the same nonce. *)
Rivals(c) == {d \in Pending : sender[d] = sender[c] /\ nonce[d] = nonce[c]}

(* The node takes a transaction whose nonce has not been used.  Beside a   *)
(* pending one with that nonce it may take it too: either may be mined.    *)
Enter(c) ==
  /\ step[c] = "send"
  /\ nonce[c] >= mined[sender[c]]
  /\ tx' = [tx EXCEPT ![c] = "pending"]
  /\ UNCHANGED <<chainVars, askVars, nonce, racing, polls, debit>>

(* send_transaction returns the hash. *)
Broadcast(c) ==
  /\ Enter(c)
  /\ Goto(c, "wait")
  /\ UNCHANGED result

(* The nonce has been used since it was read (nonce too low), or a pending *)
(* transaction has it (replacement underpriced, already known).            *)
BroadcastRefused(c) ==
  /\ step[c] = "send"
  /\ nonce[c] < mined[sender[c]] \/ Rivals(c) # {}
  /\ Finish(c, "Web3RPCError")
  /\ UNCHANGED <<chainVars, askVars, txVars, polls>>

(* A mutant: a lost answer to the broadcast is reported as a revert. *)
BroadcastLostAsRevert(c) ==
  /\ Enter(c)
  /\ Finish(c, "OnChainTransactionReverted")

(* The node has the transaction, and its answer is lost.                   *)
BroadcastLost(c) ==
  /\ Enter(c)
  /\ Finish(c, "TransportError")

(* A request that leaves no transaction behind fails: the dry run, the     *)
(* nonce, the gas price, a broadcast that does not arrive, a read-back.    *)
TransportFails(c) ==
  /\ step[c] \in {"check", "nonce", "send", "readApproved", "readRevoked"}
  /\ Finish(c, "TransportError")
  /\ UNCHANGED <<chainVars, askVars, txVars, polls>>

-----------------------------------------------------------------------------
(* The chain *)

(* The wallet's nonces are mined in order. *)
Mined(c, how) ==
  /\ tx[c] = "pending" /\ nonce[c] = mined[sender[c]]
  /\ mined' = [mined EXCEPT ![sender[c]] = @ + 1]
  /\ tx' = [tx EXCEPT ![c] = how]
  /\ UNCHANGED <<period, step, askVars, nonce, racing, polls, result>>

(* The transaction runs out of gas, or the contract reverts. *)
MineReverted(c) ==
  /\ Mined(c, "reverted")
  /\ UNCHANGED <<deployed, approved, revoked, used, funds, debit>>

MineProvision(c) ==
  /\ op[c] = "provision"
  /\ deployed' = TRUE
  /\ UNCHANGED <<approved, revoked, used, funds, debit>>

(* approveWithSignature returns FALSE, without reverting, on a permission  *)
(* that has been revoked.                                                  *)
MineRegister(c) ==
  /\ op[c] = "register" /\ deployed
  /\ approved' = (approved \/ ~revoked)
  /\ UNCHANGED <<deployed, revoked, used, funds, debit>>

(* revokeAsSpender *)
MineRevoke(c) ==
  /\ op[c] = "revoke" /\ sender[c] = Spender
  /\ revoked' = TRUE
  /\ UNCHANGED <<deployed, approved, used, funds, debit>>

(* spend, or the router's spendAndRoute; spendAndRouteWithSignature        *)
(* approves first.                                                         *)
MineSpend(c) ==
  /\ op[c] \in Spends
  /\ \/ DryRun(c) = "none" /\ UNCHANGED approved
     \/ /\ op[c] = "routeSigned" /\ sender[c] = Spender /\ period \in Window
        /\ deployed /\ ~approved /\ ~revoked
        /\ Atomic(c) \in 1..(Allowance - used) /\ Atomic(c) <= funds
        /\ approved' = TRUE
  /\ used' = used + Atomic(c)
  /\ funds' = funds - Atomic(c)
  /\ debit' = [debit EXCEPT ![c] = Atomic(c)]
  /\ UNCHANGED <<deployed, revoked>>

Mine(c) ==
  /\ Mined(c, "mined")
  /\ MineProvision(c) \/ MineRegister(c) \/ MineRevoke(c) \/ MineSpend(c)

NewPeriod ==
  /\ period < Periods
  /\ period' = period + 1
  /\ used' = 0
  /\ UNCHANGED <<deployed, approved, revoked, funds, mined, callVars>>

-----------------------------------------------------------------------------
(* A call, from its broadcast on *)

(* The transaction has been executed: the node has a receipt for it. *)
HasReceipt(c) == tx[c] \in {"mined", "reverted"}

(* A mutant: a poll that finds nothing is not counted. *)
ReceiptMissingUncounted(c) ==
  /\ step[c] = "wait" /\ polls[c] < Retries
  /\ UNCHANGED vars

(* wait_for_receipt: a poll finds no receipt, or its request fails, which  *)
(* it may do whether or not there is one.                                  *)
ReceiptMissing(c) ==
  /\ step[c] = "wait" /\ polls[c] < Retries
  /\ polls' = [polls EXCEPT ![c] = @ + 1]
  /\ UNCHANGED <<chainVars, step, askVars, txVars, result>>

(* A mutant: the TimeoutError of wait_for_receipt is raised as it came.    *)
ReceiptTimesOutBare(c) ==
  /\ step[c] = "wait" /\ polls[c] = Retries
  /\ Finish(c, "TimeoutError")
  /\ polls' = [polls EXCEPT ![c] = 0]
  /\ UNCHANGED <<chainVars, askVars, txVars>>

(* wait_for_receipt gives up: _receipt_or_raise. *)
ReceiptTimesOut(c) ==
  /\ step[c] = "wait" /\ polls[c] = Retries
  /\ Finish(c, "SettlementNotConfirmed")
  /\ polls' = [polls EXCEPT ![c] = 0]
  /\ UNCHANGED <<chainVars, askVars, txVars>>

(* The exception for status 0. *)
RevertKind(operation) ==
  IF operation = "register" THEN "SpendPermissionUnauthorized"
                            ELSE "OnChainTransactionReverted"

ReceiptRead(c) ==
  /\ step[c] = "wait" /\ polls[c] < Retries /\ HasReceipt(c)
  /\ IF tx[c] = "reverted" THEN Finish(c, RevertKind(op[c]))
     ELSE IF op[c] = "register" THEN Goto(c, "readApproved") /\ UNCHANGED result
     ELSE Finish(c, "ok")
  /\ polls' = [polls EXCEPT ![c] = 0]
  /\ UNCHANGED <<chainVars, askVars, txVars>>

(* The read-back: two calls of the node, one after the other. *)
ReadApproved(c) ==
  /\ step[c] = "readApproved"
  /\ \/ approved /\ Goto(c, "readRevoked") /\ UNCHANGED result
     \/ ~approved /\ Finish(c, "SpendPermissionUnauthorized")
  /\ UNCHANGED <<chainVars, askVars, txVars, polls>>

(* A mutant: isApproved() alone is the proof. *)
ReadRevokedIgnored(c) ==
  /\ step[c] = "readRevoked"
  /\ Finish(c, "ok")
  /\ UNCHANGED <<chainVars, askVars, txVars, polls>>

ReadRevoked(c) ==
  /\ step[c] = "readRevoked"
  /\ \/ ~revoked /\ Finish(c, "ok")
     \/ revoked /\ Finish(c, "SpendPermissionUnauthorized")
  /\ UNCHANGED <<chainVars, askVars, txVars, polls>>

ClientStep(c) ==
  \/ AlreadyProvisioned(c) \/ DryRunReverts(c) \/ Proceed(c)
  \/ TransportFails(c) \/ ReadNonce(c)
  \/ Broadcast(c) \/ BroadcastRefused(c) \/ BroadcastLost(c)
  \/ ReceiptMissing(c) \/ ReceiptTimesOut(c) \/ ReceiptRead(c)
  \/ ReadApproved(c) \/ ReadRevoked(c)

Starts(c, operation, amount) ==
  \E network \in {Sepolia, Mainnet} :
    \/ ChainRefused(c, operation, amount, network)
    \/ NoRpcReachable(c, operation, amount, network)
    \/ Start(c, operation, amount, network)

Next ==
  \/ \E c \in Calls :
       \/ \E operation \in Ops \ Spends : Starts(c, operation, 0)
       \/ \E operation \in Spends, amount \in Values : Starts(c, operation, amount)
       \/ ClientStep(c)
       \/ Mine(c) \/ MineReverted(c)
  \/ NewPeriod

Spec == Init /\ [][Next]_vars

(* A call that has started goes on: its requests time out.  Nothing is     *)
(* assumed of the chain.                                                   *)
FairSpec == Spec /\ \A c \in Calls : WF_vars(ClientStep(c))

-----------------------------------------------------------------------------
(* Properties *)

(* A failure that is neither SettlementNotConfirmed nor a bare transport   *)
(* error means that this call has taken nothing out of the account and     *)
(* never will: its transaction was never broadcast or it reverted, so the  *)
(* caller may retry at no risk of paying twice.                            *)
FailureMovesNothing ==
  \A c \in Calls : result[c] \in Failures =>
    debit[c] = 0 /\ tx[c] # "pending"

(* A hash that is returned stands for the thing done: the exact amount,    *)
(* truncated to atomic units, has left the account; the permission is      *)
(* approved; the revocation is in force; the account exists.               *)
OkMeansDone ==
  \A c \in Calls : result[c] = "ok" =>
    /\ op[c] \in Spends => debit[c] = value[c] \div Fraction /\ debit[c] > 0
    /\ op[c] = "register" => approved
    /\ op[c] = "revoke" => revoked
    /\ op[c] = "provision" => deployed

(* register_spend_permission never reports success on a permission that is *)
(* revoked at that moment, although approveWithSignature mines with        *)
(* status 1 and isApproved() is true on one.                               *)
RegisteredIsUsable ==
  [][\A c \in Calls :
       op[c] = "register" /\ result[c] = "none" /\ result'[c] = "ok" => Granted]_vars

(* A retry pays once: of a call and an earlier one of the same wallet that *)
(* was still under way when the call read its nonce (not yet broadcast, or *)
(* pending, its caller told SettlementNotConfirmed or nothing), at most    *)
(* one is ever executed, whatever happens between the nonce read and the   *)
(* broadcast of either.  (A call that reads its nonce after the earlier    *)
(* one was mined is a payment of its own.)                                 *)
RetryPaysOnce ==
  \A c \in Calls : \A d \in racing[c] : ~(HasReceipt(c) /\ HasReceipt(d))

(* Every call that is made returns or raises, even if its transaction is   *)
(* never mined: the polls for the receipt are counted, those that fail     *)
(* included.                                                               *)
CallsReturn == \A c \in Calls : step[c] # "idle" ~> step[c] = "done"

(* payments/spend_permission.py, lines 153-155, on payments/errors.py: "no *)
(* bare exception escape the payment path; a bare TimeoutError out of a    *)
(* money-moving call violates that".  The wait for the receipt is covered; *)
(* the broadcast itself is not: its answer may be lost, and with it the    *)
(* hash of a transaction that then lands.                                  *)
BareErrorsMoveNothing ==
  \A c \in Calls : result[c] = "TransportError" => debit[c] = 0
=============================================================================
