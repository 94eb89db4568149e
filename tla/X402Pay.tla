------------------------------ MODULE X402Pay ------------------------------
(***************************************************************************)
(* One call of payments.client.pay(), with the seller, the x402 SDK, the   *)
(* facilitator and the chain it talks to.                                  *)
(*                                                                         *)
(* The call is a straight line of steps; between any two of them the       *)
(* facilitator may redeem the signed authorization, submit a transaction   *)
(* that reverts, or let the authorization expire.  None of these waits for *)
(* the client: an authorization stays redeemable after pay() has raised.   *)
(*                                                                         *)
(* The facilitator is taken to be honest: a hash that is reported belongs  *)
(* to a transaction submitted for this authorization, or to one that never *)
(* reaches the chain; without an authorization it is of the latter kind.   *)
(***************************************************************************)
EXTENDS Settlement

CONSTANTS
  MaxAmount,          (* the max_amount argument, in atomic USDC *)
  NetworkAllowlist,   (* the network_allowlist argument *)
  SupportedChains,    (* DOMAIN USDC_BY_CHAIN *)
  Chains,             (* every chain an offer may name *)
  Payer,              (* wallet.address *)
  Stranger,           (* somebody else paying in the same transaction *)
  PayTos,             (* addresses an offer may name *)
  Menus,              (* the "accepts" lists the probe may return *)
  Requotes,           (* the terms the paying request may be answered with *)
  Balances,           (* what the balance read may return *)
  Hashes,             (* transaction hashes *)
  NoTerms, NoHash, NoSettle, NoReceipt

Terms == [payTo : PayTos, chain : Chains, amount : Nat]

ASSUME PayAssumption ==
  /\ MaxAmount \in Nat
  /\ Requotes \subseteq Terms
  /\ NoTerms \notin Terms
  /\ NoHash \notin Hashes
  /\ Balances \subseteq Nat

VARIABLES
  pc,          (* where pay() is *)
  offer,       (* quote.best_satisfiable, once it has passed the pre-flight *)
  auth,        (* the terms signed for, or NoTerms *)
  open,        (* the authorization can still be redeemed *)
  chain,       (* hash |-> receipt *)
  resp,        (* the response of the paying request *)
  result       (* what pay() returned or raised *)

envVars == <<open, chain>>
vars == <<pc, offer, auth, open, chain, resp, result, pollVars>>

Transfers == [from : {Payer, Stranger}, to : PayTos, amount : Nat]
Receipts == [status : {0, 1}, transfers : Seq(Transfers)]
Settles == [success : BOOLEAN, tx : Hashes \cup {NoHash}]
Responses == [status : {200, 402, 500}, settle : Settles \cup {NoSettle}]

(* The errors pay() raises only while nothing has been signed.  A          *)
(* "DecodeError" is not of the taxonomy: it is whatever Python raises over *)
(* terms or a balance that cannot be decoded, and pay() does not catch.    *)
Refusals ==
  {"EndpointUnreachable", "NoSatisfiableOffer", "OfferOverCap", "NetworkNotAllowed",
   "BalanceCheckUnavailable", "InsufficientBalance", "DecodeError"}

(* The errors after which money may have moved, or may still move.  A      *)
(* "RequestException" is not of the taxonomy: it is the transport error of *)
(* the paying request, which pay() does not catch.                         *)
Unresolved ==
  {"UnexpectedStatus", "SettlementRejected", "SettlementNotConfirmed",
   "SettlementMismatch", "RequestException"}

Results ==
  [kind : {"pending", "Paid"} \cup Refusals \cup Unresolved,
   hash : Hashes \cup {NoHash}]

NoResponse == [status |-> 200, settle |-> NoSettle]

TypeOK ==
  /\ PollingTypeOK
  /\ pc \in {"probe", "balance", "sign", "paying", "response", "verify", "done"}
  /\ offer \in Terms \cup {NoTerms}
  /\ auth \in Terms \cup {NoTerms}
  /\ open \in BOOLEAN
  /\ chain \in [Hashes -> Receipts \cup {NoReceipt}]
  /\ resp \in Responses
  /\ result \in Results

Init ==
  /\ pc = "probe"
  /\ offer = NoTerms
  /\ auth = NoTerms
  /\ open = FALSE
  /\ chain = [h \in Hashes |-> NoReceipt]
  /\ resp = NoResponse
  /\ result = [kind |-> "pending", hash |-> NoHash]
  /\ endpoint = 1 /\ tries = 0 /\ reachable = FALSE

-----------------------------------------------------------------------------
(* The quote: _offer_from_entry, parse_terms.                              *)

(* The reasons of _offer_from_entry, all absent. *)
Satisfiable(entry) ==
  /\ entry.parses
  /\ entry.amount >= 0
  /\ entry.scheme = "exact"
  /\ entry.chain \in SupportedChains
  /\ entry.pinned
  /\ entry.method = "transferWithAuthorization"

Payable(menu) == {i \in DOMAIN menu : Satisfiable(menu[i])}

(* min() keeps the first of equally cheap offers. *)
Best(menu) ==
  LET i == CHOOSE i \in Payable(menu) :
             \A j \in Payable(menu) \ {i} :
               \/ menu[i].amount < menu[j].amount
               \/ menu[i].amount = menu[j].amount /\ i < j
  IN [payTo |-> menu[i].payTo, chain |-> menu[i].chain, amount |-> menu[i].amount]

-----------------------------------------------------------------------------
(* The end of the call. *)
Finish(kind, hash) ==
  /\ pc' = "done"
  /\ result' = [kind |-> kind, hash |-> hash]

Raise(kind) == Finish(kind, NoHash)

-----------------------------------------------------------------------------
(* inspect_offer and the local pre-flight checks *)

(* inspect_offer raises: no connection; a response that carries no terms   *)
(* and is not a 402; terms with an entry that is no object, or whose       *)
(* amount is NaN.                                                          *)
ProbeFails ==
  /\ pc = "probe"
  /\ \E kind \in {"EndpointUnreachable", "UnexpectedStatus", "DecodeError"} : Raise(kind)
  /\ UNCHANGED <<offer, auth, envVars, resp, pollVars>>

ProbeRefused(menu) ==
  /\ pc = "probe"
  /\ \/ /\ Payable(menu) = {}
        /\ Raise("NoSatisfiableOffer")
     \/ /\ Payable(menu) # {}
        /\ Best(menu).amount > MaxAmount
        /\ Raise("OfferOverCap")
     \/ /\ Payable(menu) # {}
        /\ Best(menu).amount <= MaxAmount
        /\ Best(menu).chain \notin NetworkAllowlist
        /\ Raise("NetworkNotAllowed")
  /\ UNCHANGED <<offer, auth, envVars, resp, pollVars>>

(* A mutant: the cap is not checked before the payment. *)
ProbeAcceptedUncapped(menu) ==
  /\ pc = "probe"
  /\ Payable(menu) # {}
  /\ Best(menu) \in Terms
  /\ Best(menu).chain \in NetworkAllowlist
  /\ offer' = Best(menu)
  /\ pc' = "balance"
  /\ UNCHANGED <<auth, envVars, resp, result, pollVars>>

ProbeAccepted(menu) ==
  /\ pc = "probe"
  /\ Payable(menu) # {}
  /\ Best(menu) \in Terms
  /\ Best(menu).amount <= MaxAmount
  /\ Best(menu).chain \in NetworkAllowlist
  /\ offer' = Best(menu)
  /\ pc' = "balance"
  /\ UNCHANGED <<auth, envVars, resp, result, pollVars>>

(* No endpoint serves the balance, or the first one that does sends an     *)
(* empty answer, which is decoded outside the guard.                       *)
BalanceUnavailable ==
  /\ pc = "balance"
  /\ \E kind \in {"BalanceCheckUnavailable", "DecodeError"} : Raise(kind)
  /\ UNCHANGED <<offer, auth, envVars, resp, pollVars>>

BalanceRead(balance) ==
  /\ pc = "balance"
  /\ \/ balance < offer.amount /\ Raise("InsufficientBalance")
     \/ balance >= offer.amount /\ pc' = "sign" /\ UNCHANGED result
  /\ UNCHANGED <<offer, auth, envVars, resp, pollVars>>

-----------------------------------------------------------------------------
(* session.get: the SDK asks again, signs, and sends the paid request      *)

(* A mutant: the spend control is the caller's policy ceiling. *)
SpendControlIsCeiling == MaxAmount

(* max_amount_per_payment, handed to the SDK. *)
SpendControl == offer.amount

(* The transport fails before anything is signed. *)
UnpaidRequestFails ==
  /\ pc = "sign"
  /\ Raise("RequestException")
  /\ UNCHANGED <<offer, auth, envVars, resp, pollVars>>

(* The seller no longer asks for a payment: the SDK passes its answer on,  *)
(* which may carry a PAYMENT-RESPONSE header all the same.                 *)
UnpaidResponse(r) ==
  /\ pc = "sign"
  /\ r.status # 402
  /\ resp' = r
  /\ pc' = "response"
  /\ UNCHANGED <<offer, auth, envVars, result, pollVars>>

(* NoMatchingRequirementsError: re-priced above the spend control. *)
RequoteRefused(terms) ==
  /\ pc = "sign"
  /\ terms.amount > SpendControl
  /\ Raise("NoSatisfiableOffer")
  /\ UNCHANGED <<offer, auth, envVars, resp, pollVars>>

(* The SDK signs whatever it is now quoted, as long as the spend control   *)
(* allows the amount: payee and chain may differ from the probe's.         *)
Sign(terms) ==
  /\ pc = "sign"
  /\ terms.amount <= SpendControl
  /\ auth' = terms
  /\ open' = TRUE
  /\ pc' = "paying"
  /\ UNCHANGED <<offer, chain, resp, result, pollVars>>

(* A mutant: the transport error of the paying request is reported like    *)
(* that of the probe.                                                      *)
PaidRequestFailsAsUnreachable ==
  /\ pc = "paying"
  /\ Raise("EndpointUnreachable")
  /\ UNCHANGED <<offer, auth, envVars, resp, pollVars>>

(* The transport fails once the authorization is on its way.  Only         *)
(* NoMatchingRequirementsError is caught.                                  *)
PaidRequestFails ==
  /\ pc = "paying"
  /\ Raise("RequestException")
  /\ UNCHANGED <<offer, auth, envVars, resp, pollVars>>

PaidResponse(r) ==
  /\ pc = "paying"
  /\ resp' = r
  /\ pc' = "response"
  /\ UNCHANGED <<offer, auth, envVars, result, pollVars>>

-----------------------------------------------------------------------------
(* Reading the response *)

(* A mutant: the status is looked at before the settlement header. *)
NoUsableHeaderStatusFirst ==
  /\ pc = "response"
  /\ \/ resp.status = 500 /\ Raise("UnexpectedStatus")
     \/ resp.status = 402 /\ Raise("SettlementRejected")
     \/ resp.status = 200 /\ resp.settle = NoSettle /\ Raise("SettlementRejected")
  /\ UNCHANGED <<offer, auth, envVars, resp, pollVars>>

(* No PAYMENT-RESPONSE header. *)
NoUsableHeader ==
  /\ pc = "response"
  /\ resp.settle = NoSettle
  /\ \/ resp.status \in {200, 402} /\ Raise("SettlementRejected")
     \/ resp.status \notin {200, 402} /\ Raise("UnexpectedStatus")
  /\ UNCHANGED <<offer, auth, envVars, resp, pollVars>>

(* The facilitator says no, or says yes and names no transaction. *)
SettlementDenied ==
  /\ pc = "response"
  /\ resp.settle # NoSettle
  /\ ~resp.settle.success \/ resp.settle.tx = NoHash
  /\ Finish("SettlementRejected", resp.settle.tx)
  /\ UNCHANGED <<offer, auth, envVars, resp, pollVars>>

SettlementClaimed ==
  /\ pc = "response"
  /\ resp.settle # NoSettle
  /\ resp.settle.success /\ resp.settle.tx # NoHash
  /\ pc' = "verify"
  /\ PollingStart
  /\ UNCHANGED <<offer, auth, envVars, resp, result>>

-----------------------------------------------------------------------------
(* verify_settlement *)

(* The quoted chain is the one that is asked. *)
Visible(hash) == chain[hash] # NoReceipt /\ auth.chain = offer.chain

Expected == [from |-> Payer, to |-> offer.payTo, amount |-> offer.amount]

ReceiptPending ==
  /\ pc = "verify"
  /\ PollNotFound \/ PollTransportError
  /\ UNCHANGED <<pc, offer, auth, envVars, resp, result>>

(* No RPC reachable, or none that knows the transaction. *)
ReceiptGivenUp ==
  /\ pc = "verify"
  /\ Exhausted
  /\ Finish("SettlementNotConfirmed", resp.settle.tx)
  /\ UNCHANGED <<offer, auth, envVars, resp, pollVars>>

(* A mutant: a delivered resource is taken as proof of the settlement. *)
ReceiptReadTrusting ==
  /\ pc = "verify"
  /\ ~Exhausted
  /\ Visible(resp.settle.tx)
  /\ IF resp.status = 200 THEN Finish("Paid", resp.settle.tx)
                          ELSE Finish("SettlementMismatch", resp.settle.tx)
  /\ UNCHANGED <<offer, auth, envVars, resp, pollVars>>

ReceiptRead ==
  /\ pc = "verify"
  /\ ~Exhausted
  /\ Visible(resp.settle.tx)
  /\ LET matches == MatchesExpected(chain[resp.settle.tx], Expected)
     IN \/ ~matches /\ Finish("SettlementMismatch", resp.settle.tx)
        \/ matches /\ resp.status # 200 /\ Finish("SettlementRejected", resp.settle.tx)
        \/ matches /\ resp.status = 200 /\ Finish("Paid", resp.settle.tx)
  /\ UNCHANGED <<offer, auth, envVars, resp, pollVars>>

-----------------------------------------------------------------------------
(* The facilitator and the chain *)

Own == [from |-> Payer, to |-> auth.payTo, amount |-> auth.amount]

(* A transfer by somebody else to the same payee: a facilitator that       *)
(* settles several authorizations in one transaction.                      *)
Foreign == [from |-> Stranger, to |-> auth.payTo, amount |-> auth.amount]

Mine(h, receipt) ==
  /\ chain[h] = NoReceipt
  /\ chain' = [chain EXCEPT ![h] = receipt]

(* transferWithAuthorization succeeds; its nonce is used up. *)
Settle(h) ==
  /\ open
  /\ \E logs \in {<<Own>>, <<Own, Foreign>>, <<Foreign, Own>>} :
       Mine(h, [status |-> 1, transfers |-> logs])
  /\ open' = FALSE
  /\ UNCHANGED <<pc, offer, auth, resp, result, pollVars>>

(* A submission that reverts leaves the authorization redeemable. *)
Revert(h) ==
  /\ open
  /\ Mine(h, [status |-> 0, transfers |-> << >>])
  /\ UNCHANGED <<pc, offer, auth, open, resp, result, pollVars>>

(* validBefore has passed. *)
Expire ==
  /\ open
  /\ open' = FALSE
  /\ UNCHANGED <<pc, offer, auth, chain, resp, result, pollVars>>

-----------------------------------------------------------------------------
ClientStep ==
  \/ ProbeFails
  \/ \E menu \in Menus : ProbeRefused(menu) \/ ProbeAccepted(menu)
  \/ BalanceUnavailable
  \/ \E balance \in Balances : BalanceRead(balance)
  \/ UnpaidRequestFails
  \/ \E terms \in Requotes : RequoteRefused(terms) \/ Sign(terms)
  \/ PaidRequestFails
  \/ \E r \in Responses : UnpaidResponse(r) \/ PaidResponse(r)
  \/ NoUsableHeader \/ SettlementDenied \/ SettlementClaimed
  \/ ReceiptPending \/ ReceiptGivenUp \/ ReceiptRead

EnvironmentStep ==
  \/ \E h \in Hashes : Settle(h) \/ Revert(h)
  \/ Expire

Next == ClientStep \/ EnvironmentStep

Spec == Init /\ [][Next]_vars

(* Every request the client makes has a timeout, so each of its steps is   *)
(* eventually taken.  Nothing is assumed of the seller, of the facilitator *)
(* or of the chain.                                                        *)
FairSpec == Spec /\ WF_vars(ClientStep)

-----------------------------------------------------------------------------
(* Properties *)

Mined(h) == chain[h] # NoReceipt
Redeemed(h) == Mined(h) /\ chain[h].status = 1
TransfersOf(h) == {chain[h].transfers[i] : i \in DOMAIN chain[h].transfers}

(* An error of the "pre-flight" kind means that nothing was signed and     *)
(* that no transaction of this call exists: a caller may go on to another  *)
(* vendor, or try again, at no risk of paying twice.  Says it of every     *)
(* later moment too, whatever the facilitator does.                        *)
RefusalIsClean ==
  result.kind \in Refusals =>
    /\ auth = NoTerms /\ ~open
    /\ \A h \in Hashes : chain[h] = NoReceipt

(* A seller that re-prices between the probe and the paying request draws  *)
(* no more than the quote, and the quote is within the caller's cap.       *)
DrawnWithinQuote ==
  \A h \in Hashes : Redeemed(h) =>
    \A t \in TransfersOf(h) :
      t.from = Payer => t.amount <= offer.amount /\ offer.amount <= MaxAmount

(* A PaymentOutcome with paid=True is backed by the chain the caller       *)
(* allowed: the transaction it names succeeded, and carries the transfer   *)
(* of the quoted amount from the payer to the quoted payee; and the seller *)
(* delivered.                                                              *)
PaidIsOnChain ==
  result.kind = "Paid" =>
    /\ resp.status = 200
    /\ auth.chain = offer.chain /\ offer.chain \in NetworkAllowlist
    /\ Redeemed(result.hash)
    /\ Expected \in TransfersOf(result.hash)

(* A transaction hash the facilitator reported is in what the caller gets, *)
(* however the call ends: a seller that settles and then answers 500 still *)
(* moved money, and the hash must survive.                                 *)
HashNotLost ==
  pc = "done" /\ resp.settle # NoSettle => result.hash = resp.settle.tx

(* SettlementMismatch is never raised over a payment made as agreed: the   *)
(* transaction reverted, somebody else's transfer comes first in its log,  *)
(* or the seller changed the terms between the probe and the payment.      *)
MismatchHasCause ==
  result.kind = "SettlementMismatch" =>
    /\ Mined(result.hash)
    /\ \/ ~Redeemed(result.hash)
       \/ Head(chain[result.hash].transfers).from # Payer
       \/ auth # offer

(* pay() returns: the retries of the receipt loop come to an end whatever  *)
(* the RPC endpoints answer.                                               *)
PayReturns == <>(pc = "done")

(* The money side of the call, as the caller of pay() may rely on it: this *)
(* module implements PaymentPromise.                                       *)
AmountsOf(terms) == IF terms = NoTerms THEN {} ELSE {terms.amount}

Moved == IF \E h \in Hashes : Redeemed(h) THEN AmountsOf(auth) ELSE {}

Told ==
  IF result.kind = "pending" THEN "pending"
  ELSE IF result.kind = "Paid" THEN "paid"
  ELSE IF result.kind \in Refusals THEN "refused"
  ELSE "unresolved"

Promise == INSTANCE PaymentPromise WITH
  Cap <- MaxAmount,
  agreed <- AmountsOf(offer),
  authorized <- AmountsOf(auth),
  moved <- Moved,
  report <- Told

KeepsPromise == Promise!Spec

(* payments/spend_permission.py, lines 153-154, on payments/errors.py: "no *)
(* bare exception escape the payment path".  The transport error of the    *)
(* paying request does, with an authorization signed and no hash to        *)
(* reconcile it by.                                                        *)
SignedFailureIsTyped == result.kind = "RequestException" => auth = NoTerms

(* SettlementNotConfirmed, payments/errors.py line 73: "Receipt missing /  *)
(* status 0 / unmined after the retry budget".  A receipt with status 0 is *)
(* reported as a SettlementMismatch instead.                               *)
RevertIsNotConfirmed ==
  result.kind = "SettlementMismatch" => Redeemed(result.hash)
=============================================================================
