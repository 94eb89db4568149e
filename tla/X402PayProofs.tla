--------------------------- MODULE X402PayProofs ---------------------------
(***************************************************************************)
(* Proofs about X402Pay, for every list of endpoints, every retry budget,  *)
(* every cap and every set of offers.                                      *)
(***************************************************************************)
EXTENDS X402Pay, TLAPS

-----------------------------------------------------------------------------
(* The inductive invariant, part by part.                                  *)

(* What has been accepted passed the pre-flight checks. *)
OfferInv ==
  offer # NoTerms => offer.amount <= MaxAmount /\ offer.chain \in NetworkAllowlist

(* What has been signed is within what was accepted. *)
AuthInv ==
  /\ auth # NoTerms => offer # NoTerms /\ auth.amount <= offer.amount
  /\ open => auth # NoTerms

(* Which of them exist where pay() is. *)
StageInv ==
  /\ pc = "probe" => offer = NoTerms
  /\ pc \in {"balance", "sign", "paying", "response", "verify"} => offer # NoTerms
  /\ pc \in {"probe", "balance", "sign"} => auth = NoTerms /\ resp.settle = NoSettle
  /\ pc = "paying" => auth # NoTerms /\ resp.settle = NoSettle
  /\ pc = "verify" => resp.settle # NoSettle /\ resp.settle.tx \in Hashes
  /\ pc # "done" <=> result.kind = "pending"

(* The chain carries transactions of this authorization only, at most one  *)
(* of them successful, and none once the authorization is used up.         *)
ChainInv ==
  /\ \A h \in Hashes : Mined(h) =>
       /\ auth # NoTerms
       /\ \/ chain[h].status = 0
          \/ /\ chain[h].status = 1
             /\ chain[h].transfers \in {<<Own>>, <<Own, Foreign>>, <<Foreign, Own>>}
  /\ \A h \in Hashes : Redeemed(h) => ~open

(* What the caller was told. *)
ResultInv ==
  /\ result.kind \in Refusals => auth = NoTerms
  /\ result.kind = "Paid" =>
       /\ resp.status = 200 /\ offer # NoTerms /\ auth.chain = offer.chain
       /\ result.hash \in Hashes /\ Mined(result.hash)
       /\ MatchesExpected(chain[result.hash], Expected)
  /\ result.kind = "SettlementMismatch" =>
       /\ result.hash \in Hashes /\ Mined(result.hash)
       /\ ~MatchesExpected(chain[result.hash], Expected)
  /\ HashNotLost

IInv == TypeOK /\ OfferInv /\ AuthInv /\ StageInv /\ ChainInv /\ ResultInv

-----------------------------------------------------------------------------
(* The types of the parts of a state *)

(* A transfer of the authorized amount is a transfer. *)
LEMMA OwnIsTransfer ==
  ASSUME TypeOK, auth # NoTerms
  PROVE  Own \in Transfers /\ Foreign \in Transfers
BY DEF TypeOK, Terms, Own, Foreign, Transfers

(* Ending the call leaves a result of the right type. *)
LEMMA FinishType ==
  ASSUME TypeOK, NEW kind \in {"Paid"} \cup Refusals \cup Unresolved,
         NEW hash \in Hashes \cup {NoHash}, Finish(kind, hash)
  PROVE  pc' = "done" /\ result' \in Results /\ result'.kind = kind /\ result'.hash = hash
BY DEF Finish, Results

(* The initial states satisfy the invariant. *)
LEMMA InitIInv == Init => IInv
<1> SUFFICES ASSUME Init PROVE IInv
  OBVIOUS
<1>1. TypeOK
  <2>1. PollingTypeOK
    <3>1. endpoint \in 1..(NumEndpoints + 1) /\ tries \in 0..(Retries - 1)
      BY PollingAssumption DEF Init
    <3>2. reachable \in BOOLEAN
      BY DEF Init
    <3> QED
      BY <3>1, <3>2 DEF PollingTypeOK
  <2>2. chain \in [Hashes -> Receipts \cup {NoReceipt}]
    BY DEF Init
  <2>3. resp \in Responses /\ result \in Results
    BY DEF Init, Responses, NoResponse, Results
  <2> QED
    BY <2>1, <2>2, <2>3 DEF Init, TypeOK
<1>2. OfferInv /\ AuthInv /\ StageInv
  BY DEF Init, OfferInv, AuthInv, StageInv, NoResponse
<1>3. ChainInv
  BY DEF Init, ChainInv, Mined, Redeemed
<1>4. ResultInv
  BY DEF Init, ResultInv, HashNotLost, Refusals
<1> QED
  BY <1>1, <1>2, <1>3, <1>4 DEF IInv

-----------------------------------------------------------------------------
(* Ending the call *)

(* Every return and every error of pay() keeps the invariant, under what   *)
(* the invariant asks of the kind and of the hash reported.                *)
LEMMA Ending ==
  ASSUME IInv,
         NEW kind \in {"Paid"} \cup Refusals \cup Unresolved,
         NEW hash \in Hashes \cup {NoHash},
         Finish(kind, hash),
         UNCHANGED <<offer, auth, envVars, resp, pollVars>>,
         kind \in Refusals => auth = NoTerms,
         kind = "Paid" =>
           /\ resp.status = 200 /\ offer # NoTerms /\ auth.chain = offer.chain
           /\ hash \in Hashes /\ Mined(hash)
           /\ MatchesExpected(chain[hash], Expected),
         kind = "SettlementMismatch" =>
           /\ hash \in Hashes /\ Mined(hash)
           /\ ~MatchesExpected(chain[hash], Expected),
         resp.settle # NoSettle => hash = resp.settle.tx
  PROVE  IInv'
<1>1. pc' = "done" /\ result' \in Results /\ result'.kind = kind /\ result'.hash = hash
  BY FinishType DEF IInv
<1>2. kind # "pending"
  BY DEF Refusals, Unresolved
<1>3. TypeOK'
  BY <1>1 DEF IInv, TypeOK, PollingTypeOK, envVars, pollVars
<1>4. OfferInv' /\ AuthInv' /\ StageInv'
  BY <1>1, <1>2 DEF IInv, OfferInv, AuthInv, StageInv, envVars
<1>5. ChainInv'
  BY DEF IInv, ChainInv, Mined, Redeemed, Own, Foreign, envVars
<1>6. Expected' = Expected
  BY DEF Expected
<1>7. ResultInv'
  BY <1>1, <1>2, <1>6 DEF IInv, ResultInv, HashNotLost, envVars, Mined, MatchesExpected
<1> QED
  BY <1>3, <1>4, <1>5, <1>7 DEF IInv

(* An error raised before the settlement header is read. *)
LEMMA Raising ==
  ASSUME IInv, NEW kind \in Refusals \cup Unresolved,
         kind # "SettlementMismatch", Raise(kind), resp.settle = NoSettle,
         UNCHANGED <<offer, auth, envVars, resp, pollVars>>,
         kind \in Refusals => auth = NoTerms
  PROVE  IInv'
<1>1. kind # "Paid"
  BY DEF Refusals, Unresolved
<1> QED
  BY <1>1, Ending DEF Raise

-----------------------------------------------------------------------------
(* One lemma per group of actions                                          *)

(* The steps up to the paying request. *)
LEMMA ProbeStep ==
  ASSUME IInv,
         \/ ProbeFails
         \/ \E menu \in Menus : ProbeRefused(menu) \/ ProbeAccepted(menu)
  PROVE  IInv'
<1>1. CASE ProbeFails
  <2>1. PICK kind \in {"EndpointUnreachable", "UnexpectedStatus", "DecodeError"} : Raise(kind)
    BY <1>1 DEF ProbeFails
  <2>2. auth = NoTerms /\ resp.settle = NoSettle
    BY <1>1 DEF ProbeFails, IInv, StageInv
  <2> QED
    BY <1>1, <2>1, <2>2, Raising DEF ProbeFails, Refusals, Unresolved
<1>2. ASSUME NEW menu \in Menus, ProbeRefused(menu) PROVE IInv'
  <2>1. PICK kind \in {"NoSatisfiableOffer", "OfferOverCap", "NetworkNotAllowed"} : Raise(kind)
    BY <1>2 DEF ProbeRefused
  <2>2. auth = NoTerms /\ resp.settle = NoSettle
    BY <1>2 DEF ProbeRefused, IInv, StageInv
  <2> QED
    BY <1>2, <2>1, <2>2, Raising DEF ProbeRefused, Refusals, Unresolved
<1>3. ASSUME NEW menu \in Menus, ProbeAccepted(menu) PROVE IInv'
  <2> USE <1>3 DEF ProbeAccepted
  <2>1. /\ offer' \in Terms /\ offer' # NoTerms /\ offer'.amount <= MaxAmount
        /\ offer'.chain \in NetworkAllowlist
    BY PayAssumption
  <2>2. auth = NoTerms /\ resp.settle = NoSettle /\ result.kind = "pending"
    BY DEF IInv, StageInv
  <2>3. TypeOK'
    BY <2>1 DEF IInv, TypeOK, PollingTypeOK, envVars, pollVars
  <2>4. OfferInv' /\ AuthInv' /\ StageInv'
    BY <2>1, <2>2 DEF IInv, OfferInv, AuthInv, StageInv, envVars
  <2>5. ChainInv'
    BY DEF IInv, ChainInv, Mined, Redeemed, Own, Foreign, envVars
  <2>6. ResultInv'
    BY <2>2 DEF IInv, ResultInv, HashNotLost, Refusals
  <2> QED
    BY <2>3, <2>4, <2>5, <2>6 DEF IInv
<1> QED
  BY <1>1, <1>2, <1>3

(* The balance check. *)
LEMMA BalanceStep ==
  ASSUME IInv, BalanceUnavailable \/ \E balance \in Balances : BalanceRead(balance)
  PROVE  IInv'
<1>1. pc = "balance" /\ auth = NoTerms /\ resp.settle = NoSettle /\ result.kind = "pending"
  BY DEF BalanceUnavailable, BalanceRead, IInv, StageInv
<1>2. UNCHANGED <<offer, auth, envVars, resp, pollVars>>
  BY DEF BalanceUnavailable, BalanceRead
<1>3. CASE \E kind \in {"BalanceCheckUnavailable", "DecodeError", "InsufficientBalance"} :
             Raise(kind)
  BY <1>1, <1>2, <1>3, Raising DEF Refusals, Unresolved
<1>4. CASE pc' = "sign" /\ UNCHANGED result
  <2>1. TypeOK'
    BY <1>2, <1>4 DEF IInv, TypeOK, PollingTypeOK, envVars, pollVars
  <2>2. OfferInv' /\ AuthInv' /\ StageInv'
    BY <1>1, <1>2, <1>4 DEF IInv, OfferInv, AuthInv, StageInv, envVars
  <2>3. ChainInv'
    BY <1>2 DEF IInv, ChainInv, Mined, Redeemed, Own, Foreign, envVars
  <2>4. ResultInv'
    BY <1>1, <1>2, <1>4 DEF IInv, ResultInv, HashNotLost, Refusals
  <2> QED
    BY <2>1, <2>2, <2>3, <2>4 DEF IInv
<1> QED
  BY <1>3, <1>4 DEF BalanceUnavailable, BalanceRead

(* The unpaid request of the SDK, up to the signature. *)
LEMMA SignStep ==
  ASSUME IInv,
         \/ UnpaidRequestFails
         \/ \E r \in Responses : UnpaidResponse(r)
         \/ \E terms \in Requotes : RequoteRefused(terms) \/ Sign(terms)
  PROVE  IInv'
<1>1. /\ pc = "sign" /\ auth = NoTerms /\ resp.settle = NoSettle
      /\ result.kind = "pending" /\ offer # NoTerms
  BY DEF UnpaidRequestFails, UnpaidResponse, RequoteRefused, Sign, IInv, StageInv
<1>2. ASSUME UnpaidRequestFails \/ \E terms \in Requotes : RequoteRefused(terms)
      PROVE  IInv'
  <2>1. PICK kind \in {"RequestException", "NoSatisfiableOffer"} : Raise(kind)
    BY <1>2 DEF UnpaidRequestFails, RequoteRefused
  <2> QED
    BY <1>1, <1>2, <2>1, Raising DEF UnpaidRequestFails, RequoteRefused, Refusals, Unresolved
<1>3. ASSUME NEW r \in Responses, UnpaidResponse(r) PROVE IInv'
  <2> USE <1>3 DEF UnpaidResponse
  <2>1. resp' \in Responses
    OBVIOUS
  <2>2. TypeOK'
    BY <2>1 DEF IInv, TypeOK, PollingTypeOK, envVars, pollVars
  <2>3. OfferInv' /\ AuthInv' /\ StageInv'
    BY <1>1, <2>1 DEF IInv, OfferInv, AuthInv, StageInv, envVars
  <2>4. ChainInv'
    BY DEF IInv, ChainInv, Mined, Redeemed, Own, Foreign, envVars
  <2>5. ResultInv'
    BY <1>1, <2>1 DEF IInv, ResultInv, HashNotLost, Refusals
  <2> QED
    BY <2>2, <2>3, <2>4, <2>5 DEF IInv
<1>4. ASSUME NEW terms \in Requotes, Sign(terms) PROVE IInv'
  <2> USE <1>4 DEF Sign
  <2>1. terms \in Terms /\ terms # NoTerms /\ terms.amount <= offer.amount
    BY PayAssumption DEF SpendControl
  <2>2. \A h \in Hashes : ~Mined(h)
    BY <1>1 DEF IInv, ChainInv
  <2>3. TypeOK'
    BY <2>1 DEF IInv, TypeOK, PollingTypeOK, pollVars
  <2>4. OfferInv' /\ AuthInv' /\ StageInv'
    BY <1>1, <2>1 DEF IInv, OfferInv, AuthInv, StageInv
  <2>5. ChainInv'
    BY <2>2 DEF ChainInv, Mined, Redeemed
  <2>6. ResultInv'
    BY <1>1 DEF IInv, ResultInv, HashNotLost, Refusals
  <2> QED
    BY <2>3, <2>4, <2>5, <2>6 DEF IInv
<1> QED
  BY <1>2, <1>3, <1>4

(* The paid request and the reading of its response. *)
LEMMA ResponseStep ==
  ASSUME IInv,
         \/ PaidRequestFails
         \/ \E r \in Responses : PaidResponse(r)
         \/ NoUsableHeader \/ SettlementDenied \/ SettlementClaimed
  PROVE  IInv'
<1>1. CASE PaidRequestFails
  <2>1. resp.settle = NoSettle
    BY <1>1 DEF PaidRequestFails, IInv, StageInv
  <2> QED
    BY <1>1, <2>1, Raising DEF PaidRequestFails, Refusals, Unresolved
<1>2. ASSUME NEW r \in Responses, PaidResponse(r) PROVE IInv'
  <2> USE <1>2 DEF PaidResponse
  <2>1. auth # NoTerms /\ offer # NoTerms /\ result.kind = "pending"
    BY DEF IInv, StageInv
  <2>2. TypeOK'
    BY DEF IInv, TypeOK, PollingTypeOK, envVars, pollVars
  <2>3. OfferInv' /\ AuthInv' /\ StageInv'
    BY <2>1 DEF IInv, OfferInv, AuthInv, StageInv, envVars
  <2>4. ChainInv'
    BY DEF IInv, ChainInv, Mined, Redeemed, Own, Foreign, envVars
  <2>5. ResultInv'
    BY <2>1 DEF IInv, ResultInv, HashNotLost, Refusals
  <2> QED
    BY <2>2, <2>3, <2>4, <2>5 DEF IInv
<1>3. CASE NoUsableHeader
  <2>1. PICK kind \in {"SettlementRejected", "UnexpectedStatus"} : Raise(kind)
    BY <1>3 DEF NoUsableHeader
  <2> QED
    BY <1>3, <2>1, Raising DEF NoUsableHeader, Refusals, Unresolved
<1>4. CASE SettlementDenied
  <2>1. resp.settle.tx \in Hashes \cup {NoHash}
    BY <1>4 DEF SettlementDenied, IInv, TypeOK, Responses, Settles
  <2> QED
    BY <1>4, <2>1, Ending DEF SettlementDenied, Refusals, Unresolved
<1>5. CASE SettlementClaimed
  <2> USE <1>5 DEF SettlementClaimed
  <2>1. resp.settle.tx \in Hashes /\ offer # NoTerms /\ result.kind = "pending"
    BY DEF IInv, StageInv, TypeOK, Responses, Settles
  <2>2. PollingTypeOK'
    <3>1. endpoint' \in 1..(NumEndpoints + 1) /\ tries' \in 0..(Retries - 1)
      BY PollingAssumption DEF PollingStart
    <3>2. reachable' \in BOOLEAN
      BY DEF PollingStart
    <3> QED
      BY <3>1, <3>2 DEF PollingTypeOK
  <2>3. TypeOK'
    BY <2>2 DEF IInv, TypeOK, envVars
  <2>4. OfferInv' /\ AuthInv' /\ StageInv'
    BY <2>1 DEF IInv, OfferInv, AuthInv, StageInv, envVars
  <2>5. ChainInv'
    BY DEF IInv, ChainInv, Mined, Redeemed, Own, Foreign, envVars
  <2>6. ResultInv'
    BY <2>1 DEF IInv, ResultInv, HashNotLost, Refusals
  <2> QED
    BY <2>3, <2>4, <2>5, <2>6 DEF IInv
<1> QED
  BY <1>1, <1>2, <1>3, <1>4, <1>5

(* Polling stays within the endpoints and the retry budget of each. *)
LEMMA PollingType ==
  ASSUME PollingTypeOK, PollNotFound \/ PollTransportError
  PROVE  PollingTypeOK'
<1>1. endpoint' \in 1..(NumEndpoints + 1) /\ tries' \in 0..(Retries - 1)
  BY PollingAssumption DEF PollingTypeOK, PollNotFound, PollTransportError, Exhausted
<1>2. reachable' \in BOOLEAN
  BY DEF PollingTypeOK, PollNotFound, PollTransportError
<1> QED
  BY <1>1, <1>2 DEF PollingTypeOK

(* verify_settlement. *)
LEMMA VerifyStep ==
  ASSUME IInv, ReceiptPending \/ ReceiptGivenUp \/ ReceiptRead
  PROVE  IInv'
<1>1. /\ pc = "verify" /\ offer # NoTerms
      /\ resp.settle # NoSettle /\ resp.settle.tx \in Hashes
  BY DEF ReceiptPending, ReceiptGivenUp, ReceiptRead, IInv, StageInv
<1>2. CASE ReceiptPending
  <2> USE <1>2 DEF ReceiptPending
  <2>1. PollingTypeOK'
    BY PollingType DEF IInv, TypeOK
  <2>2. TypeOK'
    BY <2>1 DEF IInv, TypeOK, envVars
  <2>3. OfferInv' /\ AuthInv' /\ StageInv'
    BY DEF IInv, OfferInv, AuthInv, StageInv, envVars
  <2>4. ChainInv'
    BY DEF IInv, ChainInv, Mined, Redeemed, Own, Foreign, envVars
  <2>5. Expected' = Expected
    BY DEF Expected
  <2>6. ResultInv'
    BY <2>5 DEF IInv, ResultInv, HashNotLost, envVars, Mined, MatchesExpected
  <2> QED
    BY <2>2, <2>3, <2>4, <2>6 DEF IInv
<1>3. CASE ReceiptGivenUp
  BY <1>1, <1>3, Ending DEF ReceiptGivenUp, Refusals, Unresolved
<1>4. CASE ReceiptRead
  <2> DEFINE hash == resp.settle.tx
             matches == MatchesExpected(chain[hash], Expected)
  <2>1. /\ UNCHANGED <<offer, auth, envVars, resp, pollVars>>
        /\ Mined(hash) /\ auth.chain = offer.chain
    BY <1>4 DEF ReceiptRead, Visible, Mined
  <2>2. CASE ~matches /\ Finish("SettlementMismatch", hash)
    BY <1>1, <2>1, <2>2, Ending DEF Refusals, Unresolved
  <2>3. CASE matches /\ Finish("SettlementRejected", hash)
    BY <1>1, <2>1, <2>3, Ending DEF Refusals, Unresolved
  <2>4. CASE matches /\ resp.status = 200 /\ Finish("Paid", hash)
    BY <1>1, <2>1, <2>4, Ending DEF Refusals
  <2> QED
    BY <1>4, <2>2, <2>3, <2>4 DEF ReceiptRead
<1> QED
  BY <1>2, <1>3, <1>4

(* A transaction is mined for the authorization that is open. *)
LEMMA MineStep ==
  ASSUME IInv, open, NEW h \in Hashes, NEW receipt, Mine(h, receipt),
         UNCHANGED <<pc, offer, auth, resp, result, pollVars>>,
         \/ receipt = [status |-> 0, transfers |-> << >>] /\ UNCHANGED open
         \/ /\ receipt.status = 1 /\ receipt \in Receipts
            /\ receipt.transfers \in {<<Own>>, <<Own, Foreign>>, <<Foreign, Own>>}
            /\ open' = FALSE
  PROVE  IInv'
<1>1. auth # NoTerms /\ \A g \in Hashes : ~Redeemed(g)
  BY DEF IInv, AuthInv, ChainInv
<1>2. receipt \in Receipts /\ receipt.status \in {0, 1}
  <2>1. << >> \in Seq(Transfers)
    OBVIOUS
  <2>2. [status |-> 0, transfers |-> << >>] \in Receipts
    BY <2>1 DEF Receipts
  <2>3. receipt \in Receipts
    BY <2>2
  <2> QED
    BY <2>3 DEF Receipts
<1>3. chain' \in [Hashes -> Receipts \cup {NoReceipt}]
  BY <1>2 DEF IInv, TypeOK, Mine
<1>4. \A g \in Hashes : chain'[g] = IF g = h THEN receipt ELSE chain[g]
  BY DEF IInv, TypeOK, Mine
<1>5. open' \in BOOLEAN
  BY DEF IInv, TypeOK
<1>6. TypeOK'
  BY <1>3, <1>5 DEF IInv, TypeOK, PollingTypeOK, pollVars
<1>7. OfferInv' /\ AuthInv' /\ StageInv'
  BY <1>1 DEF IInv, OfferInv, AuthInv, StageInv
<1>8. ChainInv'
  <2>1. ASSUME NEW g \in Hashes, Mined(g)'
        PROVE  /\ auth' # NoTerms
               /\ \/ chain'[g].status = 0
                  \/ /\ chain'[g].status = 1
                     /\ chain'[g].transfers \in {<<Own'>>, <<Own', Foreign'>>, <<Foreign', Own'>>}
    <3>1. Own' = Own /\ Foreign' = Foreign /\ auth' = auth
      BY DEF Own, Foreign
    <3>2. CASE g = h
      <4>1. chain'[g] = receipt
        BY <1>4, <3>2
      <4>2. CASE receipt = [status |-> 0, transfers |-> << >>]
        <5>1. receipt.status = 0
          BY <4>2
        <5> QED
          BY <1>1, <3>1, <4>1, <5>1
      <4>3. CASE /\ receipt.status = 1
                 /\ receipt.transfers \in {<<Own>>, <<Own, Foreign>>, <<Foreign, Own>>}
        BY <1>1, <3>1, <4>1, <4>3
      <4> QED
        BY <4>2, <4>3
    <3>3. CASE g # h
      BY <1>1, <1>4, <2>1, <3>1, <3>3 DEF IInv, ChainInv, Mined
    <3> QED
      BY <3>2, <3>3
  <2>2. ASSUME NEW g \in Hashes, Redeemed(g)'
        PROVE  ~open'
    <3>1. CASE g # h
      BY <1>1, <1>4, <2>2, <3>1 DEF Redeemed, Mined
    <3>2. CASE g = h
      <4>1. receipt.status = 1
        BY <1>4, <2>2, <3>2 DEF Redeemed
      <4>2. receipt # [status |-> 0, transfers |-> << >>]
        BY <4>1
      <4> QED
        BY <4>2
    <3> QED
      BY <3>1, <3>2
  <2> QED
    BY <2>1, <2>2 DEF ChainInv
<1>9. ResultInv'
  <2>1. \A g \in Hashes : Mined(g) => Mined(g)' /\ chain'[g] = chain[g]
    BY <1>4 DEF Mine, Mined
  <2>2. Expected' = Expected
    BY DEF Expected
  <2> QED
    BY <2>1, <2>2 DEF IInv, ResultInv, HashNotLost, MatchesExpected
<1> QED
  BY <1>6, <1>7, <1>8, <1>9 DEF IInv

(* The facilitator and the chain. *)
LEMMA EnvironmentKeeps ==
  ASSUME IInv, EnvironmentStep
  PROVE  IInv'
<1>1. ASSUME NEW h \in Hashes, Settle(h) PROVE IInv'
  <2>1. PICK logs \in {<<Own>>, <<Own, Foreign>>, <<Foreign, Own>>} :
          Mine(h, [status |-> 1, transfers |-> logs])
    BY <1>1 DEF Settle
  <2>2. Own \in Transfers /\ Foreign \in Transfers
    BY <1>1, OwnIsTransfer DEF Settle, IInv, AuthInv
  <2>3. logs \in Seq(Transfers)
    <3>1. <<Own>> \in Seq(Transfers)
      BY <2>2
    <3>2. <<Own, Foreign>> \in Seq(Transfers) /\ <<Foreign, Own>> \in Seq(Transfers)
      BY <2>2
    <3> QED
      BY <3>1, <3>2
  <2>4. [status |-> 1, transfers |-> logs] \in Receipts
    BY <2>3 DEF Receipts
  <2> QED
    BY <1>1, <2>1, <2>4, MineStep DEF Settle
<1>2. ASSUME NEW h \in Hashes, Revert(h) PROVE IInv'
  BY <1>2, MineStep DEF Revert
<1>3. CASE Expire
  <2> USE <1>3 DEF Expire
  <2>1. TypeOK'
    BY DEF IInv, TypeOK, PollingTypeOK, pollVars
  <2>2. OfferInv' /\ AuthInv' /\ StageInv'
    BY DEF IInv, OfferInv, AuthInv, StageInv
  <2>3. ChainInv'
    BY DEF IInv, ChainInv, Mined, Redeemed, Own, Foreign
  <2>4. Expected' = Expected
    BY DEF Expected
  <2>5. ResultInv'
    BY <2>4 DEF IInv, ResultInv, HashNotLost, Mined, MatchesExpected
  <2> QED
    BY <2>1, <2>2, <2>3, <2>5 DEF IInv
<1> QED
  BY <1>1, <1>2, <1>3 DEF EnvironmentStep

(* The invariant is inductive. *)
LEMMA NextIInv == IInv /\ [Next]_vars => IInv'
<1> SUFFICES ASSUME IInv, [Next]_vars PROVE IInv'
  OBVIOUS
<1>1. CASE ClientStep
  BY <1>1, ProbeStep, BalanceStep, SignStep, ResponseStep, VerifyStep DEF ClientStep
<1>2. CASE EnvironmentStep
  BY <1>2, EnvironmentKeeps
<1>3. CASE UNCHANGED vars
  <2>1. TypeOK'
    BY <1>3 DEF vars, IInv, TypeOK, PollingTypeOK, envVars, pollVars
  <2>2. OfferInv' /\ AuthInv' /\ StageInv'
    BY <1>3 DEF vars, envVars, IInv, OfferInv, AuthInv, StageInv
  <2>3. ChainInv'
    BY <1>3 DEF vars, envVars, IInv, ChainInv, Mined, Redeemed, Own, Foreign
  <2>4. Expected' = Expected
    BY <1>3 DEF vars, Expected
  <2>5. ResultInv'
    BY <1>3, <2>4 DEF vars, envVars, IInv, ResultInv, HashNotLost, Mined, MatchesExpected
  <2> QED
    BY <2>1, <2>2, <2>3, <2>5 DEF IInv
<1> QED
  BY <1>1, <1>2, <1>3 DEF Next

(* Every reachable state of pay() and its environment satisfies it. *)
THEOREM Invariance == Spec => []IInv
BY InitIInv, NextIInv, PTL DEF Spec

-----------------------------------------------------------------------------
(* What follows from it                                                    *)

(* Every variable of a call of pay() stays in its type, the receipt        *)
(* loop's counters included: its indices never run over the endpoints and  *)
(* the retry budget.                                                       *)
THEOREM TypeCorrect == Spec => []TypeOK
<1>1. IInv => TypeOK
  BY DEF IInv
<1> QED
  BY <1>1, Invariance, PTL

(* An error of the pre-flight kind: nothing signed, nothing on chain, now  *)
(* and for ever, whatever the facilitator does.                            *)
THEOREM RefusalsAreClean == Spec => []RefusalIsClean
<1>1. IInv => RefusalIsClean
  BY DEF IInv, ResultInv, AuthInv, ChainInv, Mined, RefusalIsClean
<1> QED
  BY <1>1, Invariance, PTL

(* No transaction takes more from the payer than the quote, and no quote   *)
(* exceeds the cap, at every price the seller may switch to.               *)
THEOREM DrawsAreWithinQuote == Spec => []DrawnWithinQuote
<1>1. IInv => DrawnWithinQuote
  <2> SUFFICES ASSUME IInv, NEW h \in Hashes, Redeemed(h), NEW t \in TransfersOf(h)
               PROVE  t.amount <= offer.amount /\ offer.amount <= MaxAmount
    BY DEF DrawnWithinQuote
  <2>1. /\ auth # NoTerms
        /\ chain[h].transfers \in {<<Own>>, <<Own, Foreign>>, <<Foreign, Own>>}
    BY DEF IInv, ChainInv, Redeemed
  <2>2. t = Own \/ t = Foreign
    BY <2>1 DEF TransfersOf
  <2>3. t.amount = auth.amount
    BY <2>2 DEF Own, Foreign
  <2> QED
    BY <2>1, <2>3 DEF IInv, AuthInv, OfferInv
<1> QED
  BY <1>1, Invariance, PTL

(* "Paid" is backed by a successful transaction on an allowed chain that   *)
(* carries the quoted transfer.                                            *)
THEOREM PaidIsBacked == Spec => []PaidIsOnChain
<1>1. IInv => PaidIsOnChain
  <2> SUFFICES ASSUME IInv, result.kind = "Paid"
               PROVE  /\ resp.status = 200
                      /\ auth.chain = offer.chain /\ offer.chain \in NetworkAllowlist
                      /\ Redeemed(result.hash)
                      /\ Expected \in TransfersOf(result.hash)
    BY DEF PaidIsOnChain
  <2> DEFINE receipt == chain[result.hash]
  <2>1. /\ resp.status = 200 /\ auth.chain = offer.chain /\ offer # NoTerms
        /\ result.hash \in Hashes /\ Mined(result.hash)
        /\ MatchesExpected(receipt, Expected)
    BY DEF IInv, ResultInv
  <2>2. receipt \in Receipts
    BY <2>1 DEF IInv, TypeOK, Mined
  <2>3. receipt.transfers \in Seq(Transfers) /\ receipt.transfers # << >>
    BY <2>1, <2>2 DEF Receipts, MatchesExpected
  <2>4. 1 \in DOMAIN receipt.transfers /\ receipt.transfers[1] = Expected
    BY <2>1, <2>3 DEF MatchesExpected
  <2>5. Redeemed(result.hash)
    BY <2>1 DEF Redeemed, MatchesExpected
  <2> QED
    BY <2>1, <2>4, <2>5 DEF IInv, OfferInv, TransfersOf
<1> QED
  BY <1>1, Invariance, PTL

(* A reported hash is in what the caller gets, however the call ends. *)
THEOREM HashesAreKept == Spec => []HashNotLost
<1>1. IInv => HashNotLost
  BY DEF IInv, ResultInv
<1> QED
  BY <1>1, Invariance, PTL

(* A mismatch always has a cause other than a payment made as agreed. *)
THEOREM MismatchesHaveCauses == Spec => []MismatchHasCause
<1>1. IInv => MismatchHasCause
  <2> SUFFICES ASSUME IInv, result.kind = "SettlementMismatch", Redeemed(result.hash),
                      Head(chain[result.hash].transfers).from = Payer, auth = offer
               PROVE  FALSE
    BY DEF MismatchHasCause, IInv, ResultInv
  <2> DEFINE logs == chain[result.hash].transfers
  <2>1. /\ result.hash \in Hashes
        /\ ~MatchesExpected(chain[result.hash], Expected)
        /\ logs \in {<<Own>>, <<Own, Foreign>>, <<Foreign, Own>>}
    BY DEF IInv, ResultInv, ChainInv, Redeemed
  <2>2. logs # << >> /\ Head(logs) \in {Own, Foreign}
    BY <2>1
  <2>3. Head(logs) = Expected
    BY <2>2 DEF Own, Foreign, Expected
  <2> QED
    BY <2>1, <2>2, <2>3 DEF MatchesExpected, Redeemed
<1> QED
  BY <1>1, Invariance, PTL

-----------------------------------------------------------------------------
(* The refinement of PaymentPromise                                        *)

(* The abstract initial state. *)
LEMMA PromiseInit == Init => Promise!Init
BY DEF Init, Promise!Init, AmountsOf, Moved, Told

(* The end of the call is one of the three reports. *)
LEMMA EndingRefines ==
  ASSUME IInv, IInv', result.kind = "pending",
         NEW kind \in {"Paid"} \cup Refusals \cup Unresolved, NEW hash,
         Finish(kind, hash), UNCHANGED <<offer, auth, envVars>>
  PROVE  Promise!Next
<1>1. result'.kind = kind
  BY DEF Finish
<1>2. /\ AmountsOf(offer)' = AmountsOf(offer) /\ AmountsOf(auth)' = AmountsOf(auth)
      /\ Moved' = Moved
  BY DEF AmountsOf, Moved, Redeemed, Mined, envVars
<1>3. Told = "pending"
  BY DEF Told
<1>4. CASE kind \in Refusals
  <2>1. Told' = "refused"
    BY <1>1, <1>4 DEF Told, Refusals
  <2>2. AmountsOf(auth) = {}
    BY <1>1, <1>4 DEF IInv, ResultInv, AmountsOf
  <2> QED
    BY <1>2, <1>3, <2>1, <2>2 DEF Promise!Next, Promise!Refuse
<1>5. CASE kind = "Paid"
  <2>1. Told' = "paid"
    BY <1>1, <1>5 DEF Told
  <2> DEFINE receipt == chain[result'.hash]
  <2>2. /\ offer # NoTerms /\ result'.hash \in Hashes /\ Mined(result'.hash)
        /\ MatchesExpected(receipt, Expected)
    BY <1>1, <1>5 DEF IInv, ResultInv, MatchesExpected, Mined, Expected, envVars
  <2>3. /\ auth # NoTerms /\ receipt.status = 1
        /\ receipt.transfers \in {<<Own>>, <<Own, Foreign>>, <<Foreign, Own>>}
    BY <2>2 DEF IInv, ChainInv, MatchesExpected
  <2>4. Head(receipt.transfers) \in {Own, Foreign}
    BY <2>3
  <2>5. Head(receipt.transfers).amount = auth.amount
    BY <2>4 DEF Own, Foreign
  <2>6. auth.amount = offer.amount
    BY <2>2, <2>5 DEF MatchesExpected, Expected
  <2>7. Moved = AmountsOf(offer) /\ AmountsOf(offer) # {}
    BY <2>2, <2>3, <2>6 DEF Moved, AmountsOf, Redeemed
  <2> QED
    BY <1>2, <1>3, <2>1, <2>7 DEF Promise!Next, Promise!Confirm
<1>6. CASE kind \in Unresolved
  <2>1. Told' = "unresolved"
    BY <1>1, <1>6 DEF Told, Unresolved, Refusals
  <2> QED
    BY <1>2, <1>3, <2>1 DEF Promise!Next, Promise!GiveUp
<1> QED
  BY <1>4, <1>5, <1>6

(* A step that changes nothing the caller can count. *)
LEMMA QuietStep ==
  ASSUME UNCHANGED <<offer, auth, chain, result>>
  PROVE  UNCHANGED Promise!vars
BY DEF Promise!vars, AmountsOf, Moved, Told, Redeemed, Mined

(* The client's steps. *)
LEMMA ClientRefines ==
  ASSUME IInv, IInv', ClientStep
  PROVE  Promise!Next \/ UNCHANGED Promise!vars
<1>1. result.kind = "pending"
  BY DEF IInv, StageInv, ClientStep, ProbeFails, ProbeRefused, ProbeAccepted,
         BalanceUnavailable, BalanceRead, UnpaidRequestFails, UnpaidResponse,
         RequoteRefused, Sign, PaidRequestFails, PaidResponse, NoUsableHeader,
         SettlementDenied, SettlementClaimed, ReceiptPending, ReceiptGivenUp, ReceiptRead
<1>2. CASE \E menu \in Menus : ProbeAccepted(menu)
  <2>1. /\ offer' \in Terms /\ offer' # NoTerms /\ offer'.amount <= MaxAmount
        /\ UNCHANGED <<auth, envVars, result>>
    BY <1>2, PayAssumption DEF ProbeAccepted
  <2>2. offer'.amount \in 0..MaxAmount
    BY <2>1, PayAssumption DEF Terms
  <2>3. offer = NoTerms
    BY <1>2 DEF ProbeAccepted, IInv, StageInv
  <2>4. AmountsOf(offer) = {} /\ AmountsOf(offer)' = {offer'.amount}
    BY <2>1, <2>3 DEF AmountsOf
  <2>5. AmountsOf(auth)' = AmountsOf(auth) /\ Moved' = Moved /\ Told' = Told
    BY <2>1 DEF AmountsOf, Moved, Told, Redeemed, Mined, envVars
  <2>6. Told = "pending"
    BY <1>1 DEF Told
  <2>7. Promise!Agree(offer'.amount)
    BY <2>1, <2>4, <2>5, <2>6 DEF Promise!Agree
  <2> QED
    BY <2>2, <2>7 DEF Promise!Next
<1>3. ASSUME NEW terms \in Requotes, Sign(terms)
      PROVE  Promise!Next
  <2>1. /\ terms \in Terms /\ terms # NoTerms /\ auth' = terms
        /\ terms.amount <= offer.amount /\ UNCHANGED <<offer, chain, result>>
    BY <1>3, PayAssumption DEF Sign, SpendControl
  <2>2. auth = NoTerms /\ offer # NoTerms
    BY <1>3 DEF Sign, IInv, StageInv
  <2>3. terms.amount \in 0..MaxAmount
    BY <2>1, <2>2, PayAssumption DEF IInv, TypeOK, OfferInv, Terms
  <2>4. \A h \in Hashes : ~Redeemed(h) /\ ~Redeemed(h)'
    BY <2>1, <2>2 DEF IInv, ChainInv, Redeemed, Mined
  <2>5. /\ AmountsOf(auth) = {} /\ AmountsOf(auth)' = {terms.amount}
        /\ AmountsOf(offer) = {offer.amount} /\ AmountsOf(offer)' = AmountsOf(offer)
    BY <2>1, <2>2 DEF AmountsOf
  <2>6. Moved' = Moved
    BY <2>4 DEF Moved
  <2>7. Told = "pending" /\ Told' = Told
    BY <1>1, <2>1 DEF Told
  <2>8. Promise!Authorize(terms.amount)
    BY <2>1, <2>5, <2>6, <2>7 DEF Promise!Authorize
  <2> QED
    BY <2>3, <2>8 DEF Promise!Next
<1>4. CASE UNCHANGED <<offer, auth, envVars, result>>
  BY <1>4, QuietStep DEF envVars
<1>5. CASE \E kind \in {"Paid"} \cup Refusals \cup Unresolved, hash \in Hashes \cup {NoHash} :
             Finish(kind, hash) /\ UNCHANGED <<offer, auth, envVars>>
  BY <1>1, <1>5, EndingRefines
<1> QED
  <2>1. CASE ProbeFails \/ \E menu \in Menus : ProbeRefused(menu) \/ ProbeAccepted(menu)
    BY <1>2, <1>5, <2>1 DEF ProbeFails, ProbeRefused, Raise, Refusals, Unresolved
  <2>2. CASE BalanceUnavailable \/ \E balance \in Balances : BalanceRead(balance)
    BY <1>4, <1>5, <2>2 DEF BalanceUnavailable, BalanceRead, Raise, Refusals
  <2>3. CASE \/ UnpaidRequestFails
             \/ \E r \in Responses : UnpaidResponse(r)
             \/ \E terms \in Requotes : RequoteRefused(terms) \/ Sign(terms)
    BY <1>3, <1>4, <1>5, <2>3
       DEF UnpaidRequestFails, UnpaidResponse, RequoteRefused, Raise, Refusals, Unresolved
  <2>4. CASE \/ PaidRequestFails
             \/ \E r \in Responses : PaidResponse(r)
             \/ NoUsableHeader \/ SettlementClaimed
    BY <1>4, <1>5, <2>4
       DEF PaidRequestFails, PaidResponse, NoUsableHeader, SettlementClaimed, Raise, Unresolved
  <2>5. CASE SettlementDenied
    <3>1. resp.settle.tx \in Hashes \cup {NoHash}
      BY <2>5 DEF SettlementDenied, IInv, TypeOK, Responses, Settles
    <3> QED
      BY <1>5, <2>5, <3>1 DEF SettlementDenied, Unresolved
  <2>6. CASE ReceiptPending \/ ReceiptGivenUp \/ ReceiptRead
    <3>1. resp.settle.tx \in Hashes
      BY <2>6 DEF ReceiptPending, ReceiptGivenUp, ReceiptRead, IInv, StageInv
    <3> QED
      BY <1>4, <1>5, <2>6, <3>1 DEF ReceiptPending, ReceiptGivenUp, ReceiptRead, Unresolved
  <2> QED
    BY <2>1, <2>2, <2>3, <2>4, <2>5, <2>6 DEF ClientStep

(* The steps of the facilitator and the chain: one of them moves money. *)
LEMMA EnvironmentRefines ==
  ASSUME IInv, IInv', EnvironmentStep
  PROVE  Promise!Next \/ UNCHANGED Promise!vars
<1>1. UNCHANGED <<offer, auth, result>> /\ open /\ auth # NoTerms
  BY DEF EnvironmentStep, Settle, Revert, Expire, IInv, AuthInv
<1>2. /\ AmountsOf(offer)' = AmountsOf(offer) /\ AmountsOf(auth)' = AmountsOf(auth)
      /\ Told' = Told
  BY <1>1 DEF AmountsOf, Told
<1>3. AmountsOf(auth) # {}
  BY <1>1 DEF AmountsOf
<1>4. Moved = {}
  BY <1>1 DEF IInv, ChainInv, Moved
<1>5. CASE \E h \in Hashes : Redeemed(h)'
  <2>1. Moved' = AmountsOf(auth)
    BY <1>2, <1>5 DEF Moved
  <2> QED
    BY <1>2, <1>3, <1>4, <2>1 DEF Promise!Next, Promise!Redeem
<1>6. CASE ~ \E h \in Hashes : Redeemed(h)'
  <2>1. Moved' = {}
    BY <1>6 DEF Moved
  <2> QED
    BY <1>2, <1>4, <2>1 DEF Promise!vars
<1> QED
  BY <1>5, <1>6

(* pay(), with the seller, the facilitator and the chain around it,        *)
(* implements PaymentPromise: the refinement that LiveRun builds on.       *)
THEOREM PromiseIsKept == Spec => KeepsPromise
<1>1. IInv /\ IInv' /\ [Next]_vars => [Promise!Next]_(Promise!vars)
  <2> SUFFICES ASSUME IInv, IInv', [Next]_vars
               PROVE  Promise!Next \/ UNCHANGED Promise!vars
    OBVIOUS
  <2>1. CASE UNCHANGED vars
    BY <2>1, QuietStep DEF vars, envVars
  <2> QED
    BY <2>1, ClientRefines, EnvironmentRefines DEF Next
<1> QED
  BY <1>1, PromiseInit, Invariance, PTL DEF Spec, KeepsPromise, Promise!Spec
=============================================================================
