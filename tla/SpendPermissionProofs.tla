------------------------ MODULE SpendPermissionProofs ------------------------
(***************************************************************************)
(* Proofs about SpendPermission, for any number of calls, any amounts,     *)
(* allowance, funds, periods and window.                                   *)
(***************************************************************************)
EXTENDS SpendPermission, TLAPS

(* What is known of a call where it is: of its transaction and its result. *)
StageInv(c) ==
  /\ step[c] = "done" <=> result[c] # "none"
  /\ step[c] \in {"idle", "check", "nonce", "send"} => tx[c] = "none"
  /\ step[c] \in {"readApproved", "readRevoked"} => op[c] = "register" /\ tx[c] = "mined"
  /\ step[c] = "readRevoked" => approved

(* What a transaction has done to the chain. *)
EffectInv(c) ==
  /\ tx[c] # "mined" => debit[c] = 0
  /\ op[c] \notin Spends => debit[c] = 0
  /\ tx[c] = "mined" =>
       /\ op[c] \in Spends => debit[c] = Atomic(c) /\ debit[c] > 0
       /\ op[c] = "revoke" => revoked
       /\ op[c] = "provision" => deployed

(* What a result says about the transaction behind it. *)
ResultInv(c) ==
  /\ result[c] = "ok" =>
       /\ tx[c] = "mined" \/ (op[c] = "provision" /\ deployed)
       /\ op[c] = "register" => approved
  /\ result[c] \in Failures =>
       \/ tx[c] \in {"none", "reverted"}
       \/ tx[c] = "mined" /\ op[c] = "register"

CallInv == \A c \in Calls : StageInv(c) /\ EffectInv(c) /\ ResultInv(c)

(* The steps before the nonce is read. *)
Early == {"idle", "check", "nonce"}

(* A nonce that was read is never ahead of the chain; an executed one is   *)
(* behind it, and used once; and a call that was under way when another    *)
(* read its nonce can only be executed with that same nonce.  This is what *)
(* makes the two exclude each other.                                       *)
NonceInv ==
  /\ \A c \in Calls : nonce[c] <= mined[sender[c]]
  /\ \A c \in Calls : step[c] \in Early => nonce[c] = 0 /\ racing[c] = {}
  /\ \A c \in Calls : HasReceipt(c) => nonce[c] < mined[sender[c]]
  /\ \A c, d \in Calls :
       HasReceipt(c) /\ HasReceipt(d) /\ sender[c] = sender[d] /\ nonce[c] = nonce[d] => c = d
  /\ \A c \in Calls : \A d \in racing[c] :
       /\ d # c /\ step[d] \notin Early /\ sender[d] = sender[c]
       /\ nonce[d] <= nonce[c]
       /\ HasReceipt(d) => nonce[d] = nonce[c]

IInv == TypeOK /\ CallInv /\ NonceInv

-----------------------------------------------------------------------------
(* Lemmas about the operators *)

(* An amount asked for is a number. *)
LEMMA ValuesAreNat ==
  ASSUME NEW amount \in Values \cup {0}
  PROVE  amount \in Nat
BY SpendAssumption

(* int() of an amount is a number of atomic units. *)
LEMMA AtomicIsNat ==
  ASSUME TypeOK, NEW c \in Calls
  PROVE  Atomic(c) \in Nat
<1>1. value[c] \in Values \cup {0}
  BY DEF TypeOK
<1>2. value[c] \in Nat
  BY <1>1, ValuesAreNat
<1>3. Fraction \in Nat /\ Fraction > 0
  BY SpendAssumption
<1>4. value[c] \div Fraction \in Nat
  BY <1>2, <1>3
<1> QED
  BY <1>4 DEF Atomic

(* The chain counts in atomic units. *)
LEMMA ChainIsNat ==
  ASSUME TypeOK
  PROVE  /\ used \in Nat /\ funds \in Nat /\ Allowance \in Nat /\ Funds \in Nat
         /\ used <= Allowance /\ funds <= Funds
BY SpendAssumption DEF TypeOK

(* What a dry run that passes says. *)
LEMMA DryRunPasses ==
  ASSUME TypeOK, NEW c \in Calls, DryRun(c) = "none"
  PROVE  Atomic(c) # 0 /\ used + Atomic(c) <= Allowance /\ Atomic(c) <= funds
<1>1. Atomic(c) # 0 /\ ~(used + Atomic(c) > Allowance) /\ ~(Atomic(c) > funds)
  BY DEF DryRun, SpendRevert
<1> QED
  BY <1>1, AtomicIsNat, ChainIsNat

(* A transaction that is mined pays what was asked for, and the allowance  *)
(* and the funds cover it.                                                 *)
LEMMA SpendIsCovered ==
  ASSUME TypeOK, NEW c \in Calls, MineSpend(c)
  PROVE  /\ Atomic(c) \in 1..Allowance /\ Atomic(c) <= funds
         /\ used' \in 0..Allowance /\ funds' \in 0..Funds
         /\ debit' = [debit EXCEPT ![c] = Atomic(c)]
         /\ approved' \in BOOLEAN /\ (approved => approved')
<1>1. /\ Atomic(c) \in Nat /\ used \in Nat /\ funds \in Nat
      /\ Allowance \in Nat /\ Funds \in Nat /\ used <= Allowance /\ funds <= Funds
  BY AtomicIsNat, ChainIsNat
<1>2. Atomic(c) # 0 /\ used + Atomic(c) <= Allowance /\ Atomic(c) <= funds
  <2>1. CASE DryRun(c) = "none"
    BY <1>1, <2>1, DryRunPasses
  <2>2. CASE Atomic(c) \in 1..(Allowance - used) /\ Atomic(c) <= funds
    BY <1>1, <2>2
  <2> QED
    BY <2>1, <2>2 DEF MineSpend
<1>3. used' = used + Atomic(c) /\ funds' = funds - Atomic(c)
      /\ debit' = [debit EXCEPT ![c] = Atomic(c)]
  BY DEF MineSpend
<1>4. approved' = approved \/ approved' = TRUE
  BY DEF MineSpend
<1>5. approved \in BOOLEAN
  BY DEF TypeOK
<1>6. approved' \in BOOLEAN
  BY <1>4, <1>5
<1>7. approved => approved'
  BY <1>4
<1> QED
  BY <1>1, <1>2, <1>3, <1>6, <1>7

(* The exception made of a revert of the dry run is a failure. *)
LEMMA TranslatedIsFailure ==
  ASSUME NEW why
  PROVE  Translated(why) \in Failures
BY DEF Translated, Failures

-----------------------------------------------------------------------------
(* The initial states satisfy the invariant. *)
LEMMA InitIInv == Init => IInv
<1> SUFFICES ASSUME Init PROVE IInv
  OBVIOUS
<1>1. TypeOK
  BY SpendAssumption DEF Init, TypeOK, Wallets, Ops, Steps
<1>2. CallInv
  BY DEF Init, CallInv, StageInv, EffectInv, ResultInv, Spends, Failures
<1>3. NonceInv
  BY DEF Init, NonceInv, HasReceipt, Wallets
<1> QED
  BY <1>1, <1>2, <1>3 DEF IInv

(* A call that begins has broadcast nothing. *)
LEMMA StartsKeep ==
  ASSUME IInv, NEW c \in Calls, NEW operation \in Ops, NEW amount \in Values \cup {0},
         Starts(c, operation, amount)
  PROVE  IInv'
<1>1. PICK network \in {Sepolia, Mainnet} :
        \/ ChainRefused(c, operation, amount, network)
        \/ NoRpcReachable(c, operation, amount, network)
        \/ Start(c, operation, amount, network)
  BY DEF Starts
<1>2. Begin(c, operation, amount)
  BY <1>1 DEF ChainRefused, NoRpcReachable, Start
<1>3. /\ tx' = tx
      /\ \/ \E kind \in {"PaymentError", "ConnectionError"} : Finish(c, kind)
         \/ (Goto(c, "check") /\ result' = result)
  BY <1>1, SpendAssumption DEF ChainRefused, NoRpcReachable, Start, ChainAllowed
<1>4. PICK w \in Wallets : sender' = [sender EXCEPT ![c] = w]
  BY <1>2 DEF Begin, Wallets
<1>5. /\ step[c] = "idle" /\ tx[c] = "none" /\ result[c] = "none" /\ debit[c] = 0
      /\ op' = [op EXCEPT ![c] = operation] /\ value' = [value EXCEPT ![c] = amount]
      /\ UNCHANGED <<chainVars, nonce, racing, polls, debit>>
  BY <1>2 DEF Begin, IInv, CallInv, StageInv, EffectInv
<1>6. TypeOK'
  BY <1>3, <1>4, <1>5 DEF IInv, TypeOK, chainVars, Goto, Finish, Failures, Steps
<1>7. CallInv'
  <2> SUFFICES ASSUME NEW d \in Calls
               PROVE  (StageInv(d) /\ EffectInv(d) /\ ResultInv(d))'
    BY DEF CallInv
  <2>1. CASE d = c
    <3>1. tx'[c] = "none" /\ debit'[c] = 0
      BY <1>3, <1>5
    <3>2. \/ step'[c] = "done" /\ result'[c] \in {"PaymentError", "ConnectionError"}
          \/ step'[c] = "check" /\ result'[c] = "none"
      BY <1>3, <1>5 DEF IInv, TypeOK, Goto, Finish
    <3> QED
      BY <2>1, <3>1, <3>2 DEF StageInv, EffectInv, ResultInv
  <2>2. CASE d # c
    BY <1>3, <1>5, <2>2 DEF IInv, TypeOK, CallInv, StageInv, EffectInv, ResultInv, Atomic,
       Goto, Finish, chainVars
  <2> QED
    BY <2>1, <2>2
<1>8. NonceInv'
  <2>1. /\ step[c] \in Early /\ nonce[c] = 0 /\ racing[c] = {} /\ ~HasReceipt(c)
        /\ \A d \in Calls : c \notin racing[d]
    BY <1>5 DEF IInv, NonceInv, Early, HasReceipt
  <2>2. \A d \in Calls : HasReceipt(d)' = HasReceipt(d)
    BY <1>3 DEF HasReceipt
  <2>3. \A d \in Calls \ {c} : sender'[d] = sender[d] /\ step'[d] = step[d]
    BY <1>3, <1>4 DEF IInv, TypeOK, Goto, Finish
  <2>4. /\ nonce' = nonce /\ racing' = racing /\ mined' = mined
        /\ racing \in [Calls -> SUBSET Calls]
    BY <1>5 DEF chainVars, IInv, TypeOK
  <2>5. nonce'[c] <= mined'[sender'[c]]
    BY <1>4, <2>1, <2>4 DEF IInv, TypeOK
  <2>6. /\ \A d \in Calls : nonce'[d] <= mined'[sender'[d]]
        /\ \A d \in Calls : step'[d] \in Early => nonce'[d] = 0 /\ racing'[d] = {}
        /\ \A d \in Calls : HasReceipt(d) => nonce'[d] < mined'[sender'[d]]
    BY <2>1, <2>3, <2>4, <2>5 DEF IInv, NonceInv
  <2>7. \A d, e \in Calls :
          HasReceipt(d) /\ HasReceipt(e) /\ sender'[d] = sender'[e] /\ nonce'[d] = nonce'[e]
            => d = e
    BY <2>1, <2>3, <2>4 DEF IInv, NonceInv
  <2>8. \A d \in Calls : \A e \in racing'[d] :
          /\ e # d /\ step'[e] \notin Early /\ sender'[e] = sender'[d]
          /\ nonce'[e] <= nonce'[d]
          /\ HasReceipt(e) => nonce'[e] = nonce'[d]
    <3> SUFFICES ASSUME NEW d \in Calls, NEW e \in racing[d]
                 PROVE  /\ e # d /\ step'[e] \notin Early /\ sender'[e] = sender'[d]
                        /\ nonce[e] <= nonce[d]
                        /\ HasReceipt(e) => nonce[e] = nonce[d]
      BY <2>4
    <3>1. d # c /\ e # c /\ e \in Calls
      BY <2>1, <2>4
    <3> QED
      BY <2>3, <3>1 DEF IInv, NonceInv
  <2> QED
    BY <2>2, <2>4, <2>6, <2>7, <2>8 DEF NonceInv
<1> QED
  BY <1>6, <1>7, <1>8 DEF IInv

-----------------------------------------------------------------------------
(* The steps that change nothing but where a call is and what it reports *)

(* The nonces are not disturbed by a step that reads none, mines nothing   *)
(* and leads no call back.                                                 *)
LEMMA QuietKeepsNonces ==
  ASSUME IInv, UNCHANGED <<sender, tx, nonce, racing, mined>>,
         \A d \in Calls : step'[d] \in Early => step[d] \in Early
  PROVE  NonceInv'
<1>1. racing \in [Calls -> SUBSET Calls]
  BY DEF IInv, TypeOK
<1>2. \A d \in Calls : HasReceipt(d)' = HasReceipt(d)
  BY DEF HasReceipt
<1> QED
  BY <1>1, <1>2 DEF IInv, NonceInv

(* A call that ends reports what its transaction has done. *)
LEMMA FinishKeeps ==
  ASSUME IInv, NEW c \in Calls, NEW kind \in {"ok"} \cup Ambiguous \cup Failures,
         Finish(c, kind),
         UNCHANGED <<chainVars, askVars, txVars>>, polls' \in [Calls -> 0..Retries],
         kind = "ok" =>
           /\ tx[c] = "mined" \/ (op[c] = "provision" /\ deployed)
           /\ op[c] = "register" => approved,
         kind \in Failures =>
           \/ tx[c] \in {"none", "reverted"}
           \/ tx[c] = "mined" /\ op[c] = "register"
  PROVE  IInv'
<1>1. step' = [step EXCEPT ![c] = "done"] /\ result' = [result EXCEPT ![c] = kind]
  BY DEF Finish, Goto
<1>2. TypeOK'
  BY <1>1 DEF Steps, IInv, TypeOK, chainVars, askVars, txVars
<1>3. step'[c] = "done" /\ result'[c] = kind /\ kind # "none"
  BY <1>1 DEF IInv, TypeOK, Ambiguous, Failures
<1>4. CallInv'
  <2> SUFFICES ASSUME NEW d \in Calls
               PROVE  (StageInv(d) /\ EffectInv(d) /\ ResultInv(d))'
    BY DEF CallInv
  <2>1. EffectInv(d)'
    BY DEF IInv, CallInv, EffectInv, Atomic, chainVars, askVars, txVars
  <2>2. CASE d = c
    BY <1>3, <2>1, <2>2 DEF StageInv, ResultInv, chainVars, askVars, txVars
  <2>3. CASE d # c
    BY <1>1, <2>1, <2>3 DEF IInv, TypeOK, CallInv, StageInv, ResultInv, chainVars, askVars, txVars
  <2> QED
    BY <2>2, <2>3
<1>5. NonceInv'
  BY <1>1, QuietKeepsNonces DEF Early, IInv, TypeOK, chainVars, askVars, txVars
<1> QED
  BY <1>2, <1>4, <1>5 DEF IInv

(* A call that goes on knows what its new place says. *)
LEMMA GotoKeeps ==
  ASSUME IInv, NEW c \in Calls, NEW place \in {"nonce", "readApproved", "readRevoked"},
         step[c] # "done", Goto(c, place), result' = result,
         UNCHANGED <<chainVars, askVars, txVars>>, polls' \in [Calls -> 0..Retries],
         place = "nonce" => step[c] = "check" /\ tx[c] = "none",
         place \in {"readApproved", "readRevoked"} => op[c] = "register" /\ tx[c] = "mined",
         place = "readRevoked" => approved
  PROVE  IInv'
<1>1. step' = [step EXCEPT ![c] = place] /\ step'[c] = place
  BY DEF Goto, IInv, TypeOK
<1>2. TypeOK'
  BY <1>1 DEF Steps, IInv, TypeOK, chainVars, askVars, txVars
<1>3. CallInv'
  <2> SUFFICES ASSUME NEW d \in Calls
               PROVE  (StageInv(d) /\ EffectInv(d) /\ ResultInv(d))'
    BY DEF CallInv
  <2>1. EffectInv(d)' /\ ResultInv(d)'
    BY DEF IInv, CallInv, EffectInv, ResultInv, Atomic, chainVars, askVars, txVars
  <2>2. CASE d = c
    BY <1>1, <2>1, <2>2 DEF IInv, CallInv, StageInv, chainVars, askVars, txVars
  <2>3. CASE d # c
    BY <1>1, <2>1, <2>3 DEF IInv, TypeOK, CallInv, StageInv, chainVars, askVars, txVars
  <2> QED
    BY <2>2, <2>3
<1>4. NonceInv'
  BY <1>1, QuietKeepsNonces DEF Early, IInv, TypeOK, chainVars, askVars, txVars
<1> QED
  BY <1>2, <1>3, <1>4 DEF IInv

(* Up to the broadcast: nothing has been sent. *)
LEMMA BeforeBroadcast ==
  ASSUME IInv, NEW c \in Calls,
         \/ AlreadyProvisioned(c) \/ DryRunReverts(c)
         \/ Proceed(c) \/ BroadcastRefused(c)
  PROVE  IInv'
<1>1. step[c] \in {"check", "send"} /\ tx[c] = "none" /\ polls \in [Calls -> 0..Retries]
  BY DEF AlreadyProvisioned, DryRunReverts, Proceed, BroadcastRefused,
     IInv, TypeOK, CallInv, StageInv
<1>2. CASE AlreadyProvisioned(c)
  BY <1>1, <1>2, FinishKeeps DEF AlreadyProvisioned, Failures
<1>3. CASE DryRunReverts(c)
  <2>1. Translated(DryRun(c)) \in Failures
    BY TranslatedIsFailure
  <2>2. Translated(DryRun(c)) # "ok"
    BY DEF Translated
  <2> QED
    BY <1>1, <1>3, <2>1, <2>2, FinishKeeps DEF DryRunReverts
<1>4. CASE Proceed(c)
  BY <1>1, <1>4, GotoKeeps DEF Proceed
<1>5. CASE BroadcastRefused(c)
  BY <1>1, <1>5, FinishKeeps DEF BroadcastRefused, Failures
<1> QED
  BY <1>2, <1>3, <1>4, <1>5

(* From the broadcast on. *)
LEMMA AfterBroadcast ==
  ASSUME IInv, NEW c \in Calls,
         \/ TransportFails(c) \/ ReceiptTimesOut(c) \/ ReceiptRead(c)
         \/ ReadApproved(c) \/ ReadRevoked(c)
  PROVE  IInv'
<1>0. polls \in [Calls -> 0..Retries] /\ [polls EXCEPT ![c] = 0] \in [Calls -> 0..Retries]
  BY SpendAssumption DEF IInv, TypeOK
<1>1. CASE TransportFails(c)
  BY <1>0, <1>1, FinishKeeps DEF TransportFails, Ambiguous, Failures
<1>2. CASE ReceiptTimesOut(c)
  BY <1>0, <1>2, FinishKeeps DEF ReceiptTimesOut, Ambiguous, Failures
<1>3. CASE ReceiptRead(c)
  <2>1. CASE tx[c] = "reverted"
    <3>1. RevertKind(op[c]) \in Failures /\ RevertKind(op[c]) # "ok"
      BY DEF RevertKind, Failures
    <3> QED
      BY <1>0, <1>3, <2>1, <3>1, FinishKeeps DEF ReceiptRead
  <2>2. CASE tx[c] = "mined" /\ op[c] = "register"
    BY <1>0, <1>3, <2>2, GotoKeeps DEF ReceiptRead
  <2>3. CASE tx[c] = "mined" /\ op[c] # "register"
    BY <1>0, <1>3, <2>3, FinishKeeps DEF ReceiptRead, Failures
  <2> QED
    BY <1>3, <2>1, <2>2, <2>3 DEF ReceiptRead, HasReceipt
<1>4. CASE ReadApproved(c)
  <2>1. op[c] = "register" /\ tx[c] = "mined" /\ step[c] = "readApproved"
    BY <1>4 DEF ReadApproved, IInv, CallInv, StageInv
  <2>2. CASE approved /\ Goto(c, "readRevoked") /\ UNCHANGED result
    BY <1>0, <1>4, <2>1, <2>2, GotoKeeps DEF ReadApproved
  <2>3. CASE Finish(c, "SpendPermissionUnauthorized")
    BY <1>0, <1>4, <2>1, <2>3, FinishKeeps DEF ReadApproved, Failures
  <2> QED
    BY <1>4, <2>2, <2>3 DEF ReadApproved
<1>5. CASE ReadRevoked(c)
  <2>1. op[c] = "register" /\ tx[c] = "mined" /\ approved
    BY <1>5 DEF ReadRevoked, IInv, CallInv, StageInv
  <2> QED
    BY <1>0, <1>5, <2>1, FinishKeeps DEF ReadRevoked, Failures
<1> QED
  BY <1>1, <1>2, <1>3, <1>4, <1>5

-----------------------------------------------------------------------------
(* The broadcast *)

(* A call reads its nonce: what is under way from its wallet has read one  *)
(* that is not greater, and has not been executed.                         *)
LEMMA ReadNonceKeeps ==
  ASSUME IInv, NEW c \in Calls, ReadNonce(c)
  PROVE  IInv'
<1> DEFINE w == sender[c]
           under == UnderWay(w)
<1>1. /\ step[c] = "nonce" /\ step' = [step EXCEPT ![c] = "send"]
      /\ nonce' = [nonce EXCEPT ![c] = mined[w]] /\ racing' = [racing EXCEPT ![c] = under]
      /\ UNCHANGED <<chainVars, askVars, tx, polls, debit, result>>
  BY DEF ReadNonce, NextNonce, Goto
<1>2. /\ w \in Wallets /\ mined[w] \in Nat /\ mined \in [Wallets -> Nat]
      /\ sender \in [Calls -> Wallets] /\ nonce \in [Calls -> Nat]
      /\ racing \in [Calls -> SUBSET Calls] /\ under \subseteq Calls
  BY DEF IInv, TypeOK, UnderWay
<1>3. /\ tx[c] = "none" /\ ~HasReceipt(c) /\ \A d \in Calls : c \notin racing[d]
  BY <1>1 DEF IInv, CallInv, StageInv, NonceInv, Early, HasReceipt
<1>4. \A d \in under : /\ d \in Calls /\ d # c /\ sender[d] = w
                      /\ step[d] \notin Early /\ ~HasReceipt(d) /\ nonce[d] <= mined[w]
  <2> SUFFICES ASSUME NEW d \in under
               PROVE  /\ d \in Calls /\ d # c /\ sender[d] = w
                      /\ step[d] \notin Early /\ ~HasReceipt(d) /\ nonce[d] <= mined[w]
    OBVIOUS
  <2>1. d \in Calls /\ sender[d] = w /\ (step[d] = "send" \/ tx[d] = "pending")
    BY DEF UnderWay
  <2>2. /\ step[d] \in {"idle", "check", "nonce", "send"} => tx[d] = "none"
        /\ nonce[d] <= mined[sender[d]]
    BY <2>1 DEF IInv, CallInv, StageInv, NonceInv
  <2> QED
    BY <1>1, <1>3, <2>1, <2>2 DEF Early, HasReceipt
<1> HIDE DEF under
<1>5. TypeOK'
  BY <1>1, <1>2 DEF IInv, TypeOK, Steps, chainVars, askVars
<1>6. CallInv'
  <2> SUFFICES ASSUME NEW d \in Calls
               PROVE  (StageInv(d) /\ EffectInv(d) /\ ResultInv(d))'
    BY DEF CallInv
  <2>1. EffectInv(d)' /\ ResultInv(d)'
    BY <1>1 DEF IInv, CallInv, EffectInv, ResultInv, Atomic, chainVars, askVars
  <2>2. StageInv(d)'
    BY <1>1, <1>3 DEF IInv, TypeOK, CallInv, StageInv, chainVars, askVars
  <2> QED
    BY <2>1, <2>2
<1>7. NonceInv'
  <2>1. \A d \in Calls : HasReceipt(d)' = HasReceipt(d)
    BY <1>1 DEF HasReceipt
  <2>2. /\ nonce'[c] = mined[w] /\ racing'[c] = under /\ step'[c] = "send"
        /\ \A d \in Calls \ {c} :
             nonce'[d] = nonce[d] /\ racing'[d] = racing[d] /\ step'[d] = step[d]
    BY <1>1, <1>2 DEF IInv, TypeOK
  <2>3. sender' = sender /\ mined' = mined
    BY <1>1 DEF chainVars, askVars
  <2>4. /\ \A d \in Calls : nonce'[d] <= mined[sender[d]]
        /\ \A d \in Calls : step'[d] \in Early => nonce'[d] = 0 /\ racing'[d] = {}
        /\ \A d \in Calls : HasReceipt(d) => nonce'[d] < mined[sender[d]]
        /\ \A d, e \in Calls :
             HasReceipt(d) /\ HasReceipt(e) /\ sender[d] = sender[e] /\ nonce'[d] = nonce'[e]
               => d = e
    BY <1>2, <1>3, <2>2 DEF IInv, NonceInv, Early
  <2>5. \A d \in Calls : \A e \in racing'[d] :
          /\ e # d /\ step'[e] \notin Early /\ sender[e] = sender[d]
          /\ nonce'[e] <= nonce'[d]
          /\ HasReceipt(e) => nonce'[e] = nonce'[d]
    <3> SUFFICES ASSUME NEW d \in Calls, NEW e \in racing'[d]
                 PROVE  /\ e # d /\ step'[e] \notin Early /\ sender[e] = sender[d]
                        /\ nonce'[e] <= nonce'[d]
                        /\ HasReceipt(e) => nonce'[e] = nonce'[d]
      OBVIOUS
    <3>1. CASE d = c
      BY <1>4, <2>2, <3>1
    <3>2. CASE d # c
      <4>1. e \in racing[d] /\ e \in Calls /\ e # c
        BY <1>2, <1>3, <2>2, <3>2
      <4> QED
        BY <2>2, <3>2, <4>1 DEF IInv, NonceInv
    <3> QED
      BY <3>1, <3>2
  <2>6. racing' \in [Calls -> SUBSET Calls]
    BY <1>5 DEF TypeOK
  <2> QED
    BY <2>1, <2>3, <2>4, <2>5, <2>6 DEF NonceInv
<1> QED
  BY <1>5, <1>6, <1>7 DEF IInv

(* A transaction that enters the mempool has done nothing yet. *)
LEMMA BroadcastKeeps ==
  ASSUME IInv, NEW c \in Calls, Broadcast(c) \/ BroadcastLost(c)
  PROVE  IInv'
<1>1. /\ step[c] = "send" /\ tx[c] = "none" /\ tx' = [tx EXCEPT ![c] = "pending"]
      /\ UNCHANGED <<chainVars, askVars, nonce, racing, polls, debit>>
      /\ \/ step' = [step EXCEPT ![c] = "wait"] /\ result' = result
         \/ /\ step' = [step EXCEPT ![c] = "done"]
            /\ result' = [result EXCEPT ![c] = "TransportError"]
  BY DEF Broadcast, BroadcastLost, Enter, Goto, Finish, IInv, CallInv, StageInv
<1>2. /\ tx'[c] = "pending" /\ \A d \in Calls \ {c} : tx'[d] = tx[d] /\ step'[d] = step[d]
      /\ step'[c] \in {"wait", "done"}
  BY <1>1 DEF IInv, TypeOK
<1>3. TypeOK'
  BY <1>1 DEF IInv, TypeOK, Steps, chainVars, askVars, Ambiguous
<1>4. NonceInv'
  <2>1. \A d \in Calls : HasReceipt(d)' = HasReceipt(d)
    BY <1>1, <1>2 DEF HasReceipt
  <2>2. \A d \in Calls : step'[d] \in Early => step[d] \in Early
    BY <1>2 DEF Early
  <2>3. racing \in [Calls -> SUBSET Calls]
    BY DEF IInv, TypeOK
  <2> QED
    BY <1>1, <2>1, <2>2, <2>3 DEF IInv, NonceInv, chainVars, askVars
<1>5. CallInv'
  <2> SUFFICES ASSUME NEW d \in Calls
               PROVE  (StageInv(d) /\ EffectInv(d) /\ ResultInv(d))'
    BY DEF CallInv
  <2>1. CASE d = c
    <3>1. /\ tx'[d] = "pending" /\ debit'[d] = 0 /\ result[d] = "none"
          /\ \/ step'[d] = "wait" /\ result'[d] = "none"
             \/ step'[d] = "done" /\ result'[d] = "TransportError"
      BY <1>1, <1>2, <2>1 DEF IInv, TypeOK, CallInv, StageInv, EffectInv
    <3> QED
      BY <3>1 DEF StageInv, EffectInv, ResultInv, Failures
  <2>2. CASE d # c
    BY <1>1, <1>2, <2>2 DEF IInv, TypeOK, CallInv, StageInv, EffectInv, ResultInv, Atomic,
       chainVars, askVars
  <2> QED
    BY <2>1, <2>2
<1> QED
  BY <1>3, <1>4, <1>5 DEF IInv

(* A poll that finds no receipt is only counted. *)
LEMMA ReceiptMissingKeeps ==
  ASSUME IInv, NEW c \in Calls, ReceiptMissing(c)
  PROVE  IInv'
<1>1. /\ UNCHANGED <<chainVars, step, askVars, txVars, result>>
      /\ polls[c] < Retries /\ polls' = [polls EXCEPT ![c] = @ + 1]
  BY DEF ReceiptMissing
<1>2. polls' \in [Calls -> 0..Retries]
  BY <1>1, SpendAssumption DEF IInv, TypeOK
<1>3. TypeOK'
  BY <1>1, <1>2 DEF IInv, TypeOK, chainVars, askVars, txVars
<1>4. CallInv'
  BY <1>1 DEF IInv, CallInv, StageInv, EffectInv, ResultInv, Atomic, chainVars, askVars, txVars
<1>5. NonceInv'
  BY <1>1, QuietKeepsNonces DEF chainVars, askVars, txVars
<1> QED
  BY <1>3, <1>4, <1>5 DEF IInv

-----------------------------------------------------------------------------
(* The chain *)

(* A transaction that is executed had the one nonce that was next: a call  *)
(* that read its nonce while this one was under way read the same, and no  *)
(* executed one had it.                                                    *)
LEMMA MinedKeepsNonces ==
  ASSUME IInv, NEW c \in Calls, NEW how \in {"mined", "reverted"}, Mined(c, how)
  PROVE  /\ NonceInv'
         /\ mined' \in [Wallets -> Nat]
         /\ tx[c] = "pending" /\ tx' = [tx EXCEPT ![c] = how]
         /\ UNCHANGED <<period, step, askVars, nonce, racing, polls, result>>
<1>1. /\ tx[c] = "pending" /\ tx' = [tx EXCEPT ![c] = how]
      /\ nonce[c] = mined[sender[c]]
      /\ mined' = [mined EXCEPT ![sender[c]] = @ + 1]
      /\ UNCHANGED <<period, step, askVars, nonce, racing, polls, result>>
  BY DEF Mined
<1>2. /\ mined \in [Wallets -> Nat] /\ sender \in [Calls -> Wallets]
      /\ nonce \in [Calls -> Nat] /\ racing \in [Calls -> SUBSET Calls]
  BY DEF IInv, TypeOK
<1>3. mined' \in [Wallets -> Nat]
  BY <1>1, <1>2
<1>4. /\ \A w \in Wallets : mined[w] <= mined'[w]
      /\ nonce[c] < mined'[sender[c]]
  BY <1>1, <1>2
<1>5. /\ HasReceipt(c)'
      /\ \A d \in Calls \ {c} : HasReceipt(d)' = HasReceipt(d)
  BY <1>1 DEF HasReceipt, IInv, TypeOK
<1>6. sender' = sender /\ nonce' = nonce /\ racing' = racing /\ step' = step
  BY <1>1 DEF askVars
<1>7. \A d \in Calls : nonce[d] <= mined'[sender[d]]
  BY <1>2, <1>3, <1>4 DEF IInv, NonceInv
<1>8. \A d \in Calls : HasReceipt(d)' => nonce[d] < mined'[sender[d]]
  <2> SUFFICES ASSUME NEW d \in Calls, HasReceipt(d)'
               PROVE  nonce[d] < mined'[sender[d]]
    OBVIOUS
  <2>1. CASE d = c
    BY <1>4, <2>1
  <2>2. CASE d # c
    <3>1. nonce[d] < mined[sender[d]]
      BY <1>5, <2>2 DEF IInv, NonceInv
    <3> QED
      BY <1>2, <1>3, <1>4, <3>1
  <2> QED
    BY <2>1, <2>2
<1>9. \A d \in Calls \ {c} :
        HasReceipt(d) /\ sender[d] = sender[c] => nonce[d] # nonce[c]
  BY <1>1, <1>2 DEF IInv, NonceInv
<1>10. \A d, e \in Calls :
         HasReceipt(d)' /\ HasReceipt(e)' /\ sender[d] = sender[e] /\ nonce[d] = nonce[e] => d = e
  BY <1>5, <1>9 DEF IInv, NonceInv
<1>11. \A d \in Calls : c \in racing[d] => nonce[c] = nonce[d]
  <2> SUFFICES ASSUME NEW d \in Calls, c \in racing[d]
               PROVE  nonce[c] = nonce[d]
    OBVIOUS
  <2>1. /\ sender[c] = sender[d] /\ nonce[c] <= nonce[d] /\ nonce[d] <= mined[sender[d]]
    BY DEF IInv, NonceInv
  <2> QED
    BY <1>1, <1>2, <2>1
<1>12. \A d \in Calls : \A e \in racing[d] : HasReceipt(e)' => nonce[e] = nonce[d]
  BY <1>2, <1>5, <1>11 DEF IInv, NonceInv
<1>13. NonceInv'
  <2>1. \A d \in Calls : step[d] \in Early => nonce[d] = 0 /\ racing[d] = {}
    BY DEF IInv, NonceInv
  <2>2. \A d \in Calls : \A e \in racing[d] :
          e # d /\ step[e] \notin Early /\ sender[e] = sender[d] /\ nonce[e] <= nonce[d]
    BY DEF IInv, NonceInv
  <2> QED
    BY <1>6, <1>7, <1>8, <1>10, <1>12, <2>1, <2>2 DEF NonceInv
<1> QED
  BY <1>1, <1>3, <1>13

(* What is mined is paid for, registered, revoked or deployed; nothing     *)
(* undoes what an earlier transaction has done.                            *)
LEMMA MineKeeps ==
  ASSUME IInv, NEW c \in Calls, Mine(c) \/ MineReverted(c)
  PROVE  IInv'
<1>1. PICK how \in {"mined", "reverted"} :
        /\ Mined(c, how)
        /\ how = "mined" => MineProvision(c) \/ MineRegister(c) \/ MineRevoke(c) \/ MineSpend(c)
        /\ how = "reverted" => UNCHANGED <<deployed, approved, revoked, used, funds, debit>>
  BY DEF Mine, MineReverted
<1>2. /\ NonceInv' /\ mined' \in [Wallets -> Nat]
      /\ tx[c] = "pending" /\ tx' = [tx EXCEPT ![c] = how]
      /\ UNCHANGED <<period, step, op, sender, value, nonce, racing, polls, result>>
  BY <1>1, MinedKeepsNonces DEF askVars
<1>3. /\ deployed' \in BOOLEAN /\ approved' \in BOOLEAN /\ revoked' \in BOOLEAN
      /\ used' \in 0..Allowance /\ funds' \in 0..Funds
  <2>1. CASE how = "reverted"
    BY <1>1, <2>1 DEF IInv, TypeOK
  <2>2. CASE MineProvision(c) \/ MineRegister(c) \/ MineRevoke(c)
    BY <2>2 DEF MineProvision, MineRegister, MineRevoke, IInv, TypeOK
  <2>3. CASE MineSpend(c)
    <3>1. deployed' \in BOOLEAN /\ revoked' \in BOOLEAN
      BY <2>3 DEF MineSpend, IInv, TypeOK
    <3> QED
      BY <2>3, <3>1, SpendIsCovered DEF IInv
  <2> QED
    BY <1>1, <2>1, <2>2, <2>3
<1>4. (deployed => deployed') /\ (approved => approved') /\ (revoked => revoked')
  <2>1. CASE how = "reverted"
    BY <1>1, <2>1
  <2>2. CASE MineProvision(c)
    BY <2>2 DEF MineProvision
  <2>3. CASE MineRegister(c)
    BY <2>3 DEF MineRegister
  <2>4. CASE MineRevoke(c)
    BY <2>4 DEF MineRevoke
  <2>5. CASE MineSpend(c)
    BY <2>5, SpendIsCovered DEF IInv, MineSpend
  <2> QED
    BY <1>1, <2>1, <2>2, <2>3, <2>4, <2>5
<1>5. debit' \in [Calls -> 0..Allowance] /\ (\A d \in Calls \ {c} : debit'[d] = debit[d])
  <2>1. CASE debit' = debit
    BY <2>1 DEF IInv, TypeOK
  <2>2. CASE MineSpend(c)
    <3>1. Atomic(c) \in 0..Allowance /\ debit' = [debit EXCEPT ![c] = Atomic(c)]
      BY <2>2, SpendIsCovered, SpendAssumption DEF IInv
    <3> QED
      BY <3>1 DEF IInv, TypeOK
  <2> QED
    BY <1>1, <2>1, <2>2 DEF MineProvision, MineRegister, MineRevoke
<1>6. TypeOK'
  BY <1>2, <1>3, <1>5 DEF IInv, TypeOK
<1>7. tx'[c] = how /\ (\A d \in Calls \ {c} : tx'[d] = tx[d])
  BY <1>2 DEF IInv, TypeOK
<1>8. ASSUME NEW d \in Calls, d # c
      PROVE  (StageInv(d) /\ EffectInv(d) /\ ResultInv(d))'
  <2>1. StageInv(d) /\ EffectInv(d) /\ ResultInv(d)
    BY DEF IInv, CallInv
  <2>2. tx'[d] = tx[d] /\ debit'[d] = debit[d]
    BY <1>5, <1>7, <1>8
  <2>3. StageInv(d)'
    BY <1>2, <1>4, <2>1, <2>2 DEF StageInv
  <2>4. EffectInv(d)'
    BY <1>2, <1>4, <2>1, <2>2 DEF EffectInv, Atomic
  <2>5. ResultInv(d)'
    BY <1>2, <1>4, <2>1, <2>2 DEF ResultInv
  <2> QED
    BY <2>3, <2>4, <2>5
<1>9. (StageInv(c) /\ EffectInv(c) /\ ResultInv(c))'
  <2>1. StageInv(c) /\ EffectInv(c) /\ ResultInv(c) /\ debit[c] = 0
    BY <1>2 DEF IInv, CallInv, EffectInv
  <2>2. StageInv(c)' /\ ResultInv(c)'
    BY <1>2, <1>4, <1>7, <2>1 DEF StageInv, ResultInv, Failures
  <2>3. EffectInv(c)'
    <3>1. CASE how = "reverted"
      BY <1>1, <1>7, <2>1, <3>1 DEF EffectInv
    <3>2. CASE how = "mined" /\ (MineProvision(c) \/ MineRegister(c) \/ MineRevoke(c))
      BY <1>2, <1>7, <2>1, <3>2
         DEF EffectInv, MineProvision, MineRegister, MineRevoke, Spends
    <3>3. CASE how = "mined" /\ MineSpend(c)
      <4>1. /\ Atomic(c) \in 1..Allowance
            /\ op[c] \in Spends /\ debit' = [debit EXCEPT ![c] = Atomic(c)]
        BY <3>3, SpendIsCovered DEF IInv, MineSpend
      <4>2. debit'[c] = Atomic(c)
        BY <4>1 DEF IInv, TypeOK
      <4>3. Atomic(c) > 0
        BY <4>1, SpendAssumption
      <4>4. Atomic(c)' = Atomic(c)
        BY <1>2 DEF Atomic
      <4> QED
        BY <1>2, <1>7, <3>3, <4>1, <4>2, <4>3, <4>4 DEF EffectInv, Spends
    <3> QED
      BY <1>1, <3>1, <3>2, <3>3
  <2> QED
    BY <2>2, <2>3
<1>10. CallInv'
  BY <1>8, <1>9 DEF CallInv
<1> QED
  BY <1>2, <1>6, <1>10 DEF IInv

LEMMA NewPeriodKeeps ==
  ASSUME IInv, NewPeriod
  PROVE  IInv'
<1>1. /\ used' = 0 /\ period' = period + 1 /\ period < Periods
      /\ UNCHANGED <<deployed, approved, revoked, funds, mined, step, op, sender, value,
                     tx, nonce, racing, polls, debit, result>>
  BY DEF NewPeriod, callVars, askVars, txVars
<1>2. TypeOK'
  <2>1. used' \in 0..Allowance /\ period' \in 0..Periods
    BY <1>1, SpendAssumption DEF IInv, TypeOK
  <2> QED
    BY <1>1, <2>1 DEF IInv, TypeOK
<1>3. CallInv'
  BY <1>1 DEF IInv, CallInv, StageInv, EffectInv, ResultInv, Atomic
<1>4. NonceInv'
  BY <1>1, QuietKeepsNonces
<1> QED
  BY <1>2, <1>3, <1>4 DEF IInv

-----------------------------------------------------------------------------
(* The invariant is inductive. *)
LEMMA NextIInv == IInv /\ [Next]_vars => IInv'
<1> SUFFICES ASSUME IInv, [Next]_vars PROVE IInv'
  OBVIOUS
<1>1. ASSUME NEW c \in Calls, NEW operation \in Ops \ Spends, Starts(c, operation, 0)
      PROVE  IInv'
  BY <1>1, StartsKeep
<1>2. ASSUME NEW c \in Calls, NEW operation \in Spends, NEW amount \in Values,
             Starts(c, operation, amount)
      PROVE  IInv'
  BY <1>2, StartsKeep DEF Spends, Ops
<1>3. ASSUME NEW c \in Calls, ClientStep(c)
      PROVE  IInv'
  BY <1>3, BeforeBroadcast, ReadNonceKeeps, BroadcastKeeps, ReceiptMissingKeeps, AfterBroadcast
     DEF ClientStep
<1>4. ASSUME NEW c \in Calls, Mine(c) \/ MineReverted(c)
      PROVE  IInv'
  BY <1>4, MineKeeps
<1>5. CASE NewPeriod
  BY <1>5, NewPeriodKeeps
<1>6. CASE UNCHANGED vars
  <2>1. UNCHANGED <<chainVars, step, askVars, txVars, polls, result>>
    BY <1>6 DEF vars, callVars
  <2>2. TypeOK'
    BY <2>1 DEF IInv, TypeOK, chainVars, askVars, txVars
  <2>3. CallInv'
    BY <2>1 DEF IInv, CallInv, StageInv, EffectInv, ResultInv, Atomic, chainVars, askVars, txVars
  <2>4. NonceInv'
    BY <2>1, QuietKeepsNonces DEF chainVars, askVars, txVars
  <2> QED
    BY <2>2, <2>3, <2>4 DEF IInv
<1> QED
  BY <1>1, <1>2, <1>3, <1>4, <1>5, <1>6 DEF Next

(* Every reachable state satisfies it. *)
THEOREM Invariance == Spec => []IInv
BY InitIInv, NextIInv, PTL DEF Spec

-----------------------------------------------------------------------------
(* What follows from it                                                    *)

(* The state stays within its types: in particular, what is spent in a     *)
(* period never exceeds the allowance, nor all that is spent the funds.    *)
THEOREM TypeCorrect == Spec => []TypeOK
<1>1. IInv => TypeOK
  BY DEF IInv
<1> QED
  BY <1>1, Invariance, PTL

(* A failure that is neither SettlementNotConfirmed nor a bare transport   *)
(* error has moved nothing and will move nothing, for any number of calls  *)
(* that overlap in any way.                                                *)
THEOREM FailuresMoveNothing == Spec => []FailureMovesNothing
<1>1. IInv => FailureMovesNothing
  <2> SUFFICES ASSUME IInv, NEW c \in Calls, result[c] \in Failures
               PROVE  debit[c] = 0 /\ tx[c] # "pending"
    BY DEF FailureMovesNothing
  <2>1. \/ tx[c] \in {"none", "reverted"}
        \/ tx[c] = "mined" /\ op[c] = "register"
    BY DEF IInv, CallInv, ResultInv
  <2> QED
    BY <2>1 DEF IInv, CallInv, EffectInv, Spends
<1> QED
  BY <1>1, Invariance, PTL

(* A hash that is returned stands for the thing done. *)
THEOREM HashesMeanDone == Spec => []OkMeansDone
<1>1. IInv => OkMeansDone
  <2> SUFFICES ASSUME IInv, NEW c \in Calls, result[c] = "ok"
               PROVE  /\ op[c] \in Spends => debit[c] = value[c] \div Fraction /\ debit[c] > 0
                      /\ op[c] = "register" => approved
                      /\ op[c] = "revoke" => revoked
                      /\ op[c] = "provision" => deployed
    BY DEF OkMeansDone
  <2>1. /\ tx[c] = "mined" \/ (op[c] = "provision" /\ deployed)
        /\ op[c] = "register" => approved
    BY DEF IInv, CallInv, ResultInv
  <2> QED
    BY <2>1 DEF IInv, CallInv, EffectInv, Atomic, Spends
<1> QED
  BY <1>1, Invariance, PTL

(* Of a call and an earlier one of its wallet that was under way when the  *)
(* call read its nonce, at most one is ever executed, for any number of    *)
(* calls whose nonce reads, broadcasts and executions interleave.          *)
THEOREM RetriesPayOnce == Spec => []RetryPaysOnce
<1>1. IInv => RetryPaysOnce
  <2> SUFFICES ASSUME IInv, NEW c \in Calls, NEW d \in racing[c],
                      HasReceipt(c), HasReceipt(d)
               PROVE  FALSE
    BY DEF RetryPaysOnce
  <2>1. d \in Calls
    BY DEF IInv, TypeOK
  <2>2. d # c /\ sender[d] = sender[c] /\ nonce[d] = nonce[c]
    BY DEF IInv, NonceInv
  <2> QED
    BY <2>1, <2>2 DEF IInv, NonceInv
<1> QED
  BY <1>1, Invariance, PTL

(* The only step in which a registration succeeds is its second read, and  *)
(* no approval is ever undone: so what the first read saw still holds.     *)
LEMMA RegistersUsable ==
  ASSUME IInv, Next, NEW c \in Calls,
         op[c] = "register", result[c] = "none", result'[c] = "ok"
  PROVE  Granted
<1>1. ASSUME NEW d \in Calls, NEW operation \in Ops, NEW amount \in Values \cup {0},
             Starts(d, operation, amount)
      PROVE  FALSE
  <2>1. PICK network \in {Sepolia, Mainnet} :
          \/ ChainRefused(d, operation, amount, network)
          \/ NoRpcReachable(d, operation, amount, network)
          \/ Start(d, operation, amount, network)
    BY <1>1 DEF Starts
  <2>2. \/ \E kind \in {"PaymentError", "ConnectionError"} :
             result' = [result EXCEPT ![d] = kind]
        \/ result' = result
    BY <2>1, SpendAssumption DEF ChainRefused, NoRpcReachable, Start, ChainAllowed, Finish
  <2> QED
    BY <2>2 DEF IInv, TypeOK
<1>2. ASSUME NEW d \in Calls, ClientStep(d) PROVE Granted
  <2>1. CASE d # c
    <3>1. \E kind : result' = [result EXCEPT ![d] = kind] \/ result' = result
      BY <1>2 DEF ClientStep, AlreadyProvisioned, DryRunReverts, Proceed, TransportFails,
         ReadNonce, Broadcast, BroadcastRefused, BroadcastLost, ReceiptMissing,
         ReceiptTimesOut, ReceiptRead, ReadApproved, ReadRevoked, Finish
    <3>2. result'[c] = result[c]
      BY <2>1, <3>1 DEF IInv, TypeOK
    <3> QED
      BY <3>2
  <2>2. CASE d = c
    <3>1. ASSUME NEW kind, kind # "ok", Finish(c, kind) PROVE FALSE
      BY <3>1 DEF Finish, IInv, TypeOK
    <3>2. ASSUME result' = result PROVE FALSE
      BY <3>2
    <3>3. CASE ReadRevoked(c)
      BY <3>1, <3>3 DEF ReadRevoked, IInv, CallInv, StageInv, Granted
    <3>4. CASE DryRunReverts(c)
      <4>1. Translated(DryRun(c)) # "ok"
        BY DEF Translated
      <4> QED
        BY <3>1, <3>4, <4>1 DEF DryRunReverts
    <3>5. CASE AlreadyProvisioned(c)
      BY <3>5 DEF AlreadyProvisioned
    <3>6. CASE ReceiptRead(c)
      BY <3>1, <3>2, <3>6 DEF ReceiptRead, RevertKind
    <3>7. CASE \/ Proceed(c) \/ TransportFails(c) \/ ReadNonce(c) \/ Broadcast(c)
               \/ BroadcastRefused(c) \/ BroadcastLost(c) \/ ReceiptMissing(c)
               \/ ReceiptTimesOut(c) \/ ReadApproved(c)
      BY <3>1, <3>2, <3>7 DEF Proceed, TransportFails, ReadNonce, Broadcast, BroadcastRefused,
         BroadcastLost, ReceiptMissing, ReceiptTimesOut, ReadApproved
    <3> QED
      BY <1>2, <2>2, <3>3, <3>4, <3>5, <3>6, <3>7 DEF ClientStep
  <2> QED
    BY <2>1, <2>2
<1>3. ASSUME NEW d \in Calls, Mine(d) \/ MineReverted(d) PROVE FALSE
  BY <1>3 DEF Mine, MineReverted, Mined
<1>4. CASE NewPeriod
  BY <1>4 DEF NewPeriod, callVars
<1>5. Spends \subseteq Ops
  BY DEF Spends, Ops
<1> QED
  BY <1>1, <1>2, <1>3, <1>4, <1>5 DEF Next

(* register_spend_permission never reports success on a permission that is *)
(* revoked at that moment.                                                 *)
THEOREM RegistrationsAreUsable == Spec => RegisteredIsUsable
<1>1. IInv /\ [Next]_vars =>
        [\A c \in Calls :
           op[c] = "register" /\ result[c] = "none" /\ result'[c] = "ok" => Granted]_vars
  BY RegistersUsable
<1> QED
  BY <1>1, Invariance, PTL DEF Spec, RegisteredIsUsable
=============================================================================
