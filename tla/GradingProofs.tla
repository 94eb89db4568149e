--------------------------- MODULE GradingProofs ---------------------------
(***************************************************************************)
(* Proofs about grade(), for records, claims and catalogs of any length.   *)
(*                                                                         *)
(* What makes the first-match pairing complete is that no vendor appears   *)
(* twice in the record: the one execution that can back a claim is taken   *)
(* only by an earlier claim on the same vendor, and two claims on one      *)
(* vendor cannot both be backed.                                           *)
(***************************************************************************)
EXTENDS GradingCall, TLAPS

(* The claims considered so far are paired with executions of their own,   *)
(* and what is left of the record is the rest.                             *)
PairingInv ==
  /\ Len(pairing) = next - 1
  /\ \A c \in 1..(next - 1) : Backs(executed[pairing[c]], claims[c])
  /\ \A c, d \in 1..(next - 1) : pairing[c] = pairing[d] => c = d
  /\ remaining = DOMAIN executed \ {pairing[c] : c \in 1..(next - 1)}

(* What the verdict says about the claims. *)
VerdictInv ==
  /\ outcome = "unverified_claim" => ~Reconcilable
  /\ outcome \in Outcomes \ {"unverified_claim"} => next > Len(claims)

IInv == TypeOK /\ DistinctVendors /\ PairingInv /\ VerdictInv

-----------------------------------------------------------------------------
(* A list of claims is indexed by 1..Len. *)
LEMMA InputTypes ==
  ASSUME TypeOK
  PROVE  /\ claims \in Seq(Claims) /\ executed \in Seq(Purchases)
         /\ Len(claims) \in Nat /\ DOMAIN claims = 1..Len(claims)
         /\ Len(executed) \in Nat /\ DOMAIN executed = 1..Len(executed)
         /\ pairing \in Seq(DOMAIN executed) /\ next \in 1..(Len(claims) + 1)
BY GradingAssumption DEF TypeOK

(* When every claim is paired, the pairing itself reconciles them. *)
LEMMA PairedIsReconcilable ==
  ASSUME IInv, next > Len(claims)
  PROVE  Reconcilable
<1>1. /\ next - 1 = Len(claims) /\ DOMAIN claims = 1..Len(claims)
      /\ pairing \in Seq(DOMAIN executed) /\ Len(pairing) = Len(claims)
  BY InputTypes DEF IInv, PairingInv
<1>2. pairing \in [DOMAIN claims -> DOMAIN executed]
  BY <1>1
<1>3. /\ \A c, d \in DOMAIN claims : pairing[c] = pairing[d] => c = d
      /\ \A c \in DOMAIN claims : Backs(executed[pairing[c]], claims[c])
  BY <1>1 DEF IInv, PairingInv
<1> QED
  BY <1>2, <1>3 DEF Reconcilable

(* When the claim at hand matches nothing that is left, nothing reconciles *)
(* the claims.                                                             *)
LEMMA UnmatchedIsIrreconcilable ==
  ASSUME IInv, next <= Len(claims), Matching = {}
  PROVE  ~Reconcilable
<1> SUFFICES ASSUME NEW f \in [DOMAIN claims -> DOMAIN executed],
                    \A c, d \in DOMAIN claims : f[c] = f[d] => c = d,
                    \A c \in DOMAIN claims : Backs(executed[f[c]], claims[c])
             PROVE  FALSE
  BY DEF Reconcilable
<1>1. next \in DOMAIN claims /\ 1..(next - 1) \subseteq DOMAIN claims
  BY InputTypes DEF IInv
<1>2. f[next] \in DOMAIN executed /\ Backs(executed[f[next]], claims[next])
  BY <1>1
<1>3. f[next] \notin remaining
  BY <1>2 DEF Matching
<1>4. PICK c \in 1..(next - 1) : pairing[c] = f[next]
  BY <1>2, <1>3 DEF IInv, PairingInv
<1>5. Backs(executed[f[next]], claims[c])
  BY <1>4 DEF IInv, PairingInv
<1>6. c \in DOMAIN claims /\ f[c] \in DOMAIN executed /\ Backs(executed[f[c]], claims[c])
  BY <1>1
<1>7. executed[f[c]].vendor = executed[f[next]].vendor
  BY <1>5, <1>6 DEF Backs
<1>8. f[c] = f[next]
  BY <1>2, <1>6, <1>7 DEF IInv, DistinctVendors
<1>9. c = next
  BY <1>1, <1>6, <1>8
<1> QED
  BY <1>9, InputTypes DEF IInv

-----------------------------------------------------------------------------
(* Every call of grade() starts in the invariant. *)
LEMMA InitIInv == Init => IInv
<1> SUFFICES ASSUME Init PROVE IInv
  OBVIOUS
<1>1. TypeOK
  <2>1. claims \in Seq(Claims) /\ Len(claims) \in Nat
    BY GradingAssumption DEF Init
  <2>2. next \in 1..(Len(claims) + 1)
    BY <2>1 DEF Init
  <2>3. pairing \in Seq(DOMAIN executed)
    BY DEF Init
  <2> QED
    BY <2>2, <2>3 DEF Init, TypeOK
<1>2. DistinctVendors
  BY GradingAssumption DEF Init, DistinctVendors
<1>3. PairingInv
  <2>1. Len(pairing) = next - 1 /\ 1..(next - 1) = {} /\ remaining = DOMAIN executed
    BY DEF Init
  <2>2. {pairing[c] : c \in 1..(next - 1)} = {}
    BY <2>1
  <2>3. DOMAIN executed \ {pairing[c] : c \in 1..(next - 1)} = DOMAIN executed
    BY <2>2
  <2> QED
    BY <2>1, <2>3 DEF PairingInv
<1>4. VerdictInv
  BY DEF Init, VerdictInv, Outcomes
<1> QED
  BY <1>1, <1>2, <1>3, <1>4 DEF IInv

(* Pairing a claim keeps it. *)
LEMMA PairClaimKeeps ==
  ASSUME IInv, PairClaim
  PROVE  IInv'
<1> DEFINE n == CHOOSE n \in Matching : \A m \in Matching : n <= m
<1>1. /\ remaining \subseteq DOMAIN executed /\ DOMAIN executed \subseteq Nat
      /\ Matching # {} /\ Matching \subseteq Nat
  BY InputTypes DEF IInv, TypeOK, PairClaim, Matching
<1>2. n \in Matching
  <2>1. \A k, m \in Matching : k = m
    BY <1>1 DEF IInv, DistinctVendors, Matching, Backs
  <2>2. PICK k \in Matching : k \in Nat
    BY <1>1
  <2>3. \A m \in Matching : k <= m
    <3>1. k <= k
      BY <2>2
    <3> QED
      BY <2>1, <3>1
  <2> QED
    BY <2>3
<1>3. n \in remaining /\ n \in DOMAIN executed /\ Backs(executed[n], claims[next])
  BY <1>1, <1>2 DEF Matching
<1>4. /\ next' = next + 1 /\ remaining' = remaining \ {n} /\ pairing' = Append(pairing, n)
      /\ UNCHANGED <<task, executed, claims, escalated, outcome>>
      /\ outcome = "none" /\ next <= Len(claims)
  BY DEF PairClaim, inputVars
<1>5. /\ pairing \in Seq(DOMAIN executed) /\ Len(pairing) = next - 1
      /\ next \in 1..(Len(claims) + 1) /\ Len(claims) \in Nat
  BY InputTypes DEF IInv, PairingInv
<1>6. /\ pairing' \in Seq(DOMAIN executed) /\ Len(pairing') = next
      /\ pairing'[next] = n
      /\ \A c \in 1..(next - 1) : pairing'[c] = pairing[c]
  BY <1>3, <1>4, <1>5
<1>7. TypeOK'
  <2>1. next' \in 1..(Len(claims) + 1)
    BY <1>4, <1>5
  <2>2. remaining' \subseteq DOMAIN executed
    BY <1>1, <1>4
  <2> QED
    BY <2>1, <2>2, <1>4, <1>6 DEF IInv, TypeOK
<1>8. DistinctVendors'
  BY <1>4 DEF IInv, DistinctVendors
<1>9. PairingInv'
  <2>1. \A c \in 1..next : c \in 1..(next - 1) \/ c = next
    BY <1>5
  <2>2. \A c \in 1..next : Backs(executed[pairing'[c]], claims[c])
    BY <2>1, <1>3, <1>6 DEF IInv, PairingInv
  <2>3. \A c \in 1..(next - 1) : pairing[c] # n
    BY <1>3 DEF IInv, PairingInv
  <2>4. \A c, d \in 1..next : pairing'[c] = pairing'[d] => c = d
    BY <2>1, <2>3, <1>6 DEF IInv, PairingInv
  <2>5. {pairing'[c] : c \in 1..next} = {pairing[c] : c \in 1..(next - 1)} \cup {n}
    <3>1. next \in 1..next /\ 1..(next - 1) \subseteq 1..next
      BY <1>5
    <3> QED
      BY <2>1, <3>1, <1>6
  <2>6. remaining' = DOMAIN executed \ {pairing'[c] : c \in 1..next}
    BY <2>5, <1>4 DEF IInv, PairingInv
  <2>7. next' - 1 = next
    BY <1>4, <1>5
  <2>8. executed' = executed /\ claims' = claims
    BY <1>4
  <2> HIDE DEF n
  <2>9. Len(pairing') = next' - 1
    BY <1>6, <2>7
  <2>10. \A c \in 1..(next' - 1) : Backs(executed[pairing'[c]], claims[c])
    BY <2>2, <2>7
  <2>11. \A c, d \in 1..(next' - 1) : pairing'[c] = pairing'[d] => c = d
    BY <2>4, <2>7
  <2>12. remaining' = DOMAIN executed \ {pairing'[c] : c \in 1..(next' - 1)}
    BY <2>6, <2>7
  <2> QED
    BY <2>8, <2>9, <2>10, <2>11, <2>12 DEF PairingInv, Backs
<1>10. VerdictInv'
  BY <1>4 DEF VerdictInv, Outcomes
<1> QED
  BY <1>7, <1>8, <1>9, <1>10 DEF IInv

(* A step that only gives a verdict keeps it, if the verdict is right. *)
LEMMA VerdictKeeps ==
  ASSUME IInv, UNCHANGED <<inputVars, loopVars>>, outcome' \in Outcomes,
         outcome' = "unverified_claim" => ~Reconcilable,
         outcome' # "unverified_claim" => next > Len(claims)
  PROVE  IInv'
<1>1. TypeOK' /\ DistinctVendors' /\ PairingInv'
  BY DEF IInv, TypeOK, DistinctVendors, PairingInv, Backs, inputVars, loopVars
<1>2. Reconcilable' = Reconcilable
  BY DEF Reconcilable, Backs, inputVars
<1>3. VerdictInv'
  BY <1>2 DEF VerdictInv, inputVars, loopVars
<1> QED
  BY <1>1, <1>3 DEF IInv

(* The invariant is inductive. *)
LEMMA NextIInv == IInv /\ [Next]_gradeVars => IInv'
<1> SUFFICES ASSUME IInv, [Next]_gradeVars PROVE IInv'
  OBVIOUS
<1>1. CASE PairClaim
  BY <1>1, PairClaimKeeps
<1>2. CASE RejectClaim
  BY <1>2, UnmatchedIsIrreconcilable, VerdictKeeps DEF RejectClaim, Outcomes
<1>3. CASE GradeTerminal
  BY <1>3, VerdictKeeps DEF GradeTerminal, Outcomes
<1>4. CASE UNCHANGED gradeVars
  <2>1. TypeOK' /\ DistinctVendors' /\ PairingInv'
    BY <1>4 DEF IInv, TypeOK, DistinctVendors, PairingInv, Backs, gradeVars, inputVars, loopVars
  <2>2. Reconcilable' = Reconcilable
    BY <1>4 DEF Reconcilable, Backs, gradeVars, inputVars
  <2>3. VerdictInv'
    BY <1>4, <2>2 DEF IInv, VerdictInv, gradeVars, inputVars, loopVars
  <2> QED
    BY <2>1, <2>3 DEF IInv
<1> QED
  BY <1>1, <1>2, <1>3, <1>4 DEF Next, GradeStep

(* Every reachable state of a call of grade() satisfies it. *)
THEOREM Invariance == Spec => []IInv
BY InitIInv, NextIInv, PTL DEF Spec

-----------------------------------------------------------------------------
(* What follows from it                                                    *)

(* The loop of grade() stays within its types: no claim index beyond the   *)
(* report, only executions of the record are paired, and it ends in one of *)
(* its verdicts.                                                           *)
THEOREM TypeCorrect == Spec => []TypeOK
<1>1. IInv => TypeOK
  BY DEF IInv
<1> QED
  BY <1>1, Invariance, PTL

(* An agent is called a misreporter exactly when no pairing whatever backs *)
(* all its claims, for records and reports of any length.                  *)
THEOREM GreedyPairingIsComplete == Spec => []GreedyIsComplete
<1>1. IInv => GreedyIsComplete
  <2> SUFFICES ASSUME IInv, outcome # "none"
               PROVE  outcome = "unverified_claim" <=> ~Reconcilable
    BY DEF GreedyIsComplete
  <2>1. outcome \in Outcomes
    BY DEF IInv, TypeOK
  <2>2. outcome = "unverified_claim" => ~Reconcilable
    BY DEF IInv, VerdictInv
  <2>3. outcome # "unverified_claim" => Reconcilable
    BY <2>1, PairedIsReconcilable DEF IInv, VerdictInv
  <2> QED
    BY <2>2, <2>3
<1> QED
  BY <1>1, Invariance, PTL
=============================================================================
