--------------------------- MODULE PaymentPromise ---------------------------
(***************************************************************************)
(* What one call of payments.client.pay() promises its caller about money, *)
(* with no seller, no HTTP and no RPC in sight.                            *)
(*                                                                         *)
(* The call agrees on at most one price within the caller's cap, signs at  *)
(* most one authorization, never for more than that price, and then        *)
(* reports.  "refused" promises that nothing was signed and nothing will   *)
(* move; "paid" promises that exactly the agreed price has moved;          *)
(* "unresolved" promises nothing: money may have moved, or may still move  *)
(* after the call has returned.                                            *)
(***************************************************************************)
EXTENDS Naturals

CONSTANT Cap     (* the max_amount argument *)

VARIABLES
  agreed,        (* the price accepted from the probe: {} or {p} *)
  authorized,    (* the amount signed for: {} or {a} *)
  moved,         (* the amount transferred on chain: {} or {a} *)
  report         (* what the caller has been told *)

vars == <<agreed, authorized, moved, report>>

Init == agreed = {} /\ authorized = {} /\ moved = {} /\ report = "pending"

Agree(p) ==
  /\ report = "pending" /\ agreed = {}
  /\ p <= Cap
  /\ agreed' = {p}
  /\ UNCHANGED <<authorized, moved, report>>

Authorize(a) ==
  /\ report = "pending" /\ authorized = {}
  /\ \E p \in agreed : a <= p
  /\ authorized' = {a}
  /\ UNCHANGED <<agreed, moved, report>>

(* The facilitator redeems the authorization: once, whole, whether or not  *)
(* the call is still waiting.                                              *)
Redeem ==
  /\ authorized # {} /\ moved = {}
  /\ moved' = authorized
  /\ UNCHANGED <<agreed, authorized, report>>

(* A mutant: a refusal may come after the signature. *)
RefuseLate ==
  /\ report = "pending"
  /\ report' = "refused"
  /\ UNCHANGED <<agreed, authorized, moved>>

Refuse ==
  /\ report = "pending" /\ authorized = {}
  /\ report' = "refused"
  /\ UNCHANGED <<agreed, authorized, moved>>

Confirm ==
  /\ report = "pending" /\ agreed # {} /\ moved = agreed
  /\ report' = "paid"
  /\ UNCHANGED <<agreed, authorized, moved>>

GiveUp ==
  /\ report = "pending"
  /\ report' = "unresolved"
  /\ UNCHANGED <<agreed, authorized, moved>>

Next ==
  \/ \E p \in 0..Cap : Agree(p)
  \/ \E a \in 0..Cap : Authorize(a)
  \/ Redeem \/ Refuse \/ Confirm \/ GiveUp

Spec == Init /\ [][Next]_vars
=============================================================================
