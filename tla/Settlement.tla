----------------------------- MODULE Settlement -----------------------------
(***************************************************************************)
(* payments/settlement.py: the independent on-chain verification of an     *)
(* x402 settlement.                                                        *)
(*                                                                         *)
(* _receipt_and_tx walks a list of RPC endpoints and asks each one for the *)
(* receipt up to _RETRIES times.  "Not found" is an answer (the endpoint   *)
(* works, the transaction is not there yet) and is retried; any other      *)
(* failure abandons the endpoint.  The loop's local variables are the      *)
(* VARIABLES below, so that whatever happens on the chain while the client *)
(* sleeps can be interleaved with it.  verify_settlement then compares the *)
(* receipt with what was agreed.                                           *)
(***************************************************************************)
EXTENDS Naturals, Sequences

CONSTANTS
  NumEndpoints,   (* len(rpc_urls(chain_id)) *)
  Retries         (* _RETRIES *)

ASSUME PollingAssumption == NumEndpoints \in Nat \ {0} /\ Retries \in Nat \ {0}

VARIABLES
  endpoint,       (* the endpoint being asked, counted from 1 *)
  tries,          (* "not found" answers it has given so far *)
  reachable       (* some endpoint has answered *)

pollVars == <<endpoint, tries, reachable>>

PollingTypeOK ==
  /\ endpoint \in 1..(NumEndpoints + 1)
  /\ tries \in 0..(Retries - 1)
  /\ reachable \in BOOLEAN

PollingStart == endpoint' = 1 /\ tries' = 0 /\ reachable' = FALSE

(* Every endpoint has been tried: the for loop over the URLs is over. *)
Exhausted == endpoint > NumEndpoints

(* A mutant: an endpoint whose retry budget is used up is asked again. *)
PollNotFoundForever ==
  /\ ~Exhausted
  /\ reachable' = TRUE
  /\ tries' = (tries + 1) % Retries
  /\ UNCHANGED endpoint

(* TransactionNotFound: sleep and ask the same endpoint again, until its   *)
(* retry budget is used up.                                                *)
PollNotFound ==
  /\ ~Exhausted
  /\ reachable' = TRUE
  /\ \/ /\ tries + 1 < Retries
        /\ tries' = tries + 1
        /\ UNCHANGED endpoint
     \/ /\ tries + 1 = Retries
        /\ tries' = 0
        /\ endpoint' = endpoint + 1

(* A mutant: nobody notices that the list of endpoints is over. *)
PollTransportErrorUnchecked ==
  /\ endpoint' = endpoint + 1
  /\ tries' = 0
  /\ UNCHANGED reachable

(* Any other exception: go on to the next endpoint. *)
PollTransportError ==
  /\ ~Exhausted
  /\ endpoint' = endpoint + 1
  /\ tries' = 0
  /\ UNCHANGED reachable

(* A mutant: the last transfer is compared, not the first. *)
MatchesLast(receipt, expected) ==
  /\ receipt.status = 1
  /\ receipt.transfers # << >>
  /\ receipt.transfers[Len(receipt.transfers)] = expected

(* matches_expected of verify_settlement.  The loop over the logs stops at *)
(* the FIRST Transfer of the pinned USDC: that transfer alone is compared  *)
(* with the expected payer, payee and amount.                              *)
MatchesExpected(receipt, expected) ==
  /\ receipt.status = 1
  /\ receipt.transfers # << >>
  /\ Head(receipt.transfers) = expected
=============================================================================
