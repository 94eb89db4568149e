-------------------------- MODULE MCSpendPermission --------------------------
(***************************************************************************)
(* SpendPermission for TLC: two calls in any order and overlap, from one   *)
(* wallet or two, on a permission in any state, with an allowance of two   *)
(* atomic units, one period and the time after its end, three units of     *)
(* funds, amounts of half a unit and of two and a half, and two polls for  *)
(* a receipt.                                                              *)
(***************************************************************************)
EXTENDS SpendPermission

MCValues == {1, 5}
=============================================================================
