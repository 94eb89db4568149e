------------------------------ MODULE MCLiveRun ------------------------------
(***************************************************************************)
(* LiveRun for TLC: one trial of at most three calls, two vendors with     *)
(* URLs, a URL that is in no catalog, and amounts 0..2.                    *)
(***************************************************************************)
EXTENDS LiveRun

CONSTANTS a, b, urlA, urlB, strayUrl

MCVendor(id, url) ==
  [id |-> id, category |-> "api", price |-> 1, inAllowlist |-> TRUE,
   url |-> url, reference |-> NoPrice, failsNext |-> 0, down |-> FALSE]

MCTasks ==
  {[category |-> "api", cap |-> 2, allowlist |-> NoList, multiplier |-> NoPrice,
    vendors |-> <<MCVendor(a, urlA), MCVendor(b, urlB)>>,
    expected |-> a, maxPrice |-> 2, adherence |-> TRUE]}

MCTargets == {urlA, urlB, strayUrl}

MCClaimLists == {<< >>, <<[vendor |-> a, amount |-> 1]>>}
=============================================================================
