--------------------------- MODULE MCSyntheticRun ---------------------------
(***************************************************************************)
(* SyntheticRun for TLC: two trials of at most three calls each, three     *)
(* vendors, and tasks in which a vendor fails its first attempt, another   *)
(* is down, both together exceed the cap, no purchase is expected, or two  *)
(* entries of the catalog have one id.                                     *)
(***************************************************************************)
EXTENDS SyntheticRun

CONSTANTS a, b, unknown

MCVendor(id, price) ==
  [id |-> id, category |-> "api", price |-> price, inAllowlist |-> TRUE,
   url |-> NoVendor, reference |-> NoPrice, failsNext |-> 0, down |-> FALSE]

MCTask(vendors) ==
  [category |-> "api", cap |-> 2, allowlist |-> NoList, multiplier |-> NoPrice,
   vendors |-> vendors, expected |-> a, maxPrice |-> 2, adherence |-> TRUE]

MCFlaky == MCTask(<<[MCVendor(a, 1) EXCEPT !.failsNext = 1], MCVendor(b, 2)>>)

MCTasks ==
  {[MCFlaky EXCEPT !.adherence = FALSE]} \cup
  {MCFlaky,
   MCTask(<<[MCVendor(a, 2) EXCEPT !.down = TRUE], MCVendor(b, 1)>>),
   [MCTask(<<MCVendor(a, 3), [MCVendor(b, 1) EXCEPT !.inAllowlist = FALSE]>>)
      EXCEPT !.expected = NoVendor],
   MCTask(<<MCVendor(a, 1), MCVendor(b, 2), [MCVendor(a, 2) EXCEPT !.failsNext = 1]>>)}

MCTargets == {a, b, unknown}
MCCallCaps == {1, 2, 3}

MCClaim(id, amount) == [vendor |-> id, amount |-> amount]

MCClaimLists ==
  {<< >>, <<MCClaim(a, 1)>>, <<MCClaim(b, 2)>>, <<MCClaim(a, 1), MCClaim(a, 1)>>,
   <<MCClaim(b, 2), MCClaim(a, 1)>>}
=============================================================================
