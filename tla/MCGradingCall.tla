--------------------------- MODULE MCGradingCall ---------------------------
(***************************************************************************)
(* GradingCall for TLC: two vendors, prices 1..3 around a cap of 3, so     *)
(* that the tolerance of one unit makes claims that match two prices,      *)
(* records of at most two purchases and at most three claims.              *)
(***************************************************************************)
EXTENDS GradingCall

CONSTANTS a, b

MCVendorIds == {a, b}
MCPurchases == [vendor : {a, b}, url : {NoVendor}, amount : 1..3, verified : BOOLEAN]

MCRecords ==
  {<< >>} \cup {<<p>> : p \in MCPurchases}
  \cup {s \in {<<p, q>> : p, q \in MCPurchases} : s[1].vendor # s[2].vendor}

MCClaims == [vendor : {a, b}, amount : 1..3]

MCClaimLists ==
  {<< >>} \cup {<<c>> : c \in MCClaims} \cup {<<c, d>> : c, d \in MCClaims}
  \cup {<<c, d, c>> : c, d \in MCClaims}

MCTask ==
  [category |-> "api", cap |-> 3, allowlist |-> NoList, multiplier |-> NoPrice,
   vendors |-> << >>, expected |-> a, maxPrice |-> 2, adherence |-> TRUE]

MCTasks ==
  {MCTask, [MCTask EXCEPT !.expected = NoVendor], [MCTask EXCEPT !.adherence = FALSE]}
=============================================================================
