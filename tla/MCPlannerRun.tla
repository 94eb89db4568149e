---------------------------- MODULE MCPlannerRun ----------------------------
(***************************************************************************)
(* PlannerRun for TLC: two trials; catalogs of two vendors, the first with *)
(* every price, flag and reference price, the second of another category,  *)
(* flaky, down, with a URL, or over the cap; mandates with and without an  *)
(* allowlist and a multiplier.  Live tasks have two vendors, with and      *)
(* without a URL.                                                          *)
(***************************************************************************)
EXTENDS PlannerRun

CONSTANTS a, b, unknown, urlA, urlB

MCVendors(id) ==
  [id : {id}, category : {"api"}, price : {1, 3, 4}, inAllowlist : BOOLEAN,
   url : {NoVendor}, reference : {NoPrice, 1}, failsNext : {0}, down : {FALSE}]

MCPlain(id) ==
  [id |-> id, category |-> "api", price |-> 1, inAllowlist |-> TRUE,
   url |-> NoVendor, reference |-> NoPrice, failsNext |-> 0, down |-> FALSE]

MCOthers ==
  {[MCPlain(b) EXCEPT !.category = "gpu"], [MCPlain(b) EXCEPT !.failsNext = 1],
   [MCPlain(b) EXCEPT !.down = TRUE], [MCPlain(b) EXCEPT !.url = urlA],
   [MCPlain(b) EXCEPT !.price = 4]}

MCMandates(kinds, catalogs) ==
  [kind : kinds, category : {"api"}, cap : {3}, allowlist : {NoList, {a}, {b}},
   multiplier : {NoPrice, 1}, vendors : catalogs,
   expected : {a, NoVendor}, maxPrice : {1}, adherence : {TRUE}]

(* Live: a with a URL, b with one, with the same, or without. *)
MCTasks ==
  MCMandates({"synthetic"}, {<<v, w>> : v \in MCVendors(a), w \in MCOthers}) \cup
  MCMandates({"real_x402"},
    {<<[MCPlain(a) EXCEPT !.url = urlA, !.price = p, !.reference = 1],
       [MCPlain(b) EXCEPT !.url = u]>> : p \in {1, 3}, u \in {urlA, urlB, NoVendor}})

MCTargets == {a, b, unknown, urlA, urlB}
MCUrls == {urlA, urlB}
MCCallCaps == {3}
MCClaimLists ==
  {<< >>} \cup {<<c>> : c \in [vendor : {a, b}, amount : 0..4]}
=============================================================================
