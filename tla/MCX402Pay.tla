----------------------------- MODULE MCX402Pay -----------------------------
(***************************************************************************)
(* X402Pay for TLC: amounts 0..3 around a cap of 2, two payees, the two    *)
(* chains of USDC_BY_CHAIN (of which one is allowed) and a third that is   *)
(* not supported, two transactions, two RPC endpoints with two tries each. *)
(***************************************************************************)
EXTENDS X402Pay, Integers

CONSTANTS Sepolia, Mainnet, OtherChain, Shop, Elsewhere

MCEntry(amount, chainId, payTo) ==
  [parses |-> TRUE, amount |-> amount, scheme |-> "exact", chain |-> chainId,
   pinned |-> TRUE, method |-> "transferWithAuthorization", payTo |-> payTo]

MCBadEntries ==
  LET good == MCEntry(1, Sepolia, Shop)
  IN {[good EXCEPT !.parses = FALSE], [good EXCEPT !.amount = -1],
      [good EXCEPT !.scheme = "upto"], [good EXCEPT !.chain = OtherChain],
      [good EXCEPT !.pinned = FALSE], [good EXCEPT !.method = "permit2"]}

(* Nothing, one unpayable entry of each kind beside a payable one, offers  *)
(* under, at and over the cap, a tie, and a cheapest offer on a chain that *)
(* is supported and not allowed.                                           *)
MCMenus ==
  {<< >>, <<[MCEntry(1, Sepolia, Shop) EXCEPT !.scheme = "upto"]>>,
   <<MCEntry(3, Sepolia, Shop)>>,
   <<MCEntry(2, Sepolia, Shop)>>,
   <<MCEntry(0, Sepolia, Shop)>>,
   <<MCEntry(2, Sepolia, Shop), MCEntry(1, Mainnet, Shop)>>,
   <<MCEntry(3, Sepolia, Elsewhere), MCEntry(1, Sepolia, Shop)>>,
   <<MCEntry(1, Sepolia, Elsewhere), MCEntry(1, Sepolia, Shop)>>}
  \cup {<<bad, MCEntry(2, Sepolia, Shop)>> : bad \in MCBadEntries}

MCRequotes ==
  [payTo : {Shop, Elsewhere}, chain : {Sepolia}, amount : {0, 1, 2, 3}]
  \cup [payTo : {Shop}, chain : {Mainnet}, amount : {1, 2}]

MCAllowlist == {Sepolia}
MCSupported == {Sepolia, Mainnet}
MCChains == {Sepolia, Mainnet, OtherChain}
MCPayTos == {Shop, Elsewhere}
MCBalances == {0, 1, 2}
=============================================================================
