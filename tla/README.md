# Formal models of standing-intent

TLA+ models, TLC runs and TLAPS proofs for the payment path (`payments/`) and the
evaluation harness (`evals/`) of this repository. Every module names the file it
models in its header; `PROJECT.json` maps every definition to the source lines it
translates, and lists the runs, the mutants that show each property can fail, the
hazards, the findings and the theorems.

To check a module: `tlc -config X402Pay.cfg MCX402Pay.tla`. To check its proofs:
`tlapm X402PayProofs.tla`.

## 1. Inventory

| Component | State it keeps | Operations | Modules |
|---|---|---|---|
| `payments/client.py` | locals of one `pay()` call | probe, pre-flight, sign and pay, read the answer | `X402Pay`, `PaymentPromise` |
| `payments/settlement.py` | locals of the receipt loop | poll endpoints, compare the transfer | `Settlement` |
| `payments/errors.py` | none | the taxonomy of outcomes | results in `X402Pay`, `SpendPermission` |
| `payments/spend_permission.py`, `spend_router.py` | none; the chain's | provision, register, spend, route, revoke | `SpendPermission` |
| `payments/wallet.py`, `chain.py` | the nonce, on chain | balance, broadcast, wait for a receipt | parts of the above |
| `evals/executor.py`, `environments.py` | attempts per vendor | `pay()` of either executor | `SyntheticRun`, `LiveRun`, `PlannerRun` |
| `evals/harness.py` | record per trial, outcomes | recording view, trial loop, report | `Harness` |
| `evals/guardrail.py` | none | `check_purchase`, `check_not_duplicate` | `Policy`, `Harness` |
| `evals/grading.py` | locals of `grade()` | pair claims, judge | `Grading`, `GradingCall` |
| `evals/agents/claude_planner.py` | locals of `run_task()` | ask the LLM, check, pay | `PlannerRun` |
| `evals/agents/stub.py` | none | escalates | a behaviour of `Harness`'s agent |
| `evals/models.py` | none | task and report records | records in `Policy`, `Harness` |
| `scripts/run_*_evals.py` | report files, shared | loop over tasks, write a report each | `Reports` |
| `evals/ml/reliability.py`, `scripts/report_vendor_reliability.py` | posteriors of one run | list, read and fold the reports | `Reports` |
| `evals/stats.py`, price classifier | none | numeric | not modelled |
| `payments/testing/`, `docs/archive/probe/`, `tests/` | | | not modelled |

How they interact. An agent is called by `run_eval` with a view whose `pay()` checks
for duplicates, calls an executor and appends what it returned to a record the agent
cannot reach. The synthetic executor sells from the catalog of the task; the real one
calls `payments.client.pay()`, which probes the seller, lets the x402 SDK sign an
EIP-3009 authorization and send it, reads the settlement header and verifies the
transaction on chain. The facilitator redeems the authorization whenever it likes
until it expires. `grade()` compares the agent's claims with the record, and
`run_eval` aggregates. The spend-permission calls are used by themselves: each
broadcasts one transaction from the owner's or the spender's wallet and waits for
its receipt. The scripts are processes of their own that share a directory: two write
reports into it, a third reads them all.

What is hard. The program has no threads of its own, yet money moves on the
facilitator's and the chain's clock, not on the program's: between two steps of
`pay()`, after it has raised, while the harness has moved on, between a dry run and
the block. Answers are lost after the effect. Retries meet what they retry. Records
made on return miss what happens on a raise. A report is emptied before it is written,
and read while others are written. `PROJECT.json` lists these hazards at
their lines with the properties that watch them.

What correctness means, per component:

- *client*: refusals are clean, no more than the quote is drawn, "paid" is backed
  by the chain, no reported hash is lost, every call ends.
- *settlement*: the loop ends; a mismatch has a cause.
- *spend permission*: failures move nothing, successes are done, a retry of what is
  still under way does not pay twice, a registered permission is usable.
- *harness*: the record matches the debits, no vendor is paid twice, the report
  counts what happened, faults stay within a trial.
- *grading*: an agent is a misreporter exactly when no pairing backs its claims.
- *planner*: whatever the language model says, the policy holds, and a report of
  the planner misses no debit.
- *scripts, reliability*: a finished report stays; a score counts each file once; a
  file that is no current report costs only its own observations.

## 2. Modules

```
PaymentPromise                      what pay() promises about money
   ^ implemented by (PromiseIsKept, KeepsPromise)
X402Pay  EXTENDS Settlement         one call of pay()

Policy <- Grading <- GradingCall    grade() alone
             ^
          Harness <- SyntheticRun  <-.
             ^                       PlannerRun, an INSTANCE of both
          LiveRun                  <-'
             an INSTANCE of PaymentPromise per call

SpendPermission                     calls against one permission
Reports                             the scripts and their report files
```

`X402Pay`. `pc` is the place in `pay()`; one action per early return, raise or
request. `ProbeFails`, `ProbeRefused` and `ProbeAccepted` are `inspect_offer` and the
local checks in their order; `Satisfiable` and `Best` are `_offer_from_entry` and the
`min()` of `parse_terms`. `Sign` is the SDK inside `session.get`: it signs the terms
of a *second* answer of the seller, limited by `SpendControl`, with payee and chain as
they come. `PaidResponse` may carry any status and any settlement header, and so may
`UnpaidResponse`, the answer of a seller that no longer asks for a payment.
`ProbeFails` and `BalanceUnavailable` include the untyped exceptions over terms or a
balance that do not decode (`DecodeError`), before anything is signed.
`SettlementClaimed` starts the polling of `Settlement` (`endpoint`, `tries`,
`reachable` are the loop's locals), and `ReceiptRead` holds the checks after it.
`Settle`, `Revert` and `Expire` are the environment; they are enabled in every step
from the signature on, also after the call has ended. `result` is what the caller gets.

`PaymentPromise` is the abstract specification: at most one price, at most one
authorization within it, redeemed at most once and whole, and three kinds of report.
`X402Pay` implements it with `Moved` and `Told`; `LiveRun` uses it instead of
`X402Pay`, so a state space of agents and trials need not carry HTTP and RPC.

`Policy` holds the pure functions of a task: `in_policy_vendors`,
`in_policy_candidates`, `cheapest_in_policy_vendor`, both halves of `check_purchase`,
`check_not_duplicate`.

`Grading` is `grade()`: `PairClaim` and `RejectClaim` are an iteration of the loop,
`GradeTerminal` what follows it. `pairing` is an auxiliary variable that remembers
which execution backed which claim. `GradingCall` closes it over arbitrary inputs.

`Harness` is `run_eval` and `_recording_view` with an arbitrary agent; `phase` says
who runs. `spent` is an auxiliary variable: what the executor really debited, which
the harness cannot see and the properties are stated on. `PassK` is `pass_k` as a
fraction. `SyntheticRun` adds the synthetic executor and its attempt counters;
`LiveRun` adds the real executor, authorizations that outlive their call
(`outstanding`) and their late redemption.

`PlannerRun` is `run_eval` with `claude_planner.run_task` and an arbitrary language
model. It instantiates both executors' modules over its own variables and lets the
task's environment choose (`Synthetic`, `NoWallet` is `resolve_executor`'s error). Each
way `run_task` can end is an action: `NoCandidates`, `LlmEscalates`, `LlmFails`,
`PickIsNotOffered`, `PickIsAnomalous`, `PlannerReturns`, and `PayRaised` for what it
does not catch. `PlannerIsAnAgent` says that its behaviours are behaviours of
`SyntheticRun`, or of `LiveRun`.

`SpendPermission` gives each call a `step`, its operation, its wallet (`sender`),
transaction and nonce. The account's owner deploys it; any other call may be made from
either wallet, and the contracts refuse those of the wrong one.
`ChainRefused`, `NoRpcReachable`, `Start`, `Proceed`, `ReadNonce`, `Broadcast`,
`ReceiptMissing`, `ReceiptTimesOut`, `ReceiptRead` are the common skeleton, one
request of the node each; `DryRunReverts` belongs to `spend()`, `ReadApproved` and
`ReadRevoked` to `register_spend_permission`. Between `ReadNonce` and `Broadcast`
(`send_transaction` also asks for the gas price there, which may fail) any other call
may go on and any transaction may be mined. The contracts, the mempool and the blocks
are external and follow the code's comments: `approveWithSignature` mines without
effect on a revoked permission; a spend outside the permission's start and end
reverts. The node refuses a nonce that has been used; a second transaction with a
pending nonce it refuses or takes, and then either of the two may be mined, whichever
the mempool keeps. `polls` is the loop variable of `wait_for_receipt`. `racing` is an
auxiliary variable: the calls of the same wallet that were under way when this one
read its nonce.

`Reports` has one `step` per script. `Evaluate` is `run_eval` with any outcome it may
have, and the opening of the report's file, which empties it; `Write` is the rest of
`write_text`. `Stop` may come at any point of the loop: an exception and a killed
process look the same from the directory. The reader lists the files (`Glob`), then
takes them one by one in the order of their paths (`SkipFile`, `FoldFile`), until a
read raises what no handler is for (`ReadFails`). `versions`
is an auxiliary variable: the contents each listed file has had while it was reading.

Eight modules hold the proofs: `X402PayProofs`, `GradingProofs`, `SpendPermissionProofs`
and `ReportsProofs`, each beside its module; `HarnessProofs`, and on top of it
`SyntheticRunProofs`, `LiveRunProofs` and `PlannerRunProofs`.

Operators whose comment begins with "A mutant" are not part of a model. Each is a
plausible bug, paired in `PROJECT.json` with the property that catches it.

## 3. Runs

| Run | Shows | Bounds | States |
|---|---|---|---|
| `x402_pay` | all outcomes of one call, its end, and the refinement of `PaymentPromise` | amounts 0..3 around a cap of 2; two payees, three chains; two transactions; two endpoints with two tries | 43,314 |
| `grading` | `grade()` ends in a verdict, the pairing is complete | two vendors, amounts 1..3, cap 3, up to two purchases and three claims | 97,128 |
| `synthetic_run` | gate, faults per trial, report | three trials of three calls; a flaky, a down, an over-cap and an out-of-policy vendor, and an id listed twice | 226,506 |
| `planner_run` | the policy holds for any LLM; the report counts every debit; the planner is an agent of `SyntheticRun` and `LiveRun` | two trials; 2 x 3 x 2 first vendors with five others, three allowlists, two multipliers; six live catalogs with amounts 0..3 | 60,936 |
| `live_run` | the record is backed, and complete without unresolved calls | one trial of three calls, two vendors and a stray URL, amounts 0..2 | 909,759 |
| `spend_permission` | failures, successes, stale and shared nonces, read-back, termination | two overlapping calls of any kind from two wallets; allowance 2, funds 3, one period and the time after the end; amounts of half a unit and of two and a half; two polls | 1,095,335 |
| `reports` | finished reports stay, scores count each file once, no content of a file prevents the report | two scripts, of one agent or two; two synthetic tasks and a real one; two dates; two old files, one of an older schema | 574,810 |

Why the bounds suffice. A violation of `x402_pay`'s properties needs one offer below,
at and above a limit, one wrong payee or chain and one transaction beside the reported
one; two endpoints and two tries give a first, a last and an intermediate poll. Greedy
pairing first goes wrong with two executions and two claims within a tolerance of both.
Faults leak from a trial to the next, so two trials do, and a third tells pass^2 from
the square of pass^1; a retry after a failure and a second purchase need three calls.
The planner makes one call per trial; two trials let a late redemption fall into the
trial after its call. Two calls suffice for every race of
`SpendPermission`, whose calls interact pairwise through the permission and the nonce;
two polls give one that is followed by another and one that is the last. That a new
period also resets what is spent is covered by the proofs, for any `Periods`.
In `live_run` one trial is enough because the view and the record are made anew in
each trial and `LateRedeem` is bound to the trial of its call. In `reports` a file is
replaced by a script of the same agent on the same day, and added by any other; two
writers and two dates give both, while the reader is anywhere in its list.

What `reports` does not promise: two runs of one agent on one task and one day share a
path, and the later report replaces the earlier. The filename comments of both scripts
speak of the two agents only, and `EvidenceOnDisk` is stated accordingly; that
`scripts/report_vendor_reliability.py` calls the directory "real memory across runs"
(lines 6-8) is true of runs on different days.

What `RetryPaysOnce` promises, and what not: of two calls of one wallet, the second of
which read its nonce while the first was under way, one is executed at most. A retry
after `SettlementNotConfirmed` is thereby safe as long as the first transaction is not
mined when the retry reads its nonce. Once it is, the retry is a payment of its own:
the caller has to look at the hash first.

What `planner_run` says of a live price: only the cap binds it. The sanity multiplier is
applied to the catalog's price (`evals/agents/claude_planner.py:14-16`), and
`PlannerStaysInPolicy` asks of a live debit that the *listed* price was sane and the
debit within the cap. It is stated for catalogs whose ids are distinct: with an id
listed twice the guardrail judges the first entry and the synthetic executor sells the
last. `PlannerReportIsExact` holds on the real executor, where `BudgetCountIsExact`
fails for other agents, because `run_task` lets the exception end the run.

Five more runs show a statement of the repository that the code does not meet
(`findings` in `PROJECT.json`):

- `raw_transport_error`: the paying request may raise an untyped exception after the
  authorization was sent (`payments/client.py:219`).
- `reverted_receipt`: status 0 becomes `SettlementMismatch`, documented as
  `SettlementNotConfirmed` (`payments/errors.py:73`).
- `lost_broadcast`: a lost answer to a broadcast escapes as a bare error without the
  hash, and the transaction lands (`payments/wallet.py:86`).
- `double_buy`: the duplicate gate sees only calls that returned; a payment that
  settled and then raised can be made again (`evals/harness.py:43`).
- `missed_overspend`: the budget count is made of the same record
  (`evals/harness.py:133`).

The last two disappear when no call is left *unresolved*: `RecordIsComplete` and
`BudgetCountIsExactIfResolved` hold, so errors of the refusing kind are safe to retry.

Deadlock checking is off: a call that has returned, a graded trial and a finished or
aborted run have nothing left to do.

## 4. Fairness

`X402Pay!FairSpec`: weak fairness of the client's steps. Each request has a timeout
(`timeout=` of `requests`, 20 s of the RPC providers) and each loop a bound, so the
client always goes on. Nothing is assumed of the seller, the facilitator, the chain:
`PayReturns` holds although no receipt may ever appear. `SpendPermission!FairSpec`
does the same per call: `CallsReturn` rests on the counting of the polls, those that
fail included. And `PlannerRun!FairSpec` is for the
single-threaded program, whose LLM call and executor return or raise (`PlannerEnds`);
the facilitator's redemption is under no obligation. `Reports!FairSpec` is weak
fairness of the reader, a loop over a finite list; the scripts may stop anywhere
(`ReportIsPrinted`: the report is printed unless a read itself fails).

## 5. Proofs

`X402PayProofs`, for any menu, re-quote, allowlist, number of endpoints, tries and
transactions, from `PollingAssumption` and `PayAssumption`. The properties are not
inductive: that a paid outcome is backed by the chain says nothing of the states
before the receipt was read. `IInv` adds what is known at each point:

- `OfferInv`: past the pre-flight, the offer is within the cap and the allowlist;
- `AuthInv`: an authorization exists only past the signature and is within the offer;
- `ChainInv`: a transaction exists only for a signed authorization, carries its
  transfer or none, and a redemption closes it;
- `StageInv`: what the stages before the verification know of response and result;
- `ResultInv`: what each kind of result leaves behind.

Each action preserves it by stages (`ProbeStep` ... `MineStep`). All six invariants of
the run follow, and `PromiseIsKept` proves the refinement: `QuietStep` for the steps
that are stutters of the promise, `EndingRefines` for the returns and raises,
`EnvironmentRefines` for the redemption.

`GradingProofs`, for any tasks, records and claims, from `GradingAssumption`: records
hold no vendor twice. `PairingInv` says that `remaining` is exactly what the pairing
does not name, that the pairing is injective and that each pair backs its claim. As
vendors are distinct, at most one execution can back a claim at all: so when none
remains for a claim, either none exists or another claim *has to* use it
(`UnmatchedIsIrreconcilable`), and first-match is complete
(`GreedyPairingIsComplete`). The harness provides the assumption: `DistinctVendors` is
an invariant of both executors' modules (below).

Sums over lists and sets, and lists filtered or mapped, are defined by recursion in
the community modules, and the library's induction theorems take an operator as a
parameter, which the provers cannot instantiate. `HarnessProofs` and `ReportsProofs`
argue instead by the *least counterexample* to a claim about a set of numbers
(`LeastNumber`) or a *smallest* one among finite sets (`SmallestSet`), which need no
parameter. From these follow what `SumOf`, `DebitsOf`, `Total` and factorials compute.

`HarnessProofs`, for any tasks, agents, numbers of trials and calls, from
`HarnessAssumption` and `TaskAssumption` (what the task models validate), is shared by
the three modules that follow:

- `HarnessInv`: where `run_eval` is (`PhaseInv`), whether a call is in progress
  (`CallInv`), that the record is a list of verified purchases and a verdict is one
  that `grade()` gives on it (`RunningInv`), for the trials past as well
  (`TrialsInv`), and that the report is the one made of them (`ReportInv`). One lemma
  per action.
- *What the report says.* `RecordsAreExact`, that each trial's record lists the real
  debits in order, implies the four properties of the report: `BudgetIsCounted`,
  `PassIsOnePurchase`, `VendorsAreCounted`, `CapturesWereBought`. An executor has to
  establish `RecordsAreExact`, and only that.
- *pass^k.* `ChoicesAddUp` is Pascal's rule for quotients of factorials,
  `ChoicesAreCounted` says by it that they count the k-element subsets, and
  `PassKCounts` that `PassK` is the share of those that lie within the passed trials.

`SyntheticRunProofs`: `AttemptsInv` ties the executor's counters to the calls and to
the purchases of the trial (a vendor has sold exactly when its attempts exceed its
faults); it is what makes a second debit impossible and `FaultsPerTrial` true.
`MoneyInv` says `RecordsAreExact` and that no record repeats a vendor. Every invariant
of the run follows; no hypothesis on catalogs is needed, ids may be listed twice.

`LiveRunProofs`, from `LiveAssumption`, for redemptions at any time: `PromiseInv` is
what `PaymentPromise` says of the call in progress, `OutstandingInv` that what
outlives a call belongs to a trial marked `unresolved`, and `MoneyInv` that the debits
of a trial *back* its record, one each, and are the record and nothing else if no call
of the trial is unresolved. Between redemption and return the debit is ahead of the
record, so the invariant speaks of the record as it will be (`Owed`).
`VendorsAreDistinct` has a hypothesis, `ProperNames`: a catalog names each vendor
once. It is needed: `RealX402Executor` refuses shared URLs, not shared ids, and the
gate compares URLs, so two entries with one id may both be bought. `GateInv` is its
invariant: each purchase has the vendor of its URL, and no URL occurs twice.

`PlannerRunProofs`, from `PlannerAssumption`, on both executors. `PlannerReportIsExact`
rests on: the planner calls once in a trial, on an entry that was let through
(`PlannerCalls`); records hold at most one purchase, within the cap (`HonestInv`);
claims are what was executed (`ClaimsInv`); and as long as no call has raised the
debits are the records (`ExactInv`). `StaysInPolicy` adds `PolicyInv`: each debit, and
each authorization left behind, is of an entry that the mandate allows. Its hypothesis
`ProperCatalogs` (distinct ids, none of them a URL) is needed for the reason given in
section 3. `IsAnAgent` is the refinement: every step of the planner is a step of an
agent of `SyntheticRun` or `LiveRun`, or of the executor and harness they share. Its
hypothesis `AgentInputs` says that the inputs those modules let an agent choose from
include the planner's.

`SpendPermissionProofs`, for any number of calls, amounts, allowance, funds and
periods, from `SpendAssumption`: `StageInv` relates a call's place to its transaction,
`EffectInv` a transaction to the debit and the permission, `ResultInv` a result to
the transaction behind it. `NonceInv` is what excludes a second payment: a nonce that
was read is never ahead of the chain, an executed one is behind it and used once, and
what was under way when a call read its nonce had a nonce no greater, hence, if it is
executed later, the very same (`MinedKeepsNonces`), and then the call's own transaction
is not. All four invariants follow, `RetriesPayOnce` among them, and the action
property `RegisteredIsUsable`.

`ReportsProofs`, for any scripts, agents, tasks and days, from `ReportsAssumption` and
`EvidenceAssumption`. `EvidenceOnDisk` needs that the files of different agents and of
different tasks have different paths and that a script goes through its tasks in order
(`ScriptsInv`), so nothing empties what is finished (`DiskInv`). `ScoresAreWithinEvidence`
gives bounds; what is inductive is an equation: there is a choice `seen` of one
content for each file read, which the file had since the listing, and each posterior
is the prior plus the exact sum over `seen` (`Counted`, `ScoreInv`). The bounds
follow, as each content lies between the least and the most that its file held.

The hypotheses are met by the instances that TLC checks. Model-checked only: liveness
(`PayReturns`, `CallsReturn`, `PlannerEnds`, `ReportIsPrinted`), as fairness is beyond
the prover. Every other property of the passing runs is a theorem.

## 6. Assumptions and limits

- The facilitator is honest: a hash it reports is of a transaction submitted for this
  authorization, or of none that reaches the chain. `verify_settlement` does not look
  at the authorization's nonce.
- Amounts are whole atomic units in `X402Pay`; `SpendPermission` has fractions, as
  `int()` truncates there. Requotes are in the pinned token.
- `SpendPermission` is about one permission, so one salt; what a signature signs,
  custodial forwarding and the Solidity code are outside. The forwarding transaction
  of the open-ended path is not part of this code base.
- The agent makes at most `MaxCalls` calls in a trial. `Periods` bounds the periods.
- `LiveRun` takes `pay()` by its promise, with every call's cap the mandate's.
- The nodes that `SpendPermission`'s calls ask agree on the blocks, and a refused
  transaction is in no mempool.
- `Reports` takes a file as empty, whole, or of another schema; a file that is deleted,
  or cut within a character, is a read that fails (`ReadFails`).
  `run_eval` is one step there, with the outcomes a run of the agent may have.
- Not modelled: Pydantic validation, seeds, touchpoints and costs (data that no later
  step depends on), confidence intervals (real arithmetic with square roots), the
  price classifier (a numeric model no component uses), encodings and signatures,
  prompts, the test seller (a test double; the models give a seller every answer it
  could give), the archived probe (nothing imports it).

## 7. Plan

Done: `PaymentPromise`, `Settlement`, `X402Pay` with proofs; `Policy`, `Grading`,
`GradingCall` with proofs; `Harness`, `SyntheticRun`, `LiveRun`, `PlannerRun` on both
executors; `SpendPermission` with two wallets; `Reports`.

Proved: every invariant and every action property of the passing runs, and both
refinements (`PaymentPromise` by `X402Pay`; `SyntheticRun` and `LiveRun` by
`PlannerRun`).

Next:

1. Weaker hypotheses where the code allows them: `StaysInPolicy` on the real
   executor, which does not look ids up, and `VendorsAreDistinct` per task.
2. Fewer and shorter leaves in `PlannerRunProofs` and `ReportsProofs`, the longest.
