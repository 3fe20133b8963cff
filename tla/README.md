# AlphaRouting: a TLA+ model of the repository

AlphaRouting is an Aave V3 liquidation system: a Solidity contract that borrows
by flashloan, liquidates, sells the collateral and repays in one transaction,
and a Rust bot that finds borrowers, watches their health factors and calls the
contract. Around the bot stand small crates it was cut out from: a nonce
allocator, a priority queue, a ring buffer of events and an HTTP API.

The modules here model those parts, TLC checks them on small instances, and
TLAPS proves, for all values of the constants, every invariant, action property
and refinement that a passing run checks. What is only model-checked is liveness.

## Inventory

| part | state | operations | who touches it |
|---|---|---|---|
| `AlphaRouting.sol` | balances, allowances, transient lock/strategy/snapshot, reentrancy guard | `executeLiquidation`, `executeOperation`, withdrawals; seven entry points that always revert | the owner; Aave's pool calls back; routers and tokens are called |
| `liquidator/discovery.rs` | `BorrowerRegistry` and its JSON file | `load_or_default`, `scan_new_borrowers`, `save` | `main`, one task; the operating system, the RPC node and the chain around it |
| `liquidator/main.rs` | the pass over the borrowers, the locals of `check_and_liquidate` | start-up gate, loop, nine awaits | RPC node, the contract, the wallet's pending transactions |
| `liquidator/settings.rs` | the environment variables | `from_env`: eleven variables, checked one after the other | `main`; the operator who sets them |
| `config/chain_spec.rs` | seven constants | look-up, availability predicates | `main`'s start-up gate |
| `script/Deploy.s.sol` | the routers, pool and vault per chain | `run` | whoever deploys; says separately what `chain_spec.rs` says |
| `liquidator/aave.rs`, `select.rs`, `router.rs` | none | decode flags, choose reserves, encode arguments | `check_and_liquidate` |
| `chain/nonce.rs` | atomic counter, mutex-protected pool | `next`, `release`, `reconcile` | any number of tasks (not in the repository) |
| `workers/priority_queue.rs` | heap, counter, capacity | `try_push`, `pop` | any number of tasks (not in the repository) |
| `workers/metrics.rs` | five counters, two averages | `observe_*`, `snapshot` | workers (not in the repository) |
| `observability` | ring of events | `record`, four queries, summary, export | the pipeline writes, `/metrics` and a notifier read |
| `api/lib.rs` | shared handles | five GET handlers | HTTP clients; does not compile in the repository (missing crates) |

How they interact: `main` reads the settings, looks the chain up, and alternates
discovery (which grows the registry and perhaps saves it) with one
`check_and_liquidate` per known borrower. A check makes a chain of requests and
ends in a call of the contract, whose callback does everything or nothing. The
API reads the ring of events that the pipeline fills. The other crates are
libraries: they meet the bot in no file of the repository, so their callers are
modelled from the contract their documentation states.

What is hard here, and what makes each part correct:

- **Contract.** Four external contracts are called between a snapshot and the
  profit check, each may call back, may do part of what it was asked, or revert;
  others may call `executeOperation`, or borrow with this contract as receiver;
  several calls share transient storage. Correct: a liquidation earns at least
  `minProfit` and lowers nothing else, or leaves no trace.
- **Discovery.** A pass may fail half-way, the process may die between any two
  steps, the cache is overwritten in place, the node may lag behind the one that
  reported the head, and the chain may replace blocks. Correct: registry and
  cache hold exactly the borrowers of the blocks they claim, what a replaced or
  unseen block hides stays confined to that block, every borrower is found.
- **Loop.** Every await lets the chain move. Correct: what is sent belongs to
  this borrower and this check, one borrower's failures do not starve another, a
  position that pays is not passed over.
- **Settings and registry.** Each error names one variable or the chain, and two
  tables in two languages describe the same chains. Correct: following the messages
  leads to a bot that runs, and only on a chain whose contract has a pool.
- **Nonces.** `next` is two steps, `reconcile` a compare-and-swap loop on a
  value that is old when it arrives. Correct: one owner per nonce, none lost,
  no hole that stays below a sent transaction, and a task that breaks the contract of `release` harms one nonce only.
- **Priority queue.** A heap is not stable. Correct: serves as a line of waiting
  tasks would.
- **Worker metrics.** Two averages behind two locks. Correct: an average lies among
  its samples, from the first one on.
- **Ring buffer and `/metrics`.** Eviction, and two locked reads in one answer while
  the pipeline records. Correct: queries return the newest of what was recorded;
  an answer adds up, its summary is of one moment and its count of the same or a
  later one, and it comes in any case.

`PROJECT.json` lists each hazard at its line with the properties that cover it.

## Modules

| module | models | extends or instantiates |
|---|---|---|
| `NonceQueue` | `nonce.rs` | implements `NonceLedger`; proofs in `NonceQueue_proofs` |
| `BorrowerDiscovery` | `discovery.rs` and `main`'s calls of it | implements `Watchlist`; proofs in `BorrowerDiscovery_proofs` |
| `AlphaRouting` | `AlphaRouting.sol` | implements `AtomicVault`; proofs in `AlphaRouting_proofs` |
| `ChainRegistry` | `chain_spec.rs`, `Deploy.s.sol` | |
| `Settings` | `settings.rs`, `main`'s checks, `router.rs` | extends `ChainRegistry` |
| `ReserveSelection` | `aave.rs`, `select.rs` as operators | |
| `LiquidationBot` | `main.rs` | extends `ReserveSelection` and `Settings`; proofs in `LiquidationBot_proofs` |
| `Ordering` | what "the n-th" and "the newest" of some numbers are, for the properties below | lemmas in `Ordering_proofs` |
| `PriorityQueue` | `priority_queue.rs` | extends `Ordering`, implements `StableQueue`; proofs in `PriorityQueue_proofs` |
| `WorkerMetrics` | the averages of `metrics.rs` beside the queue | extends `PriorityQueue`; proofs in `WorkerMetrics_proofs` |
| `ReplayBuffer` | `buffer.rs`, `summary.rs` | extends `Ordering`; proofs in `MetricsEndpoint_proofs` |
| `MetricsEndpoint` | `/metrics` of `api/lib.rs` beside the pipeline | extends `ReplayBuffer`; proofs in `MetricsEndpoint_proofs` |

The four abstract specifications are what a component promises: `NonceLedger` (a
nonce changes hands in one step), `Watchlist` (a running bot only adds
borrowers), `AtomicVault` (a liquidation earns or changes nothing), `StableQueue`
(a line of waiting tasks).

Each `MC...` module names the small sets its `.cfg` files use. Next to some
definitions stand *seeded bugs*: the same step as a slip of the pen would have
left it. Nothing uses them but the mutation check, which puts each in the place
of the definition after it and expects a named property to fail.

### Correspondence

**NonceQueue.** `current` and `released` are the fields. `next()` is `NextPop`
(the pool is not empty, one critical section) or `NextMiss` (empty, lock
dropped) followed by `NextFetchAdd`; between the two anything may happen.
`release()` is `Release`. `reconcile(p)` is `ReconcileCall`, then `ReconcileLoad`
and `ReconcileCas` until it returns; `p` is any prefix the chain has reached, so
possibly an old one. `Broadcast` is a caller that spends its nonce, `ForeignSend`
the wallet used by another program; both are external. `StrayRelease` is a
clean-up path that calls `release()` for a nonce that is not its own; a call for
one that is in the pool already does nothing, any other is recorded in `strays`.
There are three next-state relations, each with more of the environment than the
one before: `Next`, `SharedNext`, `StrayNext`.
`NonceLedger` is the promise: a nonce moves between pool, owner and chain in one
step. The mapping reads the owner off the caller's program counter.

**BorrowerDiscovery.** `phase` is where the process is. `Boot` is
`load_or_default`; an unreadable file has no `Boot`, as `main` returns the error.
`BeginScan(h)` is `get_block_number` answering `h`, `ScanWindow` one turn of the
`while`, `ScanFails` the error branch that keeps the finished windows. A request
may be answered by a node that is behind: `BeginScan(h)` with an old head, and
`ScanWindow(seen)` with the logs of the blocks up to `seen` only; `missed` records
which blocks count as scanned although their logs, as they now are, were not
read. `Reorg(n)` replaces the blocks above `n`, whose borrowers go to `orphans`;
with `n = 0` it is also a bot started for another chain over the same file, as the
cache does not say whose blocks it counts.
`SaveTruncate`/`SaveWrite` are the two halves of `fs::write`; `TornWrite` is a
death between them. `CheckAndSleep` stands for the health checks, which
`LiquidationBot` details. Blocks are numbered from 0, a block's logs are the set
of borrowers in it.

**AlphaRouting.** `phase` walks through `executeLiquidation`, the pool's loan, the
callback, `liquidationCall`, the swap, the settlement and the repayment; `journal`
is the state a revert restores. `LiquidationCall(taken, paid)` and
`Swap(taken, paid)` take any part of what was approved and pay any amount.
Withdrawals may be attempted in every phase and fail on the guard.
`Accepts(sender, initiator)` is what `executeOperation` asks of its caller, of the
loan and of transient storage; `ExecuteOperation` is the callback the contract
asked for, `StrayOperation` one that others make, or have the pool make, wherever
code that is not the contract's runs. A refused one reverts and leaves no trace,
so the step is a stutter as long as `Accepts` is as it is in the code; what the
liquidation of an accepted one would do before its last approval is left out.
`AtomicVault` is the promise, with only holdings and the open order as state;
during a call the mapping shows the journal's balances.

**ChainRegistry, Settings.** The registry's entries say whether there is a pool and
a vault, not where; `Routers` is what `Deploy.s.sol` gives the contract. A variable
is unset, unparsable or set; values are kept where something depends on them
(chain, fee, DEX name). `FromEnv` lists the checks of `from_env` in the order they
are made, `InMain` those `main` makes after it, `Checks` all of them; `Complaint` is
what the message of the first failing one names. Two messages of `main` name the chain and no variable;
`VariableOf` is what an operator has to change then, `CHAIN_ID`.
`FeeEncodes` is the 24-bit conversion of `encode_swap_params`, which panics.

**LiquidationBot.** One action per await. `Boot` is possible when there is no
`Complaint`; `Mend` is the operator who sets the variable behind it, so "panicked"
and "down" are both states to start from. `Scan(new)` takes a discovery pass as
"some more borrowers or none" and `Crash(saved)` the end of the process as "the
next one starts from some of them": what a pass finds and a file keeps, and the
torn file after which no process starts, is what `BorrowerDiscovery` is about.
`CheckFails` is any failing request, and giving up on a receipt; the transaction
then stays in `mempool` and the next pass may send another. `SendUnheard` is a
transaction the node accepted and whose answer was lost: it is pending, and `main`
takes the check as failed. `AccountChanges` may happen between any two
steps. `Send` broadcasts only what the gas estimate, which runs the contract,
accepts (`Executes`) and the node has room for; otherwise it is `SendFails`. The
estimate reverts without a pool, on a healthy position, without a router for
another asset, when nothing is seized and when the sale does not bring the loan,
its premium and `MIN_PROFIT`; the last two depend on prices, so an account says for
which pairs and amounts it `pays`. What
a step does not read again is dropped: `Choose` drops flags and balances, `Send`
everything but the borrower, so the model has no states that differ in dead
locals. Transactions of one wallet are mined in nonce order, so the awaited one,
the last, is mined when `mempool` is empty. `seen` is a history variable: the
accounts the borrower had since this check saw it below 1.0.

**ReserveSelection.** A word is the set of its one bits, `Width` the number of bits
kept; `Bit` takes the shift modulo the width, as a release build does. The
choice of reserves is a relation (`Selects`) that holds for the last of several
largest, as `max_by_key` does.

**PriorityQueue, WorkerMetrics.** Each call holds its lock from end to end and is
one action. The heap is a set from which `Pop` takes the entry above all others.
The refinement maps it to `Line(heap)`, its tasks in the order of the entries'
numbers. `Observe(k, x)` is `observe_wait` or `observe_run`; an average is kept as
a fraction whose `unit` grows tenfold with each sample, so a tenth is exact.
`snapshot()` is two actions, as it takes one lock after the other.

**ReplayBuffer, MetricsEndpoint.** `Record` is one action, the buffer's queries are
operators: `Hits` is the pass from the newest event backwards that takes a match
while there is room, `Total` the sum a pass adds up, both recursive functions over
positions. `log` is a history variable with everything ever recorded; the
properties speak of it alone: a query returns `Recorded(Newest(...))`, the events
at the largest matching positions, and a sum is a difference of two running
totals. A mean or a rate is a pair of dividend and divisor. `/metrics` is `Ask`, `Summarise` and
`CountRecorded` (the two locked reads, between which the pipeline records) and
`Answer`. The
handler only reads, so one request at a time stands for any number.

## Runs

| run | question | bounds |
|---|---|---|
| `nonce_safety` | owners, losses, regress, with the wallet shared and nonces released astray | 2 callers, 2 reconcilers, counter to 2, stale seed; callers and reconcilers are symmetric |
| `nonce_live` | refinement of the ledger, no wedge while no dead nonce was issued, `reconcile` returns | 3 callers, 1 reconciler, counter to 2, a seed stale by one (else the exchange is never reached) |
| `nonce_dead_nonce` | *violation*: a stale nonce in the pool is issued for ever | 1 caller |
| `discovery` | exact registry and cache; the watchlist refined; all borrowers found; no saved block scanned again | 2 borrowers, blocks 1 to 3, windows of 2, reorganisations of any depth |
| `discovery_torn_cache` | *violation*: a torn file stops every later start | 1 borrower |
| `contract_safety` | locks, a call's own strategy and snapshot, allowances, atomicity, with callbacks of others | 2 tokens, 1 DEX and an unknown one, loans to 2, balances to 3 |
| `bot` | targets, chain, start-up, polling, underwater positions that pay | 2 borrowers with 3 and 2 accounts, 2 reserves, width 4, 4 settings, 2 pending transactions of one borrower and 1 of the other |
| `bot_unmined` | *violation*: an unmined transaction stops the polling | 1 borrower |
| `bot_preview` | *violation*: a Preview chain is traded on | 1 borrower, 2 chains |
| `bot_wide_list` | *violation*: more reserves than the decoder has bit pairs | 3 reserves, width 4 |
| `workers` | refinement of a stable bounded line; averages among their samples | 2 items, 2 priorities, capacity 3, 4 entries, 2 samples of each kind |
| `metrics` | queries against the history; answers add up, are of their moments, and come | capacities 0, 2, 3, 4 events of 4 kinds, with and without buffer |

Why these bounds are enough to be interesting: two callers and two reconcilers
are the least with which an exchange can fail, twice; a third caller is what it
takes to send above a hole while another holds a nonce the chain has passed, and
with it that nonce starves the hole: `NoWedge` is therefore stated for behaviours
in which no such nonce is issued, and `nonce_dead_nonce` is about the others;
three blocks with windows of
two give a full window, a short one and a pass that fails between them, and a
reorganisation within, across and beyond what was scanned; loans to 2 with
balances to 3 leave room for partial fills in both directions; the accounts are
one healthy with dust, one with two debts and two collaterals that pays, the same
that does not pay in the pair the bot chooses, and one whose larger balance is not
enabled as collateral, so that reads of different moments give every kind of
mixture and the estimate refuses some of them; the settings are a fee too wide, a DEX nobody routes, a
chain without a pool, and one with seven variables unset, unparsable or wrong,
and mending leads through their combinations; two pending transactions of one
borrower are a receipt given up and another decision; four events wrap a ring of
two, and one of one, more than once.

Every counter's bound is a constant (`MaxNonce`, `MaxBlock`, `MaxReorg`, `MaxBalance`,
`MaxPending`, `MaxSeq`, `MaxSamples`, `MaxRecorded`) and named in a guard.
Deadlock is checked except in the two discovery runs: with a torn cache and a
chain at its last block nothing can happen any more, which is what
`discovery_torn_cache` is about.

### Fairness

- *Nonces.* A task inside `next` or `reconcile` is scheduled (weak fairness of
  its steps). A nonce that is issued again and again is broadcast in the end
  (strong fairness per nonce): the program keeps trying and not every attempt is
  aborted. Nothing is assumed of who gets it.
- *Discovery.* The process runs and is restarted (weak); a request that is
  repeated succeeds in the end (strong, `BeginScan` at the true head and
  `ScanWindow`); crashes and failed saves stop in the end, otherwise nothing can
  be promised. `EveryBorrowerWatched` needs an intact
  disk and says so (`SteadyDisk`), and owes nothing for blocks that were replaced or
  hidden after the registry went past them.
- *Loop.* The process runs (weak fairness of `BotStep`, which has no failing
  step): this takes every request to be answered or to fail, which is not the
  bot's doing, as neither `main` nor its RPC client sets a deadline; a receipt is
  the exception, and may not come; crashes stop; requests about borrowers in `Answered` succeed in the end
  (strong, per request); requests about the others may fail for ever. Mining is
  fair only in `LiveSpec`; `bot_unmined` shows that polling depends on it. The
  operator reacts to an error in the end (weak fairness of `Mend`).
  `UnderwaterIsSent` speaks of a position that stays as it is and whose liquidation
  pays; one that does not bring `MIN_PROFIT` is refused by every estimate. A fee that
  does not fit ends the process at every position found, so the properties about
  polling are stated for fees that do (`FeeEncodes`).
- *Metrics.* A request that is being handled goes on (weak fairness of `Handle`);
  the pipeline need not pause for it.

Nothing forces a caller, an owner or the chain to act otherwise.

## What the violation runs show

1. `nonce_dead_nonce`: `next()` prefers the smallest pooled nonce and
   `reconcile()` never cleans the pool, so a nonce the chain has passed is handed
   out first for ever (`nonce.rs:43`).
2. `discovery_torn_cache`: `save()` overwrites in place; a half-written file makes
   `main` exit at every start (`discovery.rs:50`).
3. `bot_unmined`: `get_receipt()` has no deadline and the whole loop awaits it
   (`main.rs:136`).
4. `bot_preview`: `status` is never read; BNB Chain is `Preview` and has a pool
   address, so the bot trades there (`main.rs:28`).
5. `bot_wide_list`: from reserve 64 on the decoder reads the bits of another
   reserve (`aave.rs:53`). `TargetOfThisCheck` and `LargestIsTargeted` are stated
   for lists the decoder covers.

Seen while modelling and not given a run:

- A caller that saw the pool empty takes a fresh nonce although one was released
  in between, against "drains the release pool before falling through"
  (`nonce.rs:37`); a repeated `release()` after the nonce was issued again gives it
  two owners, against "idempotent" (`nonce.rs:50`).
- The start block itself is never scanned (`discovery.rs:36`, 77). A block replaced
  after it was scanned is not looked at again. The cache file does not name its
  chain. A pass without new borrowers is not saved (`main.rs:49`), so a restart
  repeats it.
- Base Sepolia can be deployed to (`Deploy.s.sol`) and is in the repository's
  README, but the bot does not know it.
- A fee of 2^24 or more passes the settings' checks and panics when the first
  position is found, and again after every restart (`router.rs:26`). A DEX name
  nobody routes passes them too; its estimates revert.
- A position below 1.0 that does not bring `MIN_PROFIT` is estimated and refused on
  every pass (`AlphaRouting.sol:386`); nothing remembers that it did not pay.
- What a router leaves of its allowance stays standing (`AlphaRouting.sol:398`):
  only the pool's is overwritten.
- An account that keeps changing may be passed over, as its reserves are read one
  by one.
- `AppState.observ` "is None until the executor task starts" (`api/lib.rs:28`), but
  each handler gets a clone of the state the server was started with, so one that
  starts without a buffer answers without it for ever.

## Proofs

All for arbitrary constants under the modules' `ASSUME`s, which only give their
types (and, for nonces, that the seed is not ahead of the chain; for accounts,
that one without debt is healthy; for lower case, that it stays the same when
applied twice).

- **`NonceQueue_proofs`**: `TypeCorrect`, `OwnersAreUnique`, `NothingIsLost`,
  `CounterNeverRegresses` of `StraySpec`, that is with the wallet used elsewhere and
  nonces released astray; `ImplementsLedger` of `SharedSpec`. `OneOwner` is inductive
  with the types. `NoNonceLost` is not: it needs that a reconciler about to
  exchange has a goal the chain has reached (`Contiguous` is monotone) and that the
  counter it read is not above the goal. The refinement has one step per action;
  only `NextPop`, `NextFetchAdd`, `Release`, `Broadcast` and a successful exchange are
  steps of the ledger. `LostRoundsAreProgress` is the safety part of
  `ReconcileReturns`: with the invariant that no task has read a number ahead of
  the counter, a failed exchange means the counter has gone up since it was read
  and is still to reach the goal, so there are finitely many.
- **`BorrowerDiscovery_proofs`**, of `Spec`, with torn writes, crashes, lagging nodes
  and reorganisations: `TypeCorrect`, `RegistryIsExact`, `CacheIsExact`,
  `RestartsResume`, `ImplementsWatchlist`. The first two invariants are proved
  together, with two strengthenings: registry and file claim no block beyond those the chain can
  have, and the file is not ahead of the process (`Bounds`); a claimed block that is
  not mined yet, after a reorganisation, is marked as missed, so that what is
  mined in its place breaks no claim (`Unmined`). A window's union is split at its
  ends by a lemma. `RestartsResume` follows from them block by
  block: once block n is in the file, the file, when whole, and the registry of a
  process that runs reach n (the file is not ahead of the process), and every step
  keeps that; a torn file has no start. The refinement needs no history: a start
  takes over what the file holds, which is what the mapping shows of a process
  that is down. Of the liveness property two parts are proved: a window always
  advances towards the target of its pass and no block is taken back
  (`ScansAdvance`), and a file is torn by a death inside `fs::write` and by nothing
  else (`DiskIsSteady`), which says when its condition `SteadyDisk` is met.
- **`AlphaRouting_proofs`**, of `Spec`: `TypeCorrect`, `LocksAreReleased`,
  `PoolAllowanceIsConsumed`, `ImplementsVault`. The invariant says where the money
  is in each phase relative to the journal: which balances equal the journal's,
  which may only have grown, and that from settlement on the debt asset exceeds
  the snapshot by premium and profit, that the strategy and the snapshot are this
  call's own. A revert is a stutter of the vault, a repayment its one step, and a
  callback of others is refused in every phase (`StrayRefused`), with the lock set
  or open.
- **`LiquidationBot_proofs`**, of `Spec`, with every request failing, crashes and
  accounts that change at any moment: `TypeCorrect`, `TargetsAreOfThisCheck`,
  `TargetsAreLargest`, `ChainsAreAsDeployed`. What is sent is a promise about locals that are dropped
  when it is chosen, so the invariant follows them through the check: nothing is
  kept between checks, the current account is always among those seen, each flag
  and each balance read was true in one of them -- in all, if there is only one.
  The lemma `Decoded` shows that the decoder's bits do not overlap while the list
  fits the width. `ChainsAreAsDeployed` rests on the order of the checks only in
  that a least failing check exists if any fails. Three theorems are about what the
  liveness properties need: `UnderwaterGetsATarget` (the same invariant, and the
  lemma that `max_by_key` of a nonempty list finds an element, whatever ties there
  are: no position that stands still is answered with `None`), `PassesComeToAnEnd`
  (borrowers, requests and reserves left shrink in lexicographic order, errors
  included, so only a request that hangs holds up a pass) and `MendingComesToAnEnd` (setting the variable behind the message
  leaves strictly fewer checks failing, although checks share variables).
- **`Ordering_proofs`**: what putting a member into a finite set of numbers, or taking
  one out, does to the rank of the others, to the n-th and to the newest n. The
  provers cannot instantiate the library's induction theorems; where a lemma goes
  by induction, it looks at the least number for which it fails (`LeastNumber`,
  which rests on the well-foundedness of `<`), and `UpTo` packs this as an
  induction over a set.
- **`PriorityQueue_proofs`**, of `Spec`: `TypeCorrect`, with the fact that the counter is
  above all numbers in the heap (`Numbered`), and `ImplementsLine`. An accepted
  entry has the largest number, so the line becomes one longer (`LineGrows`);
  removing the entry of rank n removes position n and moves the later ones up
  (`LineShrinks`); the entry above all others is the first of those with the
  highest priority because ranks and numbers are ordered alike (`TakesServe`).
- **`WorkerMetrics_proofs`**, of `WorkersSpec`: `AveragesStayAmongSamples`, for any
  samples in any number. Inductive with the fact (`Sound`) that units are positive and
  that every sample averaged was observed, for both averages and for what a
  snapshot has read. `QueueIsUndisturbed` carries the queue's theorems over: a step of the
  averages is a stutter of the queue.
- **`MetricsEndpoint_proofs`**, of `ServerSpec`: `TypeCorrect`; `TheNewestAreKept` (the
  deque is the end of the log, by cases on whether it is full); `CountsAreOrdered`
  (the buffer never shrinks between the two reads); `AnswersAddUp` (an event has one
  outcome, so the five counts are disjoint parts of the total).
  `QueriesAreExact`: the pass backwards over the deque, after k events, holds
  `Recorded` of the newest matching positions among the last k, and the step to
  k + 1 puts in a position below all the others or does not, as
  `NewestWithSmallest` says. `AnswersAreOfTheirMoments`: the invariant `OfItsMoments`
  keeps the n at which the summary was taken and, once the events are counted, the
  m at which they were; what was held then stays what it was when more is recorded
  (`HeldStays`), a count over a deque is the number of
  positions, a sum a difference of running totals. A recursive function is a
  `CHOOSE`; the proofs exhibit a solution of its equation and then read the
  equation off it (`SumsExist`, `SumsAreUnique`).

Only model-checked, as fairness and `ENABLED` are beyond the prover: the liveness
properties `NoWedge`, `ReconcileReturns`, `EveryBorrowerWatched`,
`StartsWhenMended`, `EveryBorrowerPolled`, `UnderwaterIsSent`, `EveryRequestAnswered`;
and what the violation runs refute. The theorems named above as parts of
liveness say that the steps go in the right direction, not that they are taken.

## Not modelled

- The five counters of `WorkerMetrics`: nothing in the repository changes them.
- `/health`, `/stats`, `/routes`, `/trades` and the HTTP pool behind `/metrics`: each
  forwards one call to a crate that is not in the repository; so does the last block
  of `/metrics`, whose `sanitize_url` keeps scheme, host and port of an endpoint:
  whether a key is among them is the provider's choice, and nothing the code decides.
- The JSON export of the buffer, the Telegram text of a summary, log messages:
  layout.
- ABI encoding (`sol!` bindings): a library's. Rounding of floating-point numbers.
- The contract's entry points that always revert, and its constructor beyond which
  routers, pool and vault it is given.
- `oracle_boundary_trigger_available`, `len`, `is_empty`, `peek` and similar readers
  without a caller.
- The mocks of the contract's tests: the model has an environment of its own that
  may do part of what it is asked, call back, or revert.

## Plan

Done: nonces, discovery, contract, loop and selection, queue and buffer; then
releases astray, reorganisations and lagging nodes, settings and the two chain
tables, the averages, the handler of `/metrics`, and the proofs of every safety
property the runs check. What is left:

1. Compose `LiquidationBot` with `AtomicVault`: a broadcast liquidation, mined late,
   twice or never, changes the vault by profit or not at all.
2. Several handlers of `/metrics` beside an export, should the server get state of
   its own.
