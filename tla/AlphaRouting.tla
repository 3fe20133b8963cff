----------------------------- MODULE AlphaRouting -----------------------------
(***************************************************************************)
(* The contract src/AlphaRouting.sol during executeLiquidation and the     *)
(* owner's withdrawals.  A transaction is a sequence of steps separated by *)
(* the external calls it makes; at each of them other code runs and may    *)
(* call the contract again.  Aave, the routers and the tokens are the      *)
(* environment.  A revert undoes balances, allowances and transient        *)
(* storage; out of gas, it can come at any step.                           *)
(***************************************************************************)
EXTENDS Integers

CONSTANTS Tokens,         \* ERC-20 tokens
          ETH,            \* the native balance, not a token
          Dexes,          \* DEX names with a router configured
          OtherDex,       \* a DEX name that is unknown or has no router
          Pool,           \* the Aave pool, as spender of an allowance and as caller
          Self, Stranger, \* this contract, and any other address
          PoolAvailable,  \* POOL # address(0)
          None,           \* no call in progress
          MaxBalance,     \* bound: no balance exceeds it
          MaxLoan,        \* bound on debtAmount
          MaxPremium,     \* bound on the premium and on minProfit
          MaxHoldings     \* bound on the initial balances

ASSUME ConstantsAssumption ==
  /\ ETH \notin Tokens /\ OtherDex \notin Dexes /\ Pool \notin Dexes
  /\ Stranger \notin {Pool, Self}
  /\ None \notin [asset : Tokens \cup {ETH}, minProfit : Nat]
  /\ PoolAvailable \in BOOLEAN
  /\ MaxBalance \in Nat /\ MaxLoan \in Nat /\ MaxPremium \in Nat /\ MaxHoldings \in Nat

VARIABLES
  balance,    \* balance[a]: what the contract holds
  allowance,  \* allowance[spender][token] granted by the contract
  lock,       \* transient LOCK_SLOT
  strategy,   \* transient STRATEGY_SLOT
  snapshot,   \* transient SNAPSHOT_SLOT
  entered,    \* the ReentrancyGuard of OpenZeppelin
  phase,      \* the external call the contract is in, "idle" outside any
  args,       \* the arguments of executeLiquidation
  premium,    \* flashloan premium
  before,     \* collateralBefore
  journal     \* what a revert restores

money == <<balance, allowance>>
transient == <<lock, strategy, snapshot>>
call == <<args, premium, before>>
vars == <<balance, allowance, lock, strategy, snapshot, entered, phase, args, premium,
          before, journal>>

Assets == Tokens \cup {ETH}
Spenders == Dexes \cup {Pool}
Args == [collateral : Tokens, debt : Tokens, amount : Nat,
         dex : Dexes \cup {OtherDex}, minProfit : Nat]

\* forceApprove and transferFrom
Approve(spender, token, n) == [allowance EXCEPT ![spender][token] = n]
Owed == args.amount + premium

Init ==
  /\ balance \in [Assets -> 0 .. MaxHoldings]
  /\ allowance = [s \in Spenders |-> [t \in Tokens |-> 0]]
  /\ lock = FALSE /\ strategy = "none" /\ snapshot = 0
  /\ entered = FALSE /\ phase = "idle"
  /\ args = None /\ premium = 0 /\ before = 0 /\ journal = None

\* What the EVM keeps to undo an external call, from its start to its end.
Checkpoint == journal' = [balance |-> balance, allowance |-> allowance,
                          lock |-> lock, strategy |-> strategy, snapshot |-> snapshot]
EndCall == /\ entered' = FALSE /\ phase' = "idle"
           /\ args' = None /\ premium' = 0 /\ before' = 0 /\ journal' = None

-----------------------------------------------------------------------------
(* executeLiquidation *)

\* onlyOwner and nonReentrant; lock, strategy and snapshot are set, then the
\* pool is called.
ExecuteLiquidation(a) ==
  /\ ~ entered
  /\ PoolAvailable
  /\ Checkpoint
  /\ entered' = TRUE
  /\ lock' = TRUE /\ strategy' = "liq" /\ snapshot' = balance[a.debt]
  /\ args' = a
  /\ phase' = "loan"
  /\ UNCHANGED <<money, premium, before>>

\* Aave: flashLoanSimple sends the amount and calls executeOperation back.
PoolLends(fee) ==
  /\ phase = "loan"
  /\ balance[args.debt] + args.amount <= MaxBalance
  /\ balance' = [balance EXCEPT ![args.debt] = @ + args.amount]
  /\ premium' = fee
  /\ phase' = "operation"
  /\ UNCHANGED <<allowance, transient, entered, args, before, journal>>

\* Seeded bug: anyone may borrow from the pool in the name of this contract.
AcceptsAnyInitiator(sender, initiator) == sender = Pool /\ lock /\ strategy = "liq"

\* What executeOperation asks of its caller, of the loan and of transient storage.
Accepts(sender, initiator) ==
  sender = Pool /\ initiator = Self /\ lock /\ strategy = "liq"

\* executeOperation up to liquidationCall: the position must still be
\* liquidatable; the pool may take debtToCover.
ExecuteOperation(healthy) ==
  /\ phase = "operation"
  /\ Accepts(Pool, Self)
  /\ ~ healthy
  /\ before' = balance[args.collateral]
  /\ allowance' = Approve(Pool, args.debt, args.amount)
  /\ phase' = "liquidate"
  /\ UNCHANGED <<balance, transient, entered, args, premium, journal>>

\* Aave: liquidationCall takes at most what was approved, less if the close
\* factor caps it, and pays collateral.
LiquidationCall(taken, paid) ==
  /\ phase = "liquidate"
  /\ taken <= allowance[Pool][args.debt] /\ taken <= balance[args.debt]
  /\ balance[args.collateral] + paid <= MaxBalance
  /\ balance' = [t \in Assets |->
                   balance[t] - (IF t = args.debt THEN taken ELSE 0)
                              + (IF t = args.collateral THEN paid ELSE 0)]
  /\ allowance' = Approve(Pool, args.debt, allowance[Pool][args.debt] - taken)
  /\ phase' = "seized"
  /\ UNCHANGED <<transient, entered, call, journal>>

\* The collateral that arrived is approved to the router of the DEX.  Nothing
\* seized, a loss in a same-asset liquidation, or an unknown DEX reverts.
Sell ==
  /\ phase = "seized"
  /\ balance[args.collateral] > before
  /\ IF args.collateral = args.debt
       THEN phase' = "sold" /\ UNCHANGED allowance
       ELSE /\ args.dex \in Dexes
            /\ allowance' = Approve(args.dex, args.collateral,
                                    balance[args.collateral] - before)
            /\ phase' = "swap"
  /\ UNCHANGED <<balance, transient, entered, call, journal>>

\* The router: takes at most what was approved (it may run out of liquidity)
\* and pays what the market gives, with no minimum.
Swap(taken, out) ==
  /\ phase = "swap"
  /\ taken <= allowance[args.dex][args.collateral] /\ taken <= balance[args.collateral]
  /\ balance[args.debt] + out <= MaxBalance
  /\ balance' = [balance EXCEPT ![args.collateral] = @ - taken, ![args.debt] = @ + out]
  /\ allowance' = Approve(args.dex, args.collateral,
                          allowance[args.dex][args.collateral] - taken)
  /\ phase' = "sold"
  /\ UNCHANGED <<transient, entered, call, journal>>

\* Seeded bug: the profit counts what the contract held before.
SettleWithoutSnapshot ==
  /\ phase = "sold"
  /\ balance[args.debt] >= Owed
  /\ balance[args.debt] - Owed >= args.minProfit
  /\ allowance' = Approve(Pool, args.debt, Owed)
  /\ phase' = "repay"
  /\ UNCHANGED <<balance, transient, entered, call, journal>>

\* The profit checks of _runLiquidation, then the approval of the repayment.
Settle ==
  /\ phase = "sold"
  /\ balance[args.debt] >= snapshot + Owed
  /\ balance[args.debt] - snapshot - Owed >= args.minProfit
  /\ allowance' = Approve(Pool, args.debt, Owed)
  /\ phase' = "repay"
  /\ UNCHANGED <<balance, transient, entered, call, journal>>

\* Seeded bug: the lock is left to the end of the transaction.
ReturnLocked ==
  /\ phase = "repay"
  /\ allowance[Pool][args.debt] >= Owed /\ balance[args.debt] >= Owed
  /\ balance' = [balance EXCEPT ![args.debt] = @ - Owed]
  /\ allowance' = Approve(Pool, args.debt, allowance[Pool][args.debt] - Owed)
  /\ EndCall
  /\ UNCHANGED transient

\* Aave takes amount plus premium; flashLoanSimple and executeLiquidation return.
RepayAndReturn ==
  /\ phase = "repay"
  /\ allowance[Pool][args.debt] >= Owed /\ balance[args.debt] >= Owed
  /\ balance' = [balance EXCEPT ![args.debt] = @ - Owed]
  /\ allowance' = Approve(Pool, args.debt, allowance[Pool][args.debt] - Owed)
  /\ lock' = FALSE
  /\ EndCall
  /\ UNCHANGED <<strategy, snapshot>>

-----------------------------------------------------------------------------
(* Withdrawals, reverts and the end of a transaction *)

\* Code of others runs between the owner's calls and in the external calls.
OthersRun == phase \in {"idle", "loan", "liquidate", "swap", "repay", "payout"}

\* executeOperation has no guard of its own.  Others call it, or borrow from the
\* pool with this contract as receiver; what is refused reverts and leaves no trace,
\* what is accepted ends with an approval of what the pool is owed (the liquidation
\* before it is left out: no callback that others ask for is accepted).
StrayOperation(sender, initiator, token, owed) ==
  /\ OthersRun
  /\ sender # Pool \/ initiator # Self
  /\ allowance' = IF Accepts(sender, initiator) THEN Approve(Pool, token, owed) ELSE allowance
  /\ UNCHANGED <<balance, transient, entered, phase, call, journal>>

\* Seeded bug: the amount is not compared with the balance.
WithdrawUnchecked(t, n) ==
  /\ ~ entered
  /\ balance' = [balance EXCEPT ![t] = @ - n]
  /\ UNCHANGED <<allowance, transient, entered, phase, call, journal>>

\* withdrawToken and emergencyWithdraw: any amount the contract has.
WithdrawToken(t, n) ==
  /\ ~ entered
  /\ n <= balance[t]
  /\ balance' = [balance EXCEPT ![t] = @ - n]
  /\ UNCHANGED <<allowance, transient, entered, phase, call, journal>>

\* withdrawETH calls the owner with the whole native balance.
WithdrawETH ==
  /\ ~ entered
  /\ Checkpoint
  /\ entered' = TRUE
  /\ balance' = [balance EXCEPT ![ETH] = 0]
  /\ phase' = "payout"
  /\ UNCHANGED <<allowance, transient, call>>

PayoutReturns ==
  /\ phase = "payout"
  /\ EndCall
  /\ UNCHANGED <<money, transient>>

\* A failed check, a failed external call or a lack of gas.
Revert ==
  /\ phase # "idle"
  /\ balance' = journal.balance /\ allowance' = journal.allowance
  /\ lock' = journal.lock /\ strategy' = journal.strategy /\ snapshot' = journal.snapshot
  /\ EndCall

\* Transient storage is cleared between transactions.
EndTransaction ==
  /\ phase = "idle"
  /\ lock' = FALSE /\ strategy' = "none" /\ snapshot' = 0
  /\ UNCHANGED <<money, entered, phase, call, journal>>

Requests == [collateral : Tokens, debt : Tokens, amount : 1 .. MaxLoan,
             dex : Dexes \cup {OtherDex}, minProfit : 0 .. MaxPremium]

Next ==
  \/ \E a \in Requests : ExecuteLiquidation(a)
  \/ \E fee \in 0 .. MaxPremium : PoolLends(fee)
  \/ \E healthy \in BOOLEAN : ExecuteOperation(healthy)
  \/ \E taken, paid \in 0 .. MaxBalance : LiquidationCall(taken, paid) \/ Swap(taken, paid)
  \/ Sell \/ Settle \/ RepayAndReturn
  \/ \E sender \in {Pool, Stranger}, initiator \in {Self, Stranger} :
       \E t \in Tokens, n \in 1 .. MaxLoan : StrayOperation(sender, initiator, t, n)
  \/ \E t \in Tokens, n \in 0 .. MaxBalance : WithdrawToken(t, n)
  \/ WithdrawETH \/ PayoutReturns \/ Revert \/ EndTransaction

Spec == Init /\ [][Next]_vars
-----------------------------------------------------------------------------
(* Properties *)

\* The phases of executeLiquidation after its first external call.
InLiquidation == phase \in {"loan", "operation", "liquidate", "seized", "swap", "sold", "repay"}

Journal == [balance : [Assets -> Nat], allowance : [Spenders -> [Tokens -> Nat]],
            lock : BOOLEAN, strategy : {"none", "liq"}, snapshot : Nat]

\* Balances, allowances and the snapshot are unsigned; the arguments and the
\* journal are there exactly while a call is in progress.
TypeOK ==
  /\ balance \in [Assets -> Nat]
  /\ allowance \in [Spenders -> [Tokens -> Nat]]
  /\ lock \in BOOLEAN /\ strategy \in {"none", "liq"} /\ snapshot \in Nat
  /\ entered \in BOOLEAN
  /\ InLiquidation \/ phase \in {"idle", "payout"}
  /\ IF InLiquidation THEN args \in Args ELSE args = None
  /\ premium \in Nat /\ before \in Nat
  /\ IF phase = "idle" THEN journal = None ELSE journal \in Journal

\* The transient lock is set exactly while a flashloan of this contract runs and
\* the guard exactly while a guarded call runs, reverts included: the next call
\* of the same transaction starts with both open (AlphaRouting.sol, 290-296).  The
\* strategy and the snapshot an earlier call left behind are never those of this one.
LocksMatchCall ==
  /\ lock <=> InLiquidation
  /\ entered <=> phase # "idle"
  /\ InLiquidation => strategy = "liq" /\ snapshot = journal.balance[args.debt]

\* Between calls the pool may take nothing: what liquidationCall left of its
\* approval is overwritten by the repayment, and the pool takes all of that; and a
\* callback nobody here asked for grants it nothing (AlphaRouting.sol, 317-336).
NoStandingPoolAllowance == phase = "idle" => \A t \in Tokens : allowance[Pool][t] = 0

\* "You either profit or the whole tx reverts" (README): a liquidation is one
\* step that earns at least minProfit of the debt asset and lowers no other
\* holding, or no step at all; no withdrawal falls between its parts.
Vault == INSTANCE AtomicVault WITH
           NoOrder <- None,
           holdings <- IF phase = "idle" THEN balance ELSE journal.balance,
           order <- IF InLiquidation
                      THEN [asset |-> args.debt, minProfit |-> args.minProfit] ELSE None
LiquidationIsAtomic == Vault!Spec
=============================================================================
