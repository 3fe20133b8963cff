-------------------------- MODULE AlphaRouting_proofs --------------------------
(***************************************************************************)
(* Proofs about AlphaRouting for any tokens, DEXes, amounts and fees.      *)
(***************************************************************************)
EXTENDS AlphaRouting, TLAPS

USE ConstantsAssumption DEF money, transient, call, Spenders

Phases == {"idle", "payout", "loan", "operation", "liquidate", "seized", "swap", "sold", "repay"}

\* TypeOK without the Boolean parts, which the locks invariant determines.
Typed ==
  /\ balance \in [Assets -> Nat]
  /\ allowance \in [Spenders -> [Tokens -> Nat]]
  /\ strategy \in {"none", "liq"} /\ snapshot \in Nat
  /\ phase \in Phases
  /\ InLiquidation => args \in Args
  /\ phase = "swap" => args.dex \in Dexes /\ args.collateral # args.debt
  /\ premium \in Nat /\ before \in Nat
  /\ phase # "idle" => /\ journal.balance \in [Assets -> Nat]
                       /\ journal.allowance \in [Spenders -> [Tokens -> Nat]]
                       /\ journal.strategy \in {"none", "liq"}
                       /\ journal.snapshot \in Nat

LEMMA ApproveType ==
  ASSUME allowance \in [Spenders -> [Tokens -> Nat]],
         NEW s \in Spenders, NEW t \in Tokens, NEW n \in Nat
  PROVE  /\ Approve(s, t, n) \in [Spenders -> [Tokens -> Nat]]
         /\ Approve(s, t, n)[s][t] = n
         /\ \A r \in Spenders, u \in Tokens :
              r # s \/ u # t => Approve(s, t, n)[r][u] = allowance[r][u]
BY DEF Approve

\* A callback that another contract asked for is refused.
LEMMA StrayRefused ==
  ASSUME NEW sender \in {Pool, Stranger}, NEW initiator \in {Self, Stranger},
         NEW t \in Tokens, NEW n \in 1 .. MaxLoan, StrayOperation(sender, initiator, t, n)
  PROVE  UNCHANGED vars
<1>1. ~ Accepts(sender, initiator)
  BY DEF StrayOperation, Accepts
<1>2. UNCHANGED <<money, transient, entered, phase, call, journal>>
  BY <1>1 DEF StrayOperation
<1> QED BY <1>2 DEF vars

LEMMA TypedStep == Typed /\ [Next]_vars => Typed'
<1> SUFFICES ASSUME Typed, [Next]_vars PROVE Typed'
  OBVIOUS
<1> USE DEF Typed, InLiquidation, Phases
<1>1. ASSUME NEW a \in Requests, ExecuteLiquidation(a) PROVE Typed'
  <2>1. a \in Args /\ a.debt \in Assets
    BY DEF Requests, Args, Assets
  <2> QED BY <1>1, <2>1 DEF ExecuteLiquidation, Checkpoint
<1>2. ASSUME NEW fee \in 0 .. MaxPremium, PoolLends(fee) PROVE Typed'
  <2>1. args.debt \in Assets /\ args.amount \in Nat
    BY <1>2 DEF PoolLends, Args, Assets
  <2>2. balance' \in [Assets -> Nat]
    BY <1>2, <2>1 DEF PoolLends
  <2> QED BY <1>2, <2>2 DEF PoolLends
<1>3. ASSUME NEW healthy \in BOOLEAN, ExecuteOperation(healthy) PROVE Typed'
  <2>1. /\ args.debt \in Tokens /\ args.amount \in Nat
        /\ args.collateral \in Assets
    BY <1>3 DEF ExecuteOperation, Args, Assets
  <2>2. allowance' \in [Spenders -> [Tokens -> Nat]]
    BY <1>3, <2>1, ApproveType DEF ExecuteOperation
  <2> QED BY <1>3, <2>1, <2>2 DEF ExecuteOperation
<1>4. ASSUME NEW taken \in 0 .. MaxBalance, NEW paid \in 0 .. MaxBalance,
             LiquidationCall(taken, paid)
      PROVE  Typed'
  <2>1. args.debt \in Tokens
    BY <1>4 DEF LiquidationCall, Args
  <2>2. allowance[Pool][args.debt] - taken \in Nat
    BY <1>4, <2>1 DEF LiquidationCall
  <2>3. allowance' \in [Spenders -> [Tokens -> Nat]]
    BY <1>4, <2>1, <2>2, ApproveType DEF LiquidationCall
  <2>4. balance' \in [Assets -> Nat]
    BY <1>4, <2>1 DEF LiquidationCall
  <2> QED BY <1>4, <2>3, <2>4 DEF LiquidationCall
<1>5. ASSUME NEW taken \in 0 .. MaxBalance, NEW out \in 0 .. MaxBalance, Swap(taken, out)
      PROVE  Typed'
  <2>1. args.collateral \in Tokens /\ args.debt \in Tokens /\ args.dex \in Spenders
    BY <1>5 DEF Swap, Args
  <2>2. allowance[args.dex][args.collateral] - taken \in Nat
    BY <1>5, <2>1 DEF Swap
  <2>3. allowance' \in [Spenders -> [Tokens -> Nat]]
    BY <1>5, <2>1, <2>2, ApproveType DEF Swap
  <2>4. balance' \in [Assets -> Nat]
    BY <1>5, <2>1 DEF Swap, Assets
  <2> QED BY <1>5, <2>3, <2>4 DEF Swap
<1>6. CASE Sell
  <2>1. args.collateral \in Tokens /\ args.collateral \in Assets
    BY <1>6 DEF Sell, Args, Assets
  <2>2. balance[args.collateral] - before \in Nat
    BY <1>6, <2>1 DEF Sell
  <2>3. CASE args.collateral = args.debt
    BY <1>6, <2>3 DEF Sell
  <2>4. CASE args.collateral # args.debt
    <3>1. args.dex \in Spenders
      BY <1>6, <2>4 DEF Sell
    <3> DEFINE seized == balance[args.collateral] - before
    <3>2. allowance' = Approve(args.dex, args.collateral, seized)
      BY <1>6, <2>4 DEF Sell
    <3> HIDE DEF seized
    <3>3. allowance' \in [Spenders -> [Tokens -> Nat]]
      <4>1. seized \in Nat
        BY <2>2 DEF seized
      <4> QED BY <2>1, <3>1, <3>2, <4>1, ApproveType
    <3> QED BY <1>6, <2>4, <3>1, <3>3 DEF Sell
  <2> QED BY <2>3, <2>4
<1>7. CASE Settle
  <2>1. args.debt \in Tokens /\ Owed \in Nat
    BY <1>7 DEF Settle, Args, Owed
  <2>2. allowance' \in [Spenders -> [Tokens -> Nat]]
    BY <1>7, <2>1, ApproveType DEF Settle
  <2> QED BY <1>7, <2>2 DEF Settle
<1>8. CASE RepayAndReturn
  <2>1. args.debt \in Tokens /\ args.debt \in Assets /\ Owed \in Nat
    BY <1>8 DEF RepayAndReturn, Args, Owed, Assets
  <2>2. allowance[Pool][args.debt] - Owed \in Nat
    BY <1>8, <2>1 DEF RepayAndReturn
  <2>3. allowance' \in [Spenders -> [Tokens -> Nat]]
    BY <1>8, <2>1, <2>2, ApproveType DEF RepayAndReturn
  <2>4. balance' \in [Assets -> Nat]
    BY <1>8, <2>1 DEF RepayAndReturn
  <2> QED BY <1>8, <2>3, <2>4 DEF RepayAndReturn, EndCall
<1>9. ASSUME NEW t \in Tokens, NEW n \in 0 .. MaxBalance, WithdrawToken(t, n) PROVE Typed'
  BY <1>9 DEF WithdrawToken, Assets
<1>10. CASE WithdrawETH
  BY <1>10 DEF WithdrawETH, Checkpoint
<1>11. CASE PayoutReturns
  BY <1>11 DEF PayoutReturns, EndCall
<1>12. CASE Revert
  BY <1>12 DEF Revert, EndCall
<1>13. CASE EndTransaction
  BY <1>13 DEF EndTransaction
<1>14. CASE UNCHANGED vars
  BY <1>14 DEF vars
<1> QED
  BY <1>1, <1>2, <1>3, <1>4, <1>5, <1>6, <1>7, <1>8, <1>9, <1>10, <1>11, <1>12, <1>13, <1>14,
     StrayRefused
     DEF Next

\* The locks, and what a revert would make of them.
Locks ==
  /\ lock \in BOOLEAN /\ entered \in BOOLEAN
  /\ lock <=> InLiquidation
  /\ entered <=> phase # "idle"
  /\ InLiquidation => strategy = "liq"
  /\ phase # "idle" => journal.lock = FALSE

LEMMA LocksStep == Typed /\ Locks /\ [Next]_vars => Locks'
<1> SUFFICES ASSUME Typed, Locks, [Next]_vars PROVE Locks'
  OBVIOUS
<1> USE DEF Locks, InLiquidation
<1>1. ASSUME NEW a \in Requests, ExecuteLiquidation(a) PROVE Locks'
  <2>1. /\ lock' = TRUE /\ entered' = TRUE /\ phase' = "loan" /\ journal'.lock = lock
        /\ strategy' = "liq"
    BY <1>1 DEF ExecuteLiquidation, Checkpoint
  <2>2. lock = FALSE
    BY <1>1 DEF ExecuteLiquidation
  <2> QED BY <2>1, <2>2
<1>2. ASSUME InLiquidation, InLiquidation', UNCHANGED <<transient, entered, journal>>
      PROVE  Locks'
  BY <1>2
<1>3. CASE RepayAndReturn
  BY <1>3 DEF RepayAndReturn, EndCall
<1>4. ASSUME NEW t \in Tokens, NEW n \in 0 .. MaxBalance, WithdrawToken(t, n) PROVE Locks'
  BY <1>4 DEF WithdrawToken
<1>5. CASE WithdrawETH
  <2>1. entered' = TRUE /\ phase' = "payout" /\ journal'.lock = lock /\ lock' = lock
    BY <1>5 DEF WithdrawETH, Checkpoint
  <2>2. lock = FALSE
    BY <1>5 DEF WithdrawETH
  <2> QED BY <2>1, <2>2
<1>6. CASE PayoutReturns
  BY <1>6 DEF PayoutReturns, EndCall
<1>7. CASE Revert
  BY <1>7 DEF Revert, EndCall
<1>8. CASE EndTransaction
  BY <1>8 DEF EndTransaction
<1>9. CASE UNCHANGED vars
  BY <1>9 DEF vars
<1> QED
  BY <1>1, <1>2, <1>3, <1>4, <1>5, <1>6, <1>7, <1>8, <1>9, StrayRefused
     DEF Next, PoolLends, ExecuteOperation, LiquidationCall, Sell, Swap, Settle

-----------------------------------------------------------------------------
(* What the pool may take, and where the money is while a call runs. *)

PoolAllowance ==
  /\ \A t \in Tokens : (InLiquidation /\ t = args.debt) \/ allowance[Pool][t] = 0
  /\ phase = "repay" => allowance[Pool][args.debt] = Owed
  /\ phase # "idle" => \A t \in Tokens : journal.allowance[Pool][t] = 0

LEMMA PoolAllowanceStep == Typed /\ Locks /\ PoolAllowance /\ [Next]_vars => PoolAllowance'
<1> SUFFICES ASSUME Typed, Locks, PoolAllowance, [Next]_vars PROVE PoolAllowance'
  OBVIOUS
<1> USE DEF Typed, PoolAllowance, InLiquidation, Phases
<1>0. ~ entered => phase = "idle"
  BY DEF Locks
<1>1. ASSUME NEW a \in Requests, ExecuteLiquidation(a) PROVE PoolAllowance'
  BY <1>0, <1>1 DEF ExecuteLiquidation, Checkpoint
<1>2. ASSUME NEW fee \in 0 .. MaxPremium, PoolLends(fee) PROVE PoolAllowance'
  BY <1>2 DEF PoolLends
<1>3. ASSUME NEW healthy \in BOOLEAN, ExecuteOperation(healthy) PROVE PoolAllowance'
  <2>1. args.debt \in Tokens /\ args.amount \in Nat
    BY <1>3 DEF ExecuteOperation, Args
  <2>2. allowance' = Approve(Pool, args.debt, args.amount)
    BY <1>3 DEF ExecuteOperation
  <2>3. \A t \in Tokens \ {args.debt} : allowance'[Pool][t] = allowance[Pool][t]
    BY <2>1, <2>2, ApproveType
  <2> QED BY <1>3, <2>3 DEF ExecuteOperation
<1>4. ASSUME NEW taken \in 0 .. MaxBalance, NEW paid \in 0 .. MaxBalance,
             LiquidationCall(taken, paid)
      PROVE  PoolAllowance'
  <2> DEFINE rest == allowance[Pool][args.debt] - taken
  <2>1. args.debt \in Tokens /\ rest \in Nat
    BY <1>4 DEF LiquidationCall, Args
  <2>2. allowance' = Approve(Pool, args.debt, rest)
    BY <1>4 DEF LiquidationCall
  <2> HIDE DEF rest
  <2>3. \A t \in Tokens \ {args.debt} : allowance'[Pool][t] = allowance[Pool][t]
    BY <2>1, <2>2, ApproveType
  <2> QED BY <1>4, <2>3 DEF LiquidationCall
<1>5. ASSUME NEW taken \in 0 .. MaxBalance, NEW out \in 0 .. MaxBalance, Swap(taken, out)
      PROVE  PoolAllowance'
  <2> DEFINE rest == allowance[args.dex][args.collateral] - taken
  <2>1. args.dex \in Dexes /\ args.dex # Pool /\ args.collateral \in Tokens /\ rest \in Nat
    BY <1>5 DEF Swap, Args
  <2>2. allowance' = Approve(args.dex, args.collateral, rest)
    BY <1>5 DEF Swap
  <2> HIDE DEF rest
  <2>3. \A t \in Tokens : allowance'[Pool][t] = allowance[Pool][t]
    BY <2>1, <2>2, ApproveType
  <2> QED BY <1>5, <2>3 DEF Swap
<1>6. CASE Sell
  <2>1. \A t \in Tokens : allowance'[Pool][t] = allowance[Pool][t]
    <3>1. CASE args.collateral = args.debt
      BY <1>6, <3>1 DEF Sell
    <3>2. CASE args.collateral # args.debt
      <4> DEFINE seized == balance[args.collateral] - before
      <4>1. /\ args.dex \in Dexes /\ args.dex # Pool /\ args.collateral \in Tokens
            /\ seized \in Nat
        BY <1>6, <3>2 DEF Sell, Args, Assets
      <4>2. allowance' = Approve(args.dex, args.collateral, seized)
        BY <1>6, <3>2 DEF Sell
      <4> HIDE DEF seized
      <4> QED BY <4>1, <4>2, ApproveType
    <3> QED BY <3>1, <3>2
  <2> QED BY <1>6, <2>1 DEF Sell
<1>7. CASE Settle
  <2>1. args.debt \in Tokens /\ Owed \in Nat
    BY <1>7 DEF Settle, Args, Owed
  <2>2. allowance' = Approve(Pool, args.debt, Owed)
    BY <1>7 DEF Settle
  <2>3. /\ allowance'[Pool][args.debt] = Owed
        /\ \A t \in Tokens \ {args.debt} : allowance'[Pool][t] = allowance[Pool][t]
    BY <2>1, <2>2, ApproveType
  <2>4. Owed' = Owed
    BY <1>7 DEF Settle, Owed
  <2> QED BY <1>7, <2>3, <2>4 DEF Settle
<1>8. CASE RepayAndReturn
  <2>1. args.debt \in Tokens /\ Owed \in Nat /\ allowance[Pool][args.debt] - Owed = 0
    BY <1>8 DEF RepayAndReturn, Args, Owed
  <2>2. allowance' = Approve(Pool, args.debt, 0)
    BY <1>8, <2>1 DEF RepayAndReturn
  <2>3. /\ allowance'[Pool][args.debt] = 0
        /\ \A t \in Tokens \ {args.debt} : allowance'[Pool][t] = allowance[Pool][t]
    BY <2>1, <2>2, ApproveType
  <2> QED BY <1>8, <2>3 DEF RepayAndReturn, EndCall
<1>9. ASSUME NEW t \in Tokens, NEW n \in 0 .. MaxBalance, WithdrawToken(t, n)
      PROVE  PoolAllowance'
  BY <1>9, <1>0 DEF WithdrawToken
<1>10. CASE WithdrawETH
  BY <1>10, <1>0 DEF WithdrawETH, Checkpoint
<1>11. CASE PayoutReturns
  BY <1>11 DEF PayoutReturns, EndCall
<1>12. CASE Revert
  BY <1>12 DEF Revert, EndCall
<1>13. CASE EndTransaction
  BY <1>13 DEF EndTransaction
<1>14. CASE UNCHANGED vars
  BY <1>14 DEF vars, Owed
<1> QED
  BY <1>1, <1>2, <1>3, <1>4, <1>5, <1>6, <1>7, <1>8, <1>9, <1>10, <1>11, <1>12, <1>13, <1>14,
     StrayRefused
     DEF Next

\* During a liquidation no holding but the debt asset is below what it was when
\* the call began: at most what was seized can reach the router.  Once the
\* profit is checked, the debt asset covers the repayment and the profit.
Accounts ==
  /\ InLiquidation =>
       /\ snapshot = journal.balance[args.debt]
       /\ \A a \in Assets \ {args.debt} : balance[a] >= journal.balance[a]
       /\ phase \in {"liquidate", "seized"} /\ args.collateral # args.debt
            => before >= journal.balance[args.collateral]
       /\ phase = "swap" =>
            allowance[args.dex][args.collateral] + journal.balance[args.collateral]
              <= balance[args.collateral]
       /\ phase = "repay" => balance[args.debt] >= snapshot + Owed + args.minProfit
  /\ phase = "payout" => \A t \in Tokens : balance[t] = journal.balance[t]

LEMMA AccountsStep == Typed /\ Locks /\ Accounts /\ [Next]_vars => Accounts'
<1> SUFFICES ASSUME Typed, Locks, Accounts, [Next]_vars PROVE Accounts'
  OBVIOUS
<1> USE DEF Typed, Accounts, InLiquidation, Phases
<1>0. ~ entered => phase = "idle"
  BY DEF Locks
<1>1. ASSUME NEW a \in Requests, ExecuteLiquidation(a) PROVE Accounts'
  <2>1. /\ snapshot' = balance[a.debt] /\ args' = a /\ phase' = "loan"
        /\ journal'.balance = balance /\ balance' = balance
    BY <1>1 DEF ExecuteLiquidation, Checkpoint
  <2> QED BY <2>1
<1>2. ASSUME NEW fee \in 0 .. MaxPremium, PoolLends(fee) PROVE Accounts'
  <2>1. \A a \in Assets \ {args.debt} : balance'[a] = balance[a]
    BY <1>2 DEF PoolLends
  <2> QED BY <1>2, <2>1 DEF PoolLends
<1>3. ASSUME NEW healthy \in BOOLEAN, ExecuteOperation(healthy) PROVE Accounts'
  <2>1. args.collateral \in Assets
    BY <1>3 DEF ExecuteOperation, Args, Assets
  <2> QED BY <1>3, <2>1 DEF ExecuteOperation
<1>4. ASSUME NEW taken \in 0 .. MaxBalance, NEW paid \in 0 .. MaxBalance,
             LiquidationCall(taken, paid)
      PROVE  Accounts'
  <2>1. \A a \in Assets \ {args.debt} : balance'[a] >= balance[a]
    BY <1>4 DEF LiquidationCall
  <2>2. \A a \in Assets : balance[a] \in Nat /\ journal.balance[a] \in Nat /\ balance'[a] \in Int
    BY <1>4 DEF LiquidationCall
  <2>3. \A a \in Assets \ {args.debt} : balance'[a] >= journal.balance[a]
    BY <1>4, <2>1, <2>2 DEF LiquidationCall
  <2> QED BY <1>4, <2>3 DEF LiquidationCall
<1>5. ASSUME NEW taken \in 0 .. MaxBalance, NEW out \in 0 .. MaxBalance, Swap(taken, out)
      PROVE  Accounts'
  <2>1. /\ args.collateral \in Assets /\ args.debt \in Assets
        /\ args.collateral \in Tokens /\ args.dex \in Dexes
    BY <1>5 DEF Swap, Args, Assets
  <2>2. allowance[args.dex][args.collateral] \in Nat
    BY <2>1
  <2>3. balance'[args.collateral] = balance[args.collateral] - taken
    BY <1>5, <2>1 DEF Swap
  <2>4. balance'[args.collateral] >= journal.balance[args.collateral]
    BY <1>5, <2>1, <2>2, <2>3 DEF Swap
  <2>5. \A a \in Assets \ {args.debt, args.collateral} : balance'[a] = balance[a]
    BY <1>5 DEF Swap
  <2> QED BY <1>5, <2>4, <2>5 DEF Swap
<1>6. CASE Sell
  <2>1. args.collateral \in Tokens /\ args.collateral \in Assets /\ args.debt \in Assets
    BY <1>6 DEF Sell, Args, Assets
  <2>2. CASE args.collateral = args.debt
    BY <1>6, <2>2 DEF Sell
  <2>3. CASE args.collateral # args.debt
    <3> DEFINE seized == balance[args.collateral] - before
    <3>1. args.dex \in Spenders /\ seized \in Nat
      BY <1>6, <2>1, <2>3 DEF Sell
    <3>2. allowance' = Approve(args.dex, args.collateral, seized)
      BY <1>6, <2>3 DEF Sell
    <3>3. seized + journal.balance[args.collateral] <= balance[args.collateral]
      BY <1>6, <2>1, <2>3 DEF Sell
    <3> HIDE DEF seized
    <3>4. allowance'[args.dex][args.collateral] = seized
      BY <2>1, <3>1, <3>2, ApproveType
    <3> QED BY <1>6, <2>3, <3>3, <3>4 DEF Sell
  <2> QED BY <2>2, <2>3
<1>7. CASE Settle
  <2>1. args.debt \in Assets /\ args.minProfit \in Nat /\ Owed \in Nat
    BY <1>7 DEF Settle, Args, Owed, Assets
  <2>2. balance[args.debt] >= snapshot + Owed + args.minProfit
    BY <1>7, <2>1 DEF Settle
  <2>3. Owed' = Owed
    BY <1>7 DEF Settle, Owed
  <2> QED BY <1>7, <2>2, <2>3 DEF Settle
<1>8. CASE RepayAndReturn
  BY <1>8 DEF RepayAndReturn, EndCall
<1>9. ASSUME NEW t \in Tokens, NEW n \in 0 .. MaxBalance, WithdrawToken(t, n)
      PROVE  Accounts'
  BY <1>0, <1>9 DEF WithdrawToken
<1>10. CASE WithdrawETH
  <2>1. \A t \in Tokens : balance'[t] = balance[t]
    BY <1>10 DEF WithdrawETH, Assets
  <2> QED BY <1>10, <2>1 DEF WithdrawETH, Checkpoint
<1>11. CASE PayoutReturns
  BY <1>11 DEF PayoutReturns, EndCall
<1>12. CASE Revert
  BY <1>12 DEF Revert, EndCall
<1>13. CASE EndTransaction
  BY <1>13 DEF EndTransaction
<1>14. CASE UNCHANGED vars
  BY <1>14 DEF vars, Owed
<1> QED
  BY <1>1, <1>2, <1>3, <1>4, <1>5, <1>6, <1>7, <1>8, <1>9, <1>10, <1>11, <1>12, <1>13, <1>14,
     StrayRefused
     DEF Next

\* Arguments and journal exist exactly while a call is in progress.
Scoped ==
  /\ ~ InLiquidation => args = None
  /\ phase = "idle" => journal = None
  /\ phase # "idle" => journal \in Journal

LEMMA ScopedStep == Typed /\ Locks /\ Scoped /\ [Next]_vars => Scoped'
<1> SUFFICES ASSUME Typed, Locks, Scoped, [Next]_vars PROVE Scoped'
  OBVIOUS
<1> USE DEF Scoped, InLiquidation
<1>0. ~ entered => phase = "idle"
  BY DEF Locks
<1>1. ASSUME Checkpoint PROVE journal' \in Journal
  <2>1. lock \in BOOLEAN
    BY DEF Locks
  <2>2. /\ balance \in [Assets -> Nat] /\ allowance \in [Spenders -> [Tokens -> Nat]]
        /\ strategy \in {"none", "liq"} /\ snapshot \in Nat
    BY DEF Typed
  <2> QED BY <1>1, <2>1, <2>2, Zenon DEF Checkpoint, Journal
<1>2. ASSUME NEW a \in Requests, ExecuteLiquidation(a) PROVE Scoped'
  BY <1>1, <1>2 DEF ExecuteLiquidation
<1>3. CASE WithdrawETH
  BY <1>0, <1>1, <1>3 DEF WithdrawETH
<1>4. CASE InLiquidation /\ InLiquidation' /\ UNCHANGED journal
  BY <1>4
<1>5. CASE EndCall
  BY <1>5 DEF EndCall
<1>6. CASE UNCHANGED <<phase, args, journal>>
  BY <1>6
<1> QED
  BY <1>2, <1>3, <1>4, <1>5, <1>6, StrayRefused
     DEF Next, vars, PoolLends, ExecuteOperation, LiquidationCall, Sell, Swap, Settle,
         RepayAndReturn, WithdrawToken, PayoutReturns, Revert, EndTransaction

-----------------------------------------------------------------------------
(* The theorems *)

IInv == Typed /\ Locks /\ PoolAllowance /\ Accounts /\ Scoped

LEMMA InitInv == Init => IInv
<1> SUFFICES ASSUME Init PROVE IInv
  OBVIOUS
<1> USE DEF Init, InLiquidation
<1>1. Typed
  BY DEF Typed, Phases
<1>2. Locks
  BY DEF Locks
<1>3. PoolAllowance /\ Accounts /\ Scoped
  BY DEF PoolAllowance, Accounts, Scoped
<1> QED BY <1>1, <1>2, <1>3 DEF IInv

THEOREM Invariance == Spec => []IInv
<1>1. IInv /\ [Next]_vars => IInv'
  BY TypedStep, LocksStep, PoolAllowanceStep, AccountsStep, ScopedStep DEF IInv
<1> QED BY InitInv, <1>1, PTL DEF Spec

\* Lock and guard are set exactly while a call runs, on every path out of it, and
\* strategy and snapshot are then its own.
THEOREM LocksAreReleased == Spec => []LocksMatchCall
<1>1. IInv => LocksMatchCall
  BY DEF IInv, Locks, Accounts, LocksMatchCall
<1> QED BY <1>1, Invariance, PTL

\* No allowance for the pool outlives a call.
THEOREM PoolAllowanceIsConsumed == Spec => []NoStandingPoolAllowance
<1>1. IInv => NoStandingPoolAllowance
  BY DEF IInv, PoolAllowance, NoStandingPoolAllowance, InLiquidation
<1> QED BY <1>1, Invariance, PTL

\* Type correctness of the contract's storage and of the call in progress.
THEOREM TypeCorrect == Spec => []TypeOK
<1>1. IInv => TypeOK
  BY DEF IInv, Typed, Locks, Scoped, TypeOK, InLiquidation, Phases
<1> QED BY <1>1, Invariance, PTL

-----------------------------------------------------------------------------
(* The contract implements the vault. *)

Holdings == IF phase = "idle" THEN balance ELSE journal.balance
Open == IF InLiquidation
          THEN [asset |-> args.debt, minProfit |-> args.minProfit] ELSE None

LEMMA VaultStep == IInv /\ [Next]_vars => [Vault!Next]_(Vault!vars)
<1> SUFFICES ASSUME IInv, [Next]_vars PROVE [Vault!Next]_(Vault!vars)
  OBVIOUS
<1> USE DEF IInv, Typed, Phases, InLiquidation
<1>0. ~ entered => phase = "idle"
  BY DEF Locks
<1>1. ASSUME NEW a \in Requests, ExecuteLiquidation(a) PROVE Vault!Place
  <2>1. /\ phase = "idle" /\ phase' = "loan" /\ args' = a
        /\ journal'.balance = balance
    BY <1>0, <1>1 DEF ExecuteLiquidation, Checkpoint
  <2>2. [asset |-> a.debt, minProfit |-> a.minProfit] \in [asset : Assets, minProfit : Nat]
    BY DEF Requests, Assets
  <2>3. Open = None /\ Open' = [asset |-> a.debt, minProfit |-> a.minProfit]
        /\ Holdings' = Holdings
    BY <2>1 DEF Open, Holdings
  <2> QED BY <2>2, <2>3 DEF Vault!Place, Vault!Order, Open, Holdings
<1>2. ASSUME InLiquidation, InLiquidation', UNCHANGED <<args, journal>>
      PROVE  UNCHANGED Vault!vars
  BY <1>2 DEF Vault!vars
<1>3. CASE RepayAndReturn
  <2> DEFINE order == [asset |-> args.debt, minProfit |-> args.minProfit]
  <2>1. args.debt \in Assets /\ args.debt \in Tokens /\ args.minProfit \in Nat /\ Owed \in Nat
    BY <1>3 DEF RepayAndReturn, Args, Assets, Owed
  <2>2. order \in [asset : Assets, minProfit : Nat] /\ order # None
    BY <2>1 DEF Assets
  <2>3. Open = order /\ Open' = None /\ Holdings = journal.balance /\ Holdings' = balance'
    BY <1>3 DEF RepayAndReturn, EndCall, Open, Holdings
  <2>4. balance' \in [Assets -> Nat] /\ balance'[args.debt] = balance[args.debt] - Owed
    BY <1>3, <2>1 DEF RepayAndReturn
  <2>5. balance'[args.debt] >= journal.balance[args.debt] + args.minProfit
    <3>1. balance[args.debt] >= snapshot + Owed + args.minProfit
      BY <1>3 DEF RepayAndReturn, Accounts
    <3>2. snapshot = journal.balance[args.debt]
      BY <1>3 DEF RepayAndReturn, Accounts
    <3> QED BY <2>1, <2>4, <3>1, <3>2
  <2>6. \A a \in Assets \ {args.debt} : balance'[a] >= journal.balance[a]
    <3>1. \A a \in Assets \ {args.debt} : balance'[a] = balance[a]
      BY <1>3 DEF RepayAndReturn
    <3> QED BY <1>3, <3>1 DEF RepayAndReturn, Accounts
  <2>7. order.asset = args.debt /\ order.minProfit = args.minProfit
    OBVIOUS
  <2> HIDE DEF order
  <2>8. Vault!Fill
    BY <2>2, <2>3, <2>4, <2>5, <2>6, <2>7 DEF Vault!Fill, Open, Holdings
  <2> QED BY <2>8 DEF Vault!Next
<1>4. ASSUME NEW t \in Tokens, NEW n \in 0 .. MaxBalance, WithdrawToken(t, n)
      PROVE  Vault!Move(t)
  <2>1. phase = "idle" /\ phase' = "idle"
    BY <1>0, <1>4 DEF WithdrawToken
  <2>2. balance' \in [Assets -> Nat]
    BY <1>4 DEF WithdrawToken, Assets
  <2>3. \A a \in Assets \ {t} : balance'[a] = balance[a]
    BY <1>4 DEF WithdrawToken
  <2> QED BY <2>1, <2>2, <2>3 DEF Vault!Move
<1>5. CASE WithdrawETH
  <2>1. /\ phase = "idle" /\ phase' = "payout" /\ journal'.balance = balance
    BY <1>0, <1>5 DEF WithdrawETH, Checkpoint
  <2> QED BY <2>1 DEF Vault!vars
<1>6. CASE PayoutReturns
  <2>1. phase = "payout" /\ phase' = "idle" /\ balance' = balance
    BY <1>6 DEF PayoutReturns, EndCall
  <2>2. \A a \in Assets \ {ETH} : balance'[a] = journal.balance[a]
    BY <2>1 DEF Accounts, Assets
  <2>3. Vault!Move(ETH)
    BY <2>1, <2>2 DEF Vault!Move
  <2> QED BY <2>3 DEF Vault!Next, Assets
<1>7. CASE Revert
  <2>1. phase # "idle" /\ phase' = "idle" /\ balance' = journal.balance
    BY <1>7 DEF Revert, EndCall
  <2>2. CASE InLiquidation
    <3>1. [asset |-> args.debt, minProfit |-> args.minProfit] # None
      BY <2>2 DEF Args, Assets
    <3> QED BY <2>1, <2>2, <3>1 DEF Vault!Cancel, Vault!Next
  <2>3. CASE ~ InLiquidation
    BY <2>1, <2>3 DEF Vault!vars
  <2> QED BY <2>2, <2>3
<1>8. CASE EndTransaction
  BY <1>8 DEF EndTransaction, Vault!vars
<1>9. CASE UNCHANGED vars
  BY <1>9 DEF vars, Vault!vars
<1> QED
  BY <1>1, <1>2, <1>3, <1>4, <1>5, <1>6, <1>7, <1>8, <1>9, StrayRefused
     DEF Next, Vault!Next, PoolLends, ExecuteOperation, LiquidationCall, Sell, Swap, Settle,
         Assets

\* A liquidation earns at least minProfit and touches no other holding, or it
\* changes nothing, for any amounts, fees and prices.
THEOREM ImplementsVault == Spec => LiquidationIsAtomic
<1>1. Init => Vault!Init
  <2> SUFFICES ASSUME Init PROVE Vault!Init
    OBVIOUS
  <2>1. balance \in [Assets -> Nat] /\ phase = "idle"
    BY DEF Init
  <2> QED BY <2>1 DEF Vault!Init, InLiquidation
<1>2. IInv /\ [Next]_vars => [Vault!Next]_(Vault!vars)
  BY VaultStep
<1> QED BY <1>1, <1>2, Invariance, PTL DEF Spec, LiquidationIsAtomic, Vault!Spec
=============================================================================
