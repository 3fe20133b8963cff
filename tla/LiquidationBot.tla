---------------------------- MODULE LiquidationBot ----------------------------
(***************************************************************************)
(* The liquidation bot (crates/liquidator/src/main.rs): the start-up gate, *)
(* the polling loop and check_and_liquidate, which awaits one request      *)
(* after the other while the chain moves on.  Every await is a step.  The  *)
(* scan is one step here: BorrowerDiscovery models it.  The borrowers'     *)
(* accounts, the wallet's pending transactions, the RPC node and the       *)
(* operator who sets the variables are the environment.                    *)
(***************************************************************************)
EXTENDS ReserveSelection, Settings

CONSTANTS Borrowers,     \* addresses discovery may find
          Answered,      \* borrowers about whom repeated requests succeed
          NumReserves,   \* length of getReservesList()
          Accounts,      \* Accounts[b]: the accounts b may have
          Environments,  \* the settings the operator may begin with
          MaxPending     \* bound: the pool takes MaxPending[b] transactions about b

Reserves == 0 .. NumReserves - 1

\* An account as Aave reports it; without debt the health factor is the maximum.
\* <<d, c, n>> \in pays: at present prices, n of debt d repaid against collateral c
\* seizes some of it and leaves the loan, its premium and MIN_PROFIT after the sale.
Account == [healthy : BOOLEAN, debt : [Reserves -> Nat], a_token : [Reserves -> Nat],
            enabled : SUBSET Reserves, pays : SUBSET (Reserves \X Reserves \X Nat)]
Indebted(a) == {i \in Reserves : a.debt[i] > 0}

ASSUME ConstantsAssumption ==
  /\ NumReserves \in Nat
  /\ Answered \subseteq Borrowers
  /\ Accounts \in [Borrowers -> SUBSET Account]
  /\ Environments \subseteq Environment
  /\ MaxPending \in [Borrowers -> Nat]
  /\ \A b \in Borrowers : \A a \in Accounts[b] : Indebted(a) = {} => a.healthy

VARIABLES
  env,        \* the environment variables
  phase,      \* "down", "panicked", or the await the process is at
  known,      \* registry.borrowers
  todo,       \* borrowers of this pass still to be checked
  who,        \* the borrower being checked
  flags,      \* the decoded configuration of who
  balances,   \* the reserves of who read so far
  target,     \* what select_liquidation_target returned
  mempool,    \* borrowers of the wallet's unmined transactions, in nonce order
  account,    \* account[b]: the account of b
  seen        \* history: the accounts who has had since it was seen below 1.0

locals == <<flags, balances, target>>
check == <<who, locals>>
world == <<mempool, account>>
vars == <<env, phase, known, todo, who, flags, balances, target, mempool, account, seen>>

AllAccounts == UNION {Accounts[b] : b \in Borrowers}
AccountsOfBorrowers == \A b \in Borrowers : account[b] \in Accounts[b]

NoFlags == [i \in Reserves |-> [borrowing |-> FALSE, collateral |-> FALSE]]
Flagged == {i \in Reserves : flags[i].borrowing \/ flags[i].collateral}
ToRead == Flagged \ DOMAIN balances

Nothing == <<>>

Init == /\ env \in Environments
        /\ phase = "down"
        /\ known = {} /\ todo = {}
        /\ who \in Borrowers
        /\ flags = NoFlags /\ balances = Nothing /\ target = Nothing
        /\ mempool = <<>>
        /\ account \in [Borrowers -> AllAccounts] /\ AccountsOfBorrowers
        /\ seen = {}

-----------------------------------------------------------------------------
(* main *)

Down == phase \in {"down", "panicked"}

\* Settings that do not pass the checks make main return an error: there is no
\* such action.  Then getReservesList() is answered and the registry is loaded.
Boot ==
  /\ Down
  /\ Complaint(env) = "none"
  /\ phase' = "scan"
  /\ UNCHANGED <<env, known, todo, check, world, seen>>

\* A scan, complete or not, leaves a registry with more borrowers or the same;
\* the pass works on a clone of it.
Scan(new) ==
  /\ phase = "scan"
  /\ known' = known \cup new
  /\ todo' = known'
  /\ phase' = "pick"
  /\ UNCHANGED <<env, check, world, seen>>

Pick(b) ==
  /\ phase = "pick"
  /\ b \in todo
  /\ who' = b
  /\ todo' = todo \ {b}
  /\ phase' = "account"
  /\ UNCHANGED <<env, known, flags, balances, target, world, seen>>

Sleep ==
  /\ phase = "pick"
  /\ todo = {}
  /\ phase' = "scan"
  /\ UNCHANGED <<env, known, todo, check, world, seen>>

-----------------------------------------------------------------------------
(* check_and_liquidate *)

\* Seeded bug: the vector of balances is shared by all checks.
EndCheckKeeps(next) ==
  /\ phase' = next
  /\ flags' = NoFlags /\ target' = Nothing /\ seen' = {}
  /\ UNCHANGED balances

\* check_and_liquidate returns and its locals are dropped.
EndCheck(next) ==
  /\ phase' = next
  /\ flags' = NoFlags /\ balances' = Nothing /\ target' = Nothing /\ seen' = {}

\* getUserAccountData: no debt, or a health factor of 1.0 and above, and the
\* check is over.
ReadAccount ==
  /\ phase = "account"
  /\ IF Indebted(account[who]) = {} \/ account[who].healthy
       THEN EndCheck("pick")
       ELSE phase' = "config" /\ seen' = {account[who]} /\ UNCHANGED locals
  /\ UNCHANGED <<env, known, todo, who, world>>

Word(a) == {2 * i : i \in Indebted(a)} \cup {2 * i + 1 : i \in a.enabled}

\* getUserConfiguration
ReadConfig ==
  /\ phase = "config"
  /\ flags' = [i \in Reserves |-> Decode(Narrowed(Word(account[who])), i)]
  /\ phase' = "reserves"
  /\ UNCHANGED <<env, known, todo, who, balances, target, world, seen>>

\* getUserReserveData of the next flagged reserve.
ReadReserve(i) ==
  /\ phase = "reserves"
  /\ i \in ToRead /\ \A j \in ToRead : i <= j
  /\ LET entry == [debt |-> account[who].debt[i], a_token |-> account[who].a_token[i],
                   is_borrowed |-> flags[i].borrowing, is_collateral |-> flags[i].collateral]
     IN  balances' = [j \in DOMAIN balances \cup {i} |-> IF j = i THEN entry ELSE balances[j]]
  /\ UNCHANGED <<env, phase, known, todo, who, flags, target, world, seen>>

\* select_liquidation_target, when every flagged reserve was read, and
\* encode_swap_params.  The flags and the balances are not looked at again.
Choose(d, c) ==
  /\ phase = "reserves" /\ ToRead = {}
  /\ Selects(balances, d, c)
  /\ FeeEncodes(env)
  /\ target' = [debt |-> d, collateral |-> c, cover |-> Half(balances[d].debt)]
  /\ flags' = NoFlags /\ balances' = Nothing
  /\ phase' = "send"
  /\ UNCHANGED <<env, known, todo, who, world, seen>>

\* A fee of more than 24 bits ends the process with a panic.
EncodePanics(d, c, saved) ==
  /\ phase = "reserves" /\ ToRead = {}
  /\ Selects(balances, d, c)
  /\ ~ FeeEncodes(env)
  /\ saved \subseteq known
  /\ known' = saved /\ todo' = {}
  /\ EndCheck("panicked")
  /\ UNCHANGED <<env, who, world>>

\* Seeded bug: None is not looked at.
ChooseNoneIgnored ==
  /\ phase = "reserves" /\ ToRead = {}
  /\ \A d, c \in Reserves : ~ Selects(balances, d, c)
  /\ phase' = "send"
  /\ UNCHANGED <<env, known, todo, check, world, seen>>

ChooseNone ==
  /\ phase = "reserves" /\ ToRead = {}
  /\ \A d, c \in Reserves : ~ Selects(balances, d, c)
  /\ EndCheck("pick")
  /\ UNCHANGED <<env, known, todo, who, world>>

\* The contract reverts without a pool, on a healthy position, when nothing is seized,
\* when it has no router of that name to sell another asset on, and when the sale
\* does not bring the loan, its premium and MIN_PROFIT.
Executes ==
  /\ HasPool(env)
  /\ ~ account[who].healthy
  /\ <<target.debt, target.collateral, target.cover>> \in account[who].pays
  /\ HasRouter(env) \/ target.debt = target.collateral

PoolFull == Len(SelectSeq(mempool, LAMBDA b : b = who)) = MaxPending[who]

\* executeLiquidation(..).send(): the gas estimate runs the call; then the
\* transaction is broadcast.  Nothing of the check but who is needed after it.
Send ==
  /\ phase = "send"
  /\ Executes /\ ~ PoolFull
  /\ mempool' = Append(mempool, who)
  /\ EndCheck("receipt")
  /\ UNCHANGED <<env, known, todo, who, account>>

\* The estimate reverts, or the node takes no more transactions.
SendFails ==
  /\ phase = "send"
  /\ ~ Executes \/ PoolFull
  /\ EndCheck("pick")
  /\ UNCHANGED <<env, known, todo, who, world>>

\* get_receipt() watches the chain, without a deadline, until the transaction is
\* mined; whether it succeeded or reverted makes no difference.
Receipt ==
  /\ phase = "receipt"
  /\ mempool = <<>>
  /\ EndCheck("pick")
  /\ UNCHANGED <<env, known, todo, who, world>>

\* A request of check_and_liquidate is under way.
Awaiting == phase \in {"account", "config", "send", "receipt"} \/ (phase = "reserves" /\ ToRead # {})

\* Seeded bug: an error in one check ends the pass.
CheckFailsPass ==
  /\ Awaiting
  /\ EndCheck("scan")
  /\ UNCHANGED <<env, known, todo, who, world>>

\* A request fails: main warns and goes on to the next borrower.
CheckFails ==
  /\ Awaiting
  /\ EndCheck("pick")
  /\ UNCHANGED <<env, known, todo, who, world>>

\* The node accepts the transaction, but its answer to send() is lost: for main the
\* check failed and there is no receipt to wait for; the transaction is pending.
SendUnheard ==
  /\ phase = "send"
  /\ Executes /\ ~ PoolFull
  /\ mempool' = Append(mempool, who)
  /\ EndCheck("pick")
  /\ UNCHANGED <<env, known, todo, who, account>>

\* The process ends, by a failed save of the registry among others; the next one
\* starts from the registry that was saved last.
Crash(saved) ==
  /\ ~ Down
  /\ saved \subseteq known
  /\ known' = saved
  /\ todo' = {}
  /\ EndCheck("down")
  /\ UNCHANGED <<env, who, world>>

-----------------------------------------------------------------------------
(* The operator and the chain *)

\* Whoever runs the bot gives the variable behind its complaint a value that is
\* right, and tries again.
Mend ==
  /\ Down
  /\ Complaint(env) # "none"
  /\ LET v == VariableOf(Complaint(env))
     IN  env' = [env EXCEPT !.given[v] = "set",
                            !.chain_id = IF v = "CHAIN_ID" THEN 8453 ELSE @,
                            !.sell_fee = IF v = "SELL_FEE_BPS" THEN 3000 ELSE @]
  /\ UNCHANGED <<phase, known, todo, check, world, seen>>

Witnessed(b, a) ==
  seen' = IF b = who /\ phase \in {"config", "reserves", "send"}
            THEN seen \cup {a} ELSE seen

\* Prices, interest, the borrower and other liquidators change an account.
AccountChanges(b, a) ==
  /\ account' = [account EXCEPT ![b] = a]
  /\ Witnessed(b, a)
  /\ UNCHANGED <<env, phase, known, todo, check, mempool>>

\* Transactions of a wallet are mined in nonce order.  One that reverts leaves
\* the account alone; the effect of one that succeeds is some other account.
Mine(a) ==
  /\ mempool # <<>>
  /\ LET b == Head(mempool)
     IN  /\ a = account[b] \/ (a \in Accounts[b] /\ ~ account[b].healthy)
         /\ account' = [account EXCEPT ![b] = a]
         /\ Witnessed(b, a)
  /\ mempool' = Tail(mempool)
  /\ UNCHANGED <<env, phase, known, todo, check>>

\* The steps the bot takes while its requests succeed.
BotStep ==
  \/ Boot \/ Sleep \/ ReadAccount \/ ReadConfig \/ ChooseNone
  \/ Send \/ SendFails \/ Receipt
  \/ \E new \in SUBSET Borrowers : Scan(new)
  \/ \E b \in Borrowers : Pick(b)
  \/ \E i \in Reserves : ReadReserve(i)
  \/ \E d, c \in Reserves : Choose(d, c) \/ \E saved \in SUBSET Borrowers : EncodePanics(d, c, saved)

Next ==
  \/ BotStep \/ CheckFails \/ SendUnheard \/ Mend
  \/ \E saved \in SUBSET Borrowers : Crash(saved)
  \/ \E b \in Borrowers : \E a \in Accounts[b] : AccountChanges(b, a)
  \/ \E a \in AllAccounts : Mine(a)

Spec == Init /\ [][Next]_vars
-----------------------------------------------------------------------------
(* Properties *)

Flag == [borrowing : BOOLEAN, collateral : BOOLEAN]
Balance == [debt : Nat, a_token : Nat, is_borrowed : BOOLEAN, is_collateral : BOOLEAN]
Target == [debt : Reserves, collateral : Reserves, cover : Nat]

\* The process is at an await, the registry and the pass hold borrowers, and
\* the check's flags, balances and target are those of reserves of the list.
TypeOK ==
  /\ env \in Environment
  /\ Down \/ phase \in {"scan", "pick", "account", "config", "reserves", "send", "receipt"}
  /\ known \subseteq Borrowers /\ todo \subseteq known
  /\ who \in Borrowers
  /\ flags \in [Reserves -> Flag]
  /\ DOMAIN balances \subseteq Reserves /\ \A i \in DOMAIN balances : balances[i] \in Balance
  /\ phase = "send" => target \in Target
  /\ mempool \in Seq(Borrowers)
  /\ account \in [Borrowers -> AllAccounts] /\ AccountsOfBorrowers
  /\ seen \subseteq AllAccounts

\* The decoder covers the reserves the pool lists: 64 of them (aave.rs, 53).
DecoderCovers == 2 * NumReserves <= Width

\* Nothing the bot is about to send is left over from another borrower, an
\* earlier pass or an attempt whose receipt was given up: each number of the
\* target was true of this borrower at some moment after this check saw its
\* health factor below 1.0 (main.rs, 84-121).
TargetOfThisCheck ==
  phase = "send" /\ DecoderCovers =>
    /\ \E a \in seen : ~ a.healthy
    /\ \E a \in seen : target.debt \in Indebted(a)
    /\ \E a \in seen : 0 < target.cover /\ 2 * target.cover <= a.debt[target.debt]
    /\ \E a \in seen : target.collateral \in a.enabled
    /\ \E a \in seen : a.a_token[target.collateral] > 0

\* A bot that runs is on the chain its settings name, one of the chains listed,
\* and a contract deployed there by the script has the pool the registry promises;
\* the two tables agree on pool and vault ("address(0)", Deploy.s.sol; "None",
\* chain_spec.rs).
ChainAsDeployed ==
  LET id == env.chain_id IN
  /\ ~ Down => id \in Supported /\ Spec_of(env).chain_id = id /\ HasPool(env)
           /\ Spec_of(env) \in all_chains
  /\ id \in Supported \cap Deployable =>
       /\ lending_protocol_available(Spec_of(env)) = Routers(id).aave
       /\ balancer_available(Spec_of(env)) = Routers(id).balancer

\* When the account stood still during the check, the target is its largest debt
\* and its largest enabled collateral (crates/liquidator/README.md, 3).
LargestIsTargeted ==
  phase = "send" /\ DecoderCovers => \A a \in seen : seen = {a} =>
    /\ \A i \in Reserves : a.debt[i] <= a.debt[target.debt]
    /\ \A i \in a.enabled : a.a_token[i] <= a.a_token[target.collateral]

\* Fairness: the process runs and crashes stop; every request is answered or fails,
\* although main sets no deadline of its own, except that a receipt may never come.
\* Requests about a borrower in
\* Answered succeed in the end when they are repeated; requests about the others
\* may fail for ever.  Whether transactions are mined is up to the chain.
Polling(b) == who = b /\ ReadAccount
Decoding(b) == who = b /\ ReadConfig
Reading(b, i) == who = b /\ ReadReserve(i)
Sending(b) == who = b /\ Send
Fairness ==
  /\ WF_vars(BotStep)
  /\ \A b \in Answered : /\ SF_vars(Polling(b)) /\ SF_vars(Decoding(b)) /\ SF_vars(Sending(b))
                         /\ \A i \in Reserves : SF_vars(Reading(b, i))
CrashesStop == <>[][\A saved \in SUBSET Borrowers : ~ Crash(saved)]_vars
UnminedSpec == Spec /\ Fairness /\ CrashesStop
LiveSpec == UnminedSpec /\ WF_vars(\E a \in AllAccounts : Mine(a)) /\ WF_vars(Mend)

\* A bot that refuses to start says what to change: mending the variables it
\* names, one at a time, gets it to run (settings.rs; main.rs, 25-36).
StartsWhenMended == []<>(~ Down)

\* "How often to re-poll known borrowers' health factors" (settings.rs, 34): every
\* known borrower is checked again and again, whatever fails for the others --
\* unless a fee that does not fit ends the process at the first position found.
EveryBorrowerPolled ==
  \A b \in Borrowers :
    <>[](b \in known /\ FeeEncodes(env)) => []<>(phase = "account" /\ who = b)

\* A position that stays as it is, below 1.0, with a debt and a collateral to choose,
\* is not passed over for ever when liquidating what the bot chooses pays: it is
\* broadcast (main.rs, 58-69).  A position that keeps changing may be passed over,
\* as its reserves are read one by one.
Liquidatable(a) ==
  /\ ~ a.healthy
  /\ \E i \in Reserves : a.debt[i] > 1
  /\ \E i \in a.enabled : a.a_token[i] > 0
LargestPays(a) ==
  \A d, c \in Reserves :
    /\ IsLargest(d, Indebted(a), a.debt)
    /\ IsLargest(c, {i \in a.enabled : a.a_token[i] > 0}, a.a_token)
    => <<d, c, Half(a.debt[d])>> \in a.pays
UnderwaterIsSent ==
  \A b \in Answered : \A a \in {x \in Accounts[b] : Liquidatable(x) /\ LargestPays(x)} :
    <>[](b \in known /\ account[b] = a /\ FeeEncodes(env) /\ HasRouter(env))
      => []<>(phase = "receipt" /\ who = b)

\* "Preview -- bot boots and monitors but refuses to broadcast trades"
\* (chain_spec.rs, 9-10).
PreviewNeverTrades ==
  env.chain_id \in Supported /\ Spec_of(env).status = "Preview" => mempool = <<>>

\* "Reserve i uses bits 2*i (borrowing enabled) and 2*i + 1 (used as collateral)"
\* (aave.rs, 41-43): a reserve is flagged as it was in some word the bot read.
DecodedAsDocumented ==
  phase = "reserves" => \A i \in Reserves :
    /\ flags[i].borrowing => \E a \in seen : i \in Indebted(a)
    /\ flags[i].collateral => \E a \in seen : i \in a.enabled
=============================================================================
