------------------------- MODULE LiquidationBot_proofs -------------------------
(***************************************************************************)
(* Proofs about LiquidationBot for any borrowers, reserves, accounts that  *)
(* change at any moment, settings, failing requests, crashes and panics.   *)
(***************************************************************************)
EXTENDS LiquidationBot, Ordering_proofs

USE ConstantsAssumption, WidthAssumption

LEMMA Typed == Init => TypeOK
<1> SUFFICES ASSUME Init PROVE TypeOK
  OBVIOUS
<1>1. env \in Environment /\ Down /\ known \subseteq Borrowers /\ todo \subseteq known
      /\ who \in Borrowers
  BY DEF Init, Down
<1>2. flags \in [Reserves -> Flag]
  BY DEF Init, NoFlags, Flag
<1>3. DOMAIN balances \subseteq Reserves /\ \A i \in DOMAIN balances : balances[i] \in Balance
  BY DEF Init, Nothing
<1>4. phase = "send" => target \in Target
  BY DEF Init
<1>5. mempool \in Seq(Borrowers)
  BY DEF Init
<1>6. account \in [Borrowers -> AllAccounts] /\ AccountsOfBorrowers /\ seen \subseteq AllAccounts
  BY DEF Init
<1> QED BY <1>1, <1>2, <1>3, <1>4, <1>5, <1>6 DEF TypeOK

\* The locals of a check that is over, or has not begun, have their types.
LEMMA Dropped ==
  /\ NoFlags \in [Reserves -> Flag]
  /\ DOMAIN Nothing = {}
<1>1. NoFlags \in [Reserves -> Flag]
  BY DEF NoFlags, Flag
<1>2. DOMAIN Nothing = {}
  BY DEF Nothing
<1> QED BY <1>1, <1>2

\* An account of b that some step gives it.
LEMMA AccountTyped ==
  ASSUME TypeOK, NEW b \in Borrowers, NEW a \in Accounts[b],
         account' = [account EXCEPT ![b] = a]
  PROVE  /\ account' \in [Borrowers -> AllAccounts] /\ AccountsOfBorrowers'
         /\ a \in AllAccounts
<1>1. a \in AllAccounts
  BY DEF AllAccounts
<1>2. account' \in [Borrowers -> AllAccounts]
  BY <1>1 DEF TypeOK
<1>3. AccountsOfBorrowers'
  BY DEF TypeOK, AccountsOfBorrowers
<1> QED BY <1>1, <1>2, <1>3

\* The steps that only move the process along and leave the locals alone.
LEMMA MovesTyped ==
  TypeOK /\ (Boot \/ (\E new \in SUBSET Borrowers : Scan(new)) \/ (\E b \in Borrowers : Pick(b)) \/ Sleep)
    => TypeOK'
<1> USE DEF TypeOK, check, locals, world
<1>1. ASSUME TypeOK, Boot PROVE TypeOK'
  BY <1>1 DEF Boot, Down, AccountsOfBorrowers
<1>2. ASSUME TypeOK, NEW new \in SUBSET Borrowers, Scan(new) PROVE TypeOK'
  BY <1>2 DEF Scan, Down, AccountsOfBorrowers
<1>3. ASSUME TypeOK, NEW b \in Borrowers, Pick(b) PROVE TypeOK'
  BY <1>3 DEF Pick, Down, AccountsOfBorrowers
<1>4. ASSUME TypeOK, Sleep PROVE TypeOK'
  BY <1>4 DEF Sleep, Down, AccountsOfBorrowers
<1> QED BY <1>1, <1>2, <1>3, <1>4

\* The ends of a check: its locals are dropped.
LEMMA EndsTyped ==
  ASSUME TypeOK, NEW next \in {"pick", "down", "panicked", "receipt"}, EndCheck(next),
         UNCHANGED <<env, who, account>>, known' \subseteq Borrowers, todo' \subseteq known',
         mempool' \in Seq(Borrowers)
  PROVE  TypeOK'
  BY Dropped DEF TypeOK, EndCheck, Down, AccountsOfBorrowers

LEMMA ReadsTyped ==
  ASSUME TypeOK,
         ReadAccount \/ ReadConfig \/ (\E i \in Reserves : ReadReserve(i))
           \/ ChooseNone \/ (\E d, c \in Reserves : Choose(d, c))
  PROVE  TypeOK'
<1> USE DEF TypeOK, locals, world, check
<1>1. ASSUME ReadAccount PROVE TypeOK'
  <2>1. CASE Indebted(account[who]) = {} \/ account[who].healthy
    BY <1>1, <2>1, EndsTyped DEF ReadAccount
  <2>2. CASE ~ (Indebted(account[who]) = {} \/ account[who].healthy)
    <3>1. account[who] \in AllAccounts
      OBVIOUS
    <3> QED BY <1>1, <2>2, <3>1 DEF ReadAccount, Down, AccountsOfBorrowers
  <2> QED BY <2>1, <2>2
<1>2. ASSUME ReadConfig PROVE TypeOK'
  <2>1. ASSUME NEW i \in Reserves
        PROVE  Decode(Narrowed(Word(account[who])), i) \in Flag
    BY DEF Decode, Bit, Flag
  <2>2. flags' \in [Reserves -> Flag]
    BY <1>2, <2>1 DEF ReadConfig
  <2> QED BY <1>2, <2>2 DEF ReadConfig, Down, AccountsOfBorrowers
<1>3. ASSUME NEW i \in Reserves, ReadReserve(i) PROVE TypeOK'
  <2> DEFINE entry == [debt |-> account[who].debt[i], a_token |-> account[who].a_token[i],
                       is_borrowed |-> flags[i].borrowing, is_collateral |-> flags[i].collateral]
  <2>1. account[who] \in Account
    BY DEF AccountsOfBorrowers
  <2>2. entry \in Balance
    BY <2>1 DEF Balance, Account, Flag
  <2>3. balances' = [j \in DOMAIN balances \cup {i} |-> IF j = i THEN entry ELSE balances[j]]
    BY <1>3 DEF ReadReserve
  <2> HIDE DEF entry
  <2>4. DOMAIN balances' \subseteq Reserves /\ \A j \in DOMAIN balances' : balances'[j] \in Balance
    BY <2>2, <2>3
  <2> QED BY <1>3, <2>4 DEF ReadReserve, Down, AccountsOfBorrowers
<1>4. ASSUME NEW d \in Reserves, NEW c \in Reserves, Choose(d, c) PROVE TypeOK'
  <2>1. balances[d].debt \in Nat
    BY <1>4 DEF Choose, Selects, IsLargest, Debts, Balance
  <2>2. Half(balances[d].debt) \in Nat
    BY <2>1 DEF Half
  <2>3. target' \in Target
    BY <1>4, <2>2 DEF Choose, Target
  <2>4. DOMAIN balances' = {} /\ flags' \in [Reserves -> Flag]
    BY <1>4, Dropped DEF Choose
  <2> QED BY <1>4, <2>3, <2>4 DEF Choose, Down, AccountsOfBorrowers
<1>5. ASSUME ChooseNone PROVE TypeOK'
  BY <1>5, EndsTyped DEF ChooseNone
<1> QED BY <1>1, <1>2, <1>3, <1>4, <1>5

LEMMA EndingsTyped ==
  ASSUME TypeOK,
         Send \/ SendUnheard \/ SendFails \/ Receipt \/ CheckFails
           \/ (\E saved \in SUBSET Borrowers : Crash(saved))
           \/ (\E d, c \in Reserves : \E saved \in SUBSET Borrowers : EncodePanics(d, c, saved))
  PROVE  TypeOK'
<1> USE DEF world
<1>1. CASE Send \/ SendUnheard
  <2>1. mempool \in Seq(Borrowers) /\ who \in Borrowers /\ mempool' = Append(mempool, who)
    BY <1>1 DEF Send, SendUnheard, TypeOK
  <2>2. mempool' \in Seq(Borrowers)
    BY <2>1
  <2> QED BY <1>1, <2>2, EndsTyped DEF Send, SendUnheard, TypeOK
<1>2. CASE SendFails
  BY <1>2, EndsTyped DEF SendFails, TypeOK
<1>3. CASE Receipt
  BY <1>3, EndsTyped DEF Receipt, TypeOK
<1>4. CASE CheckFails
  BY <1>4, EndsTyped DEF CheckFails, TypeOK
<1>5. ASSUME NEW saved \in SUBSET Borrowers, Crash(saved) PROVE TypeOK'
  BY <1>5, EndsTyped DEF Crash, TypeOK
<1>6. ASSUME NEW d \in Reserves, NEW c \in Reserves, NEW saved \in SUBSET Borrowers,
             EncodePanics(d, c, saved)
      PROVE  TypeOK'
  BY <1>6, EndsTyped DEF EncodePanics, TypeOK
<1> QED BY <1>1, <1>2, <1>3, <1>4, <1>5, <1>6

LEMMA WorldTyped ==
  ASSUME TypeOK,
         Mend \/ (\E b \in Borrowers : \E a \in Accounts[b] : AccountChanges(b, a))
           \/ (\E a \in AllAccounts : Mine(a))
  PROVE  TypeOK'
<1>1. CASE Mend
  <2>1. env' \in Environment
    <3> DEFINE v == VariableOf(Complaint(env))
               given == [env.given EXCEPT ![v] = "set"]
               id == IF v = "CHAIN_ID" THEN 8453 ELSE env.chain_id
               fee == IF v = "SELL_FEE_BPS" THEN 3000 ELSE env.sell_fee
               Answers == {"unset", "junk", "set"}
    <3>1. env.given \in [Names -> Answers] /\ id \in Nat /\ fee \in Nat
      BY DEF TypeOK, Environment
    <3>2. given \in [Names -> Answers]
      <4>1. "set" \in Answers
        OBVIOUS
      <4> HIDE DEF v, id, fee, Answers
      <4> QED BY <3>1, <4>1
    <3>3. env' = [env EXCEPT !.given = given, !.chain_id = id, !.sell_fee = fee]
      BY <1>1 DEF Mend
    <3> HIDE DEF given, id, fee
    <3> QED BY <3>1, <3>2, <3>3 DEF TypeOK, Environment
  <2> QED BY <1>1, <2>1 DEF Mend, TypeOK, Down, AccountsOfBorrowers, check, locals, world
<1>2. ASSUME NEW b \in Borrowers, NEW a \in Accounts[b], AccountChanges(b, a) PROVE TypeOK'
  <2>1. /\ account' \in [Borrowers -> AllAccounts] /\ AccountsOfBorrowers'
        /\ a \in AllAccounts
    BY <1>2, AccountTyped DEF AccountChanges
  <2> QED BY <1>2, <2>1 DEF AccountChanges, Witnessed, TypeOK, Down, check, locals
<1>3. ASSUME NEW a \in AllAccounts, Mine(a) PROVE TypeOK'
  <2> DEFINE b == Head(mempool)
  <2>1. b \in Borrowers /\ mempool' \in Seq(Borrowers)
    BY <1>3 DEF Mine, TypeOK
  <2>2. a \in Accounts[b]
    BY <1>3, <2>1 DEF Mine, TypeOK, AccountsOfBorrowers
  <2>3. account' = [account EXCEPT ![b] = a] /\ Witnessed(b, a)
    BY <1>3 DEF Mine
  <2> HIDE DEF b
  <2>4. account' \in [Borrowers -> AllAccounts] /\ AccountsOfBorrowers'
    BY <2>1, <2>2, <2>3, AccountTyped
  <2> QED BY <1>3, <2>1, <2>3, <2>4 DEF Mine, Witnessed, TypeOK, Down, check, locals
<1> QED BY <1>1, <1>2, <1>3

LEMMA TypeStep == TypeOK /\ [Next]_vars => TypeOK'
<1> SUFFICES ASSUME TypeOK, [Next]_vars PROVE TypeOK'
  OBVIOUS
<1>1. CASE UNCHANGED vars
  BY <1>1 DEF vars, check, locals, world, TypeOK, Down, AccountsOfBorrowers
<1>2. CASE BotStep
  BY <1>2, MovesTyped, ReadsTyped, EndingsTyped DEF BotStep
<1> QED BY <1>1, <1>2, EndingsTyped, WorldTyped DEF Next

\* The process, the registry, the check under way and the world keep their types.
THEOREM TypeCorrect == Spec => []TypeOK
<1> QED BY Typed, TypeStep, PTL DEF Spec
-----------------------------------------------------------------------------
(* What the check knows was true of its borrower *)

Checking == phase \in {"config", "reserves", "send"}

\* Nothing is kept between checks.
Idle ==
  /\ ~ Checking => seen = {}
  /\ phase # "reserves" => DOMAIN balances = {}

Unhealthy == Checking => account[who] \in seen /\ \E a \in seen : ~ a.healthy

\* Each flag was true at some moment, and all at once if the account stood still.
FlagsRead ==
  phase = "reserves" /\ DecoderCovers => \A i \in Reserves :
    /\ flags[i].borrowing => \E a \in seen : i \in Indebted(a)
    /\ flags[i].collateral => \E a \in seen : i \in a.enabled
    /\ \A a \in seen : seen = {a} =>
         (flags[i].borrowing <=> i \in Indebted(a)) /\ (flags[i].collateral <=> i \in a.enabled)

\* Each balance was true at some moment; its flags are those that were decoded.
BalancesRead ==
  phase = "reserves" => \A i \in DOMAIN balances :
    /\ balances[i].is_borrowed <=> flags[i].borrowing
    /\ balances[i].is_collateral <=> flags[i].collateral
    /\ \E a \in seen : balances[i].debt = a.debt[i] /\ balances[i].a_token = a.a_token[i]

Promises == TargetOfThisCheck /\ LargestIsTargeted

Known == Idle /\ Unhealthy /\ FlagsRead /\ BalancesRead /\ Promises
IInv == TypeOK /\ Known

\* A list that fits the width is decoded as it is documented: no reserve takes
\* another one's bits (aave.rs, 41-58).
LEMMA Decoded ==
  ASSUME DecoderCovers, NEW a \in Account, NEW i \in Reserves
  PROVE  LET flag == Decode(Narrowed(Word(a)), i)
         IN  (flag.borrowing <=> i \in Indebted(a)) /\ (flag.collateral <=> i \in a.enabled)
<1>1. i \in Nat /\ 2 * i + 1 < Width
  BY DEF DecoderCovers, Reserves
<1>2. Indebted(a) \subseteq Reserves /\ a.enabled \subseteq Reserves
  BY DEF Indebted, Account
<1>3. Word(a) \subseteq 0 .. Width - 1
  BY <1>2 DEF Word, DecoderCovers, Reserves
<1>4. Narrowed(Word(a)) = Word(a)
  BY <1>3 DEF Narrowed
<1>5. (2 * i) % Width = 2 * i /\ (2 * i + 1) % Width = 2 * i + 1
  BY <1>1
<1>6. /\ 2 * i \in Word(a) <=> i \in Indebted(a)
      /\ 2 * i + 1 \in Word(a) <=> i \in a.enabled
  BY <1>1, <1>2 DEF Word, Reserves
<1> QED BY <1>4, <1>5, <1>6 DEF Decode, Bit

LEMMA HalfIsHalf ==
  ASSUME NEW debt \in Nat PROVE Half(debt) \in Nat /\ 2 * Half(debt) <= debt
  BY DEF Half

\* Between checks there is nothing to know.
LEMMA NothingKnown ==
  ASSUME ~ Checking', seen' = {}, DOMAIN balances' = {} PROVE Known'
  BY DEF Known, Idle, Unhealthy, FlagsRead, BalancesRead, Promises, TargetOfThisCheck,
         LargestIsTargeted, Checking

\* The world may change the account at any moment: what was seen stays seen.
LEMMA WorldKeeps ==
  ASSUME IInv, UNCHANGED <<env, phase, who, flags, balances, target>>,
         seen \subseteq seen', ~ Checking => seen' = seen,
         Checking => account'[who] \in seen'
  PROVE  Known'
<1> USE DEF IInv, Known
<1>1. Idle'
  BY DEF Idle, Checking
<1>2. Unhealthy'
  BY DEF Unhealthy, Checking
<1>3. ASSUME Checking, NEW a \in seen', seen' = {a} PROVE a \in seen /\ seen = {a}
  BY <1>3 DEF Unhealthy
<1>4. FlagsRead'
  <2> SUFFICES ASSUME phase = "reserves", DecoderCovers, NEW i \in Reserves
               PROVE  /\ flags[i].borrowing => \E a \in seen' : i \in Indebted(a)
                      /\ flags[i].collateral => \E a \in seen' : i \in a.enabled
                      /\ \A a \in seen' : seen' = {a} =>
                           (flags[i].borrowing <=> i \in Indebted(a))
                             /\ (flags[i].collateral <=> i \in a.enabled)
    BY DEF FlagsRead, DecoderCovers
  <2>1. Checking
    BY DEF Checking
  <2> QED BY <2>1, <1>3 DEF FlagsRead
<1>5. BalancesRead'
  BY DEF BalancesRead
<1>6. TargetOfThisCheck'
  <2> SUFFICES ASSUME phase = "send", DecoderCovers
               PROVE  /\ \E a \in seen' : ~ a.healthy
                      /\ \E a \in seen' : target.debt \in Indebted(a)
                      /\ \E a \in seen' : 0 < target.cover /\ 2 * target.cover <= a.debt[target.debt]
                      /\ \E a \in seen' : target.collateral \in a.enabled
                      /\ \E a \in seen' : a.a_token[target.collateral] > 0
    BY DEF TargetOfThisCheck, DecoderCovers
  <2>1. TargetOfThisCheck
    BY DEF Promises
  <2> QED BY <2>1 DEF TargetOfThisCheck
<1>7. LargestIsTargeted'
  <2> SUFFICES ASSUME phase = "send", DecoderCovers, NEW a \in seen', seen' = {a}
               PROVE  /\ \A i \in Reserves : a.debt[i] <= a.debt[target.debt]
                      /\ \A i \in a.enabled : a.a_token[i] <= a.a_token[target.collateral]
    BY DEF LargestIsTargeted, DecoderCovers
  <2>1. Checking
    BY DEF Checking
  <2>2. LargestIsTargeted
    BY DEF Promises
  <2> QED BY <2>1, <2>2, <1>3 DEF LargestIsTargeted
<1> QED BY <1>1, <1>2, <1>4, <1>5, <1>6, <1>7 DEF Promises

\* A check begins by reading the health factor and goes on with the flags.
LEMMA ReadAccountLearns == ASSUME IInv, ReadAccount PROVE Known'
<1> USE DEF IInv, Known
<1>1. CASE Indebted(account[who]) = {} \/ account[who].healthy
  <2>1. ~ Checking' /\ seen' = {} /\ DOMAIN balances' = {}
    BY <1>1, Dropped DEF ReadAccount, EndCheck, Checking
  <2> QED BY <2>1, NothingKnown
<1>2. CASE ~ (Indebted(account[who]) = {} \/ account[who].healthy)
  <2>1. /\ phase' = "config" /\ seen' = {account[who]}
        /\ UNCHANGED <<who, account, flags, balances, target>>
    BY <1>2 DEF ReadAccount, locals, world
  <2>2. Idle' /\ Unhealthy'
    BY <1>2, <2>1 DEF Idle, Unhealthy, Checking, ReadAccount
  <2>3. FlagsRead' /\ BalancesRead' /\ Promises'
    BY <2>1 DEF FlagsRead, BalancesRead, Promises, TargetOfThisCheck, LargestIsTargeted
  <2> QED BY <2>2, <2>3
<1> QED BY <1>1, <1>2

LEMMA ReadConfigLearns == ASSUME IInv, ReadConfig PROVE Known'
<1> USE DEF IInv, Known
<1>1. /\ phase = "config" /\ phase' = "reserves"
      /\ flags' = [i \in Reserves |-> Decode(Narrowed(Word(account[who])), i)]
      /\ UNCHANGED <<who, account, balances, target, seen>>
  BY DEF ReadConfig, world
<1>2. Checking /\ account[who] \in seen /\ account[who] \in Account
  BY <1>1 DEF Checking, Unhealthy, TypeOK, AccountsOfBorrowers
<1>3. Idle' /\ Unhealthy'
  BY <1>1, <1>2 DEF Idle, Unhealthy, Checking
<1>4. FlagsRead'
  <2> SUFFICES ASSUME DecoderCovers, NEW i \in Reserves
               PROVE  /\ flags'[i].borrowing => \E a \in seen : i \in Indebted(a)
                      /\ flags'[i].collateral => \E a \in seen : i \in a.enabled
                      /\ \A a \in seen : seen = {a} =>
                           (flags'[i].borrowing <=> i \in Indebted(a))
                             /\ (flags'[i].collateral <=> i \in a.enabled)
    BY <1>1 DEF FlagsRead, DecoderCovers
  <2>1. /\ flags'[i].borrowing <=> i \in Indebted(account[who])
        /\ flags'[i].collateral <=> i \in account[who].enabled
    BY <1>1, <1>2, Decoded
  <2> QED BY <2>1, <1>2
<1>5. BalancesRead'
  BY <1>1 DEF BalancesRead, Idle
<1>6. Promises'
  BY <1>1 DEF Promises, TargetOfThisCheck, LargestIsTargeted
<1> QED BY <1>3, <1>4, <1>5, <1>6

LEMMA ReadReserveLearns == ASSUME IInv, NEW i \in Reserves, ReadReserve(i) PROVE Known'
<1> USE DEF IInv, Known
<1> DEFINE entry == [debt |-> account[who].debt[i], a_token |-> account[who].a_token[i],
                     is_borrowed |-> flags[i].borrowing, is_collateral |-> flags[i].collateral]
<1>1. /\ phase = "reserves" /\ UNCHANGED <<phase, who, account, flags, target, seen>>
      /\ balances' = [j \in DOMAIN balances \cup {i} |-> IF j = i THEN entry ELSE balances[j]]
  BY DEF ReadReserve, world
<1>2. account[who] \in seen
  BY <1>1 DEF Unhealthy, Checking
<1>3. BalancesRead'
  <2> SUFFICES ASSUME NEW j \in DOMAIN balances'
               PROVE  /\ balances'[j].is_borrowed <=> flags[j].borrowing
                      /\ balances'[j].is_collateral <=> flags[j].collateral
                      /\ \E a \in seen : /\ balances'[j].debt = a.debt[j]
                                         /\ balances'[j].a_token = a.a_token[j]
    BY <1>1 DEF BalancesRead
  <2>1. CASE j = i
    BY <1>1, <1>2, <2>1
  <2>2. CASE j # i
    <3>1. j \in DOMAIN balances /\ balances'[j] = balances[j]
      BY <1>1, <2>2
    <3> QED BY <1>1, <3>1 DEF BalancesRead
  <2> QED BY <2>1, <2>2
<1>4. Idle' /\ Unhealthy'
  BY <1>1 DEF Idle, Unhealthy, Checking
<1>5. FlagsRead'
  BY <1>1 DEF FlagsRead, DecoderCovers
<1>6. Promises'
  BY <1>1 DEF Promises, TargetOfThisCheck, LargestIsTargeted
<1> QED BY <1>3, <1>4, <1>5, <1>6

\* The step the promises are about: what is chosen was read.
LEMMA ChooseKeeps ==
  ASSUME IInv, NEW d \in Reserves, NEW c \in Reserves, Choose(d, c) PROVE Known'
<1> USE DEF IInv, Known
<1>1. /\ phase = "reserves" /\ ToRead = {} /\ Selects(balances, d, c) /\ FeeEncodes(env)
      /\ target' = [debt |-> d, collateral |-> c, cover |-> Half(balances[d].debt)]
      /\ phase' = "send" /\ DOMAIN balances' = {}
      /\ UNCHANGED <<env, who, account, seen>>
  BY Dropped DEF Choose, world
<1>2. /\ d \in DOMAIN balances /\ balances[d].is_borrowed /\ balances[d].debt > 0
      /\ c \in DOMAIN balances /\ balances[c].is_collateral /\ balances[c].a_token > 0
      /\ Half(balances[d].debt) > 0
  BY <1>1 DEF Selects, IsLargest, Debts, Collaterals
<1>3. Idle' /\ Unhealthy'
  BY <1>1 DEF Idle, Unhealthy, Checking
<1>4. FlagsRead' /\ BalancesRead'
  BY <1>1 DEF FlagsRead, BalancesRead
<1>5. TargetOfThisCheck'
  <2> SUFFICES ASSUME DecoderCovers
               PROVE  /\ \E a \in seen : ~ a.healthy
                      /\ \E a \in seen : d \in Indebted(a)
                      /\ \E a \in seen : /\ 0 < Half(balances[d].debt)
                                         /\ 2 * Half(balances[d].debt) <= a.debt[d]
                      /\ \E a \in seen : c \in a.enabled
                      /\ \E a \in seen : a.a_token[c] > 0
    BY <1>1 DEF TargetOfThisCheck, DecoderCovers
  <2>1. \E a \in seen : ~ a.healthy
    BY <1>1 DEF Unhealthy, Checking
  <2>2. (\E a \in seen : d \in Indebted(a)) /\ \E a \in seen : c \in a.enabled
    BY <1>1, <1>2 DEF BalancesRead, FlagsRead
  <2>3. \E a \in seen : 0 < Half(balances[d].debt) /\ 2 * Half(balances[d].debt) <= a.debt[d]
    <3>1. balances[d].debt \in Nat
      BY <1>2 DEF TypeOK, Balance
    <3>2. 2 * Half(balances[d].debt) <= balances[d].debt
      BY <3>1, HalfIsHalf
    <3> QED BY <1>1, <1>2, <3>2 DEF BalancesRead
  <2>4. \E a \in seen : a.a_token[c] > 0
    BY <1>1, <1>2 DEF BalancesRead
  <2> QED BY <2>1, <2>2, <2>3, <2>4
<1>6. LargestIsTargeted'
  <2> SUFFICES ASSUME DecoderCovers, NEW a \in seen, seen = {a}
               PROVE  /\ \A i \in Reserves : a.debt[i] <= a.debt[d]
                      /\ \A i \in a.enabled : a.a_token[i] <= a.a_token[c]
    BY <1>1 DEF LargestIsTargeted, DecoderCovers
  <2>1. a \in Account
    BY <1>1 DEF Unhealthy, Checking, TypeOK, AccountsOfBorrowers
  <2>2. \A i \in DOMAIN balances : balances[i].debt = a.debt[i] /\ balances[i].a_token = a.a_token[i]
    BY <1>1 DEF BalancesRead
  <2>3. ASSUME NEW i \in Reserves, a.debt[i] > 0 PROVE i \in Debts(balances)
    <3>1. flags[i].borrowing
      BY <1>1, <2>3 DEF FlagsRead, Indebted
    <3>2. i \in DOMAIN balances
      BY <1>1, <3>1 DEF ToRead, Flagged
    <3> QED BY <1>1, <2>2, <2>3, <3>1, <3>2 DEF BalancesRead, Debts
  <2>4. ASSUME NEW i \in a.enabled, a.a_token[i] > 0 PROVE i \in Collaterals(balances)
    <3>1. i \in Reserves
      BY <2>1 DEF Account
    <3>2. flags[i].collateral
      BY <1>1, <3>1 DEF FlagsRead
    <3>3. i \in DOMAIN balances
      BY <1>1, <3>1, <3>2 DEF ToRead, Flagged
    <3> QED BY <1>1, <2>2, <2>4, <3>2, <3>3 DEF BalancesRead, Collaterals
  <2>5. ASSUME NEW i \in Reserves PROVE a.debt[i] <= a.debt[d]
    <3>1. a.debt[i] \in Nat /\ a.debt[d] \in Nat
      BY <2>1 DEF Account
    <3>2. CASE a.debt[i] > 0
      <4>1. i \in Debts(balances) /\ i \in DOMAIN balances
        BY <2>3, <3>2 DEF Debts
      <4>2. balances[i].debt <= balances[d].debt
        <5> DEFINE key == DebtOf(balances)
        <5>1. key[i] = balances[i].debt /\ key[d] = balances[d].debt
          BY <1>2, <4>1 DEF DebtOf
        <5>2. key[i] < key[d] \/ key[i] = key[d]
          BY <1>1, <4>1 DEF Selects, IsLargest
        <5>3. balances[i].debt \in Nat /\ balances[d].debt \in Nat
          BY <1>2, <2>2, <3>1, <4>1
        <5> HIDE DEF key
        <5> QED BY <5>1, <5>2, <5>3
      <4> QED BY <1>2, <2>2, <4>1, <4>2
    <3> QED BY <3>1, <3>2
  <2>6. ASSUME NEW i \in a.enabled PROVE a.a_token[i] <= a.a_token[c]
    <3>1. i \in Reserves /\ a.a_token[i] \in Nat /\ a.a_token[c] \in Nat
      BY <2>1 DEF Account
    <3>2. CASE a.a_token[i] > 0
      <4>1. i \in Collaterals(balances) /\ i \in DOMAIN balances
        BY <2>4, <3>2 DEF Collaterals
      <4>2. balances[i].a_token <= balances[c].a_token
        <5> DEFINE key == ATokenOf(balances)
        <5>1. key[i] = balances[i].a_token /\ key[c] = balances[c].a_token
          BY <1>2, <4>1 DEF ATokenOf
        <5>2. key[i] < key[c] \/ key[i] = key[c]
          BY <1>1, <4>1 DEF Selects, IsLargest
        <5>3. balances[i].a_token \in Nat /\ balances[c].a_token \in Nat
          BY <1>2, <2>2, <3>1, <4>1
        <5> HIDE DEF key
        <5> QED BY <5>1, <5>2, <5>3
      <4> QED BY <1>2, <2>2, <4>1, <4>2
    <3> QED BY <3>1, <3>2
  <2> QED BY <2>5, <2>6
<1> QED BY <1>3, <1>4, <1>5, <1>6 DEF Promises

\* Every other end of a check, and every step outside of one.
LEMMA ChecksEnd ==
  ASSUME IInv,
         Boot \/ (\E new \in SUBSET Borrowers : Scan(new)) \/ (\E b \in Borrowers : Pick(b))
           \/ Sleep \/ ChooseNone \/ Send \/ SendUnheard \/ SendFails \/ Receipt \/ CheckFails
           \/ (\E saved \in SUBSET Borrowers : Crash(saved))
           \/ (\E d, c \in Reserves : \E saved \in SUBSET Borrowers : EncodePanics(d, c, saved))
  PROVE  Known'
<1> USE DEF IInv, Known, Idle
<1>1. CASE Boot \/ (\E new \in SUBSET Borrowers : Scan(new)) \/ (\E b \in Borrowers : Pick(b))
             \/ Sleep
  <2>1. ~ Checking /\ phase # "reserves" /\ ~ Checking' /\ UNCHANGED <<balances, seen>>
    BY <1>1 DEF Boot, Scan, Pick, Sleep, Down, Checking, check, locals
  <2> QED BY <2>1, NothingKnown
<1>2. ASSUME NEW next \in {"pick", "down", "panicked", "receipt"}, EndCheck(next) PROVE Known'
  BY <1>2, NothingKnown, Dropped DEF EndCheck, Checking
<1>3. CASE ChooseNone \/ Send \/ SendUnheard \/ SendFails \/ Receipt \/ CheckFails
  BY <1>2, <1>3 DEF ChooseNone, Send, SendUnheard, SendFails, Receipt, CheckFails
<1>4. ASSUME NEW saved \in SUBSET Borrowers, Crash(saved) PROVE Known'
  BY <1>2, <1>4 DEF Crash
<1>5. ASSUME NEW d \in Reserves, NEW c \in Reserves, NEW saved \in SUBSET Borrowers,
             EncodePanics(d, c, saved)
      PROVE  Known'
  BY <1>2, <1>5 DEF EncodePanics
<1> QED BY <1>1, <1>3, <1>4, <1>5

LEMMA WorldMoves ==
  ASSUME IInv,
         Mend \/ (\E b \in Borrowers : \E a \in Accounts[b] : AccountChanges(b, a))
           \/ (\E a \in AllAccounts : Mine(a))
  PROVE  Known'
<1>1. CASE Mend
  <2>1. ~ Checking /\ phase # "reserves" /\ ~ Checking' /\ UNCHANGED <<balances, seen>>
    BY <1>1 DEF Mend, Down, Checking, check, locals
  <2> QED BY <2>1, NothingKnown DEF IInv, Known, Idle
<1>2. ASSUME NEW b \in Borrowers, NEW a, account' = [account EXCEPT ![b] = a], Witnessed(b, a),
             UNCHANGED <<env, phase, who, flags, balances, target>>
      PROVE  Known'
  <2>1. seen \subseteq seen' /\ (~ Checking => seen' = seen)
    BY <1>2 DEF Witnessed, Checking
  <2>2. Checking => account'[who] \in seen'
    BY <1>2 DEF Witnessed, Checking, IInv, Known, Unhealthy, TypeOK
  <2> QED BY <1>2, <2>1, <2>2, WorldKeeps
<1>3. ASSUME NEW b \in Borrowers, NEW a \in Accounts[b], AccountChanges(b, a) PROVE Known'
  BY <1>2, <1>3 DEF AccountChanges, check, locals
<1>4. ASSUME NEW a \in AllAccounts, Mine(a) PROVE Known'
  <2>1. Head(mempool) \in Borrowers
    BY <1>4 DEF Mine, IInv, TypeOK
  <2> QED BY <1>2, <1>4, <2>1 DEF Mine, check, locals
<1> QED BY <1>1, <1>3, <1>4

LEMMA InitInv == Init => IInv
<1> SUFFICES ASSUME Init PROVE IInv
  OBVIOUS
<1>1. TypeOK /\ ~ Checking /\ seen = {} /\ DOMAIN balances = {}
  BY Typed, Dropped DEF Init, Checking
<1>2. Known
  BY <1>1 DEF Known, Idle, Unhealthy, FlagsRead, BalancesRead, Promises, TargetOfThisCheck,
              LargestIsTargeted, Checking
<1> QED BY <1>1, <1>2 DEF IInv

LEMMA StepInv == IInv /\ [Next]_vars => IInv'
<1> SUFFICES ASSUME IInv, [Next]_vars PROVE IInv'
  OBVIOUS
<1>1. TypeOK'
  BY TypeStep DEF IInv
<1>2. Known'
  <2>1. CASE UNCHANGED vars
    BY <2>1, WorldKeeps DEF vars, check, locals, world, IInv, Known, Unhealthy
  <2>2. CASE BotStep
    BY <2>2, ChecksEnd, ReadAccountLearns, ReadConfigLearns, ReadReserveLearns, ChooseKeeps
       DEF BotStep
  <2> QED BY <2>1, <2>2, ChecksEnd, WorldMoves DEF Next
<1> QED BY <1>1, <1>2 DEF IInv

LEMMA Invariance == Spec => []IInv
<1> QED BY InitInv, StepInv, PTL DEF Spec

\* Whatever changes during a check, and whatever fails before it: each number the
\* bot is about to send was true of this borrower after it was seen below 1.0.
THEOREM TargetsAreOfThisCheck == Spec => []TargetOfThisCheck
<1>1. IInv => TargetOfThisCheck
  BY DEF IInv, Known, Promises
<1> QED BY <1>1, Invariance, PTL

\* For any account that stands still, its largest debt and collateral are chosen.
THEOREM TargetsAreLargest == Spec => []LargestIsTargeted
<1>1. IInv => LargestIsTargeted
  BY DEF IInv, Known, Promises
<1> QED BY <1>1, Invariance, PTL
-----------------------------------------------------------------------------
(* What the liveness properties rest on: an underwater position is chosen *)

\* max_by_key of reserves that are not empty returns one of them.
LEMMA LargestExists ==
  ASSUME NEW S \in SUBSET Reserves, S # {}, NEW key, \A i \in S : key[i] \in Nat
  PROVE  \E i \in S : IsLargest(i, S, key)
<1> DEFINE Upto(n) == S \cap (0 .. n - 1)
           Found(n) == Upto(n) # {} => \E i \in Upto(n) : IsLargest(i, Upto(n), key)
<1>1. Found(0)
  OBVIOUS
<1>2. ASSUME NEW n \in Nat, Found(n) PROVE Found(n + 1)
  <2>1. CASE n \notin S
    <3>1. Upto(n + 1) = Upto(n)
      BY <2>1 DEF Reserves
    <3> QED BY <1>2, <3>1
  <2>2. CASE n \in S
    <3>1. Upto(n + 1) = Upto(n) \cup {n} /\ n \in Upto(n + 1)
      BY <2>2 DEF Reserves
    <3>2. \A j \in Upto(n) : key[j] \in Nat /\ j \in Int /\ j < n
      BY DEF Reserves
    <3>3. key[n] \in Nat
      BY <2>2
    <3>4. CASE \A j \in Upto(n) : key[j] <= key[n]
      <4>1. \A j \in Upto(n + 1) : key[j] < key[n] \/ (key[j] = key[n] /\ j <= n)
        BY <3>1, <3>2, <3>3, <3>4
      <4> QED BY <3>1, <4>1 DEF IsLargest
    <3>5. CASE ~ \A j \in Upto(n) : key[j] <= key[n]
      <4>1. PICK j \in Upto(n) : ~ (key[j] <= key[n])
        BY <3>5
      <4>2. PICK i \in Upto(n) : IsLargest(i, Upto(n), key)
        BY <1>2, <4>1
      <4>3. key[n] < key[i]
        BY <3>2, <3>3, <4>1, <4>2 DEF IsLargest
      <4>4. \A k \in Upto(n + 1) : key[k] < key[i] \/ (key[k] = key[i] /\ k <= i)
        BY <3>1, <4>2, <4>3 DEF IsLargest
      <4> QED BY <3>1, <4>2, <4>4 DEF IsLargest
    <3> QED BY <3>4, <3>5
  <2> QED BY <2>1, <2>2
<1> HIDE DEF Found
<1>3. Found(NumReserves)
  <2> DEFINE T == {n \in Nat : Found(n)}
  <2>1. 0 \in T /\ \A n \in 0 .. NumReserves - 1 : n \in T => n + 1 \in T
    BY <1>1, <1>2
  <2> HIDE DEF T
  <2>2. 0 .. NumReserves \subseteq T
    BY <2>1, UpTo
  <2>3. NumReserves \in 0 .. NumReserves
    OBVIOUS
  <2> QED BY <2>2, <2>3 DEF T
<1>4. Upto(NumReserves) = S
  BY DEF Reserves
<1> QED BY <1>3, <1>4 DEF Found

\* An account that stood still below 1.0, with a debt that half of is something
\* and an enabled collateral, always gets a target, whatever its reserves are and
\* in whatever order the largest of them come.
UnderwaterIsChosen ==
  phase = "reserves" /\ ToRead = {} /\ DecoderCovers =>
    \A a \in seen : seen = {a} /\ Liquidatable(a) =>
      \E d, c \in Reserves : Selects(balances, d, c)

\* select_liquidation_target returns None for no position that can be liquidated:
\* what UnderwaterIsSent rests on, for any list of reserves the decoder covers
\* (select.rs; main.rs, 84-121).
THEOREM UnderwaterGetsATarget == Spec => []UnderwaterIsChosen
<1>1. IInv => UnderwaterIsChosen
  <2> SUFFICES ASSUME IInv, phase = "reserves", ToRead = {}, DecoderCovers,
                      NEW a \in seen, seen = {a}, Liquidatable(a)
               PROVE  \E d, c \in Reserves : Selects(balances, d, c)
    BY DEF UnderwaterIsChosen
  <2> USE DEF IInv, Known
  <2>1. a \in Account
    BY DEF Unhealthy, Checking, TypeOK, AccountsOfBorrowers
  <2>2. \A i \in DOMAIN balances : balances[i].debt = a.debt[i] /\ balances[i].a_token = a.a_token[i]
    BY DEF BalancesRead
  <2>3. DOMAIN balances \subseteq Reserves
    BY DEF TypeOK
  <2>4. ASSUME NEW i \in Reserves, a.debt[i] > 0 PROVE i \in Debts(balances)
    <3>1. flags[i].borrowing
      BY <2>4 DEF FlagsRead, Indebted
    <3>2. i \in DOMAIN balances
      BY <3>1 DEF ToRead, Flagged
    <3> QED BY <2>2, <2>4, <3>1, <3>2 DEF BalancesRead, Debts
  <2>5. ASSUME NEW i \in a.enabled, a.a_token[i] > 0 PROVE i \in Collaterals(balances)
    <3>1. i \in Reserves
      BY <2>1 DEF Account
    <3>2. flags[i].collateral
      BY <3>1 DEF FlagsRead
    <3>3. i \in DOMAIN balances
      BY <3>1, <3>2 DEF ToRead, Flagged
    <3> QED BY <2>2, <2>5, <3>2, <3>3 DEF BalancesRead, Collaterals
  <2>6. PICK d0 \in Reserves : a.debt[d0] > 1
    BY DEF Liquidatable
  <2>7. a.debt[d0] \in Nat
    BY <2>1 DEF Account
  <2>8. d0 \in Debts(balances) /\ d0 \in DOMAIN balances
    BY <2>4, <2>6, <2>7 DEF Debts
  <2>9. PICK d \in Debts(balances) : IsLargest(d, Debts(balances), DebtOf(balances))
    <3>1. Debts(balances) \in SUBSET Reserves
      BY <2>3 DEF Debts
    <3>2. \A i \in Debts(balances) : DebtOf(balances)[i] \in Nat
      BY DEF Debts, DebtOf, TypeOK, Balance
    <3> QED BY <2>8, <3>1, <3>2, LargestExists
  <2>10. PICK c \in Collaterals(balances) : IsLargest(c, Collaterals(balances), ATokenOf(balances))
    <3>1. Collaterals(balances) \in SUBSET Reserves
      BY <2>3 DEF Collaterals
    <3>2. \A i \in Collaterals(balances) : ATokenOf(balances)[i] \in Nat
      BY DEF Collaterals, ATokenOf, TypeOK, Balance
    <3>3. Collaterals(balances) # {}
      BY <2>5 DEF Liquidatable
    <3> QED BY <3>1, <3>2, <3>3, LargestExists
  <2>11. d \in DOMAIN balances /\ d \in Reserves /\ c \in Reserves
    BY <2>3 DEF Debts, Collaterals
  <2>12. Half(balances[d].debt) > 0
    <3> DEFINE key == DebtOf(balances)
    <3>1. key[d] = balances[d].debt /\ key[d0] = balances[d0].debt
      BY <2>8, <2>11 DEF DebtOf
    <3>2. key[d0] < key[d] \/ key[d0] = key[d]
      BY <2>8, <2>9 DEF IsLargest
    <3>3. balances[d].debt \in Nat /\ balances[d0].debt > 1 /\ balances[d0].debt \in Nat
      BY <2>2, <2>6, <2>7, <2>8, <2>11 DEF TypeOK, Balance
    <3> HIDE DEF key
    <3>4. balances[d].debt > 1
      BY <3>1, <3>2, <3>3
    <3> QED BY <3>3, <3>4 DEF Half
  <2> QED BY <2>9, <2>10, <2>11, <2>12 DEF Selects
<1> QED BY <1>1, Invariance, PTL
-----------------------------------------------------------------------------
(* What has started is set up for a chain the contract can work on *)

LEMMA LeastExists ==
  ASSUME NEW F \in SUBSET (1 .. 13), F # {}
  PROVE  Min(F) \in F
<1>1. \E k \in F : \A j \in F : k <= j
  BY LeastNumber
<1> QED BY <1>1 DEF Min

\* Every message names a variable or the chain.
LEMMA MessagesName == \A k \in 1 .. 13 : Checks(env)[k][1] \in Names \cup {"chain"}
<1>1. \A k \in 1 .. 9 : FromEnv(env)[k][1] \in Names
  BY DEF FromEnv, Names
<1>2. \A k \in 1 .. 4 : InMain(env)[k][1] \in Names \cup {"chain"}
  BY DEF InMain, Names
<1>3. \A k \in 10 .. 13 : k - 9 \in 1 .. 4
  OBVIOUS
<1> QED BY <1>1, <1>2, <1>3 DEF Checks

\* The two checks of the chain are the tenth and the eleventh.
LEMMA InMainChecks ==
  ASSUME NEW e
  PROVE  /\ Checks(e)[10] = <<"chain", e.chain_id \in Supported>>
         /\ Checks(e)[11] = <<"chain", e.chain_id \in Supported
                                         => lending_protocol_available(Spec_of(e))>>
<1>1. Checks(e)[10] = InMain(e)[1] /\ Checks(e)[11] = InMain(e)[2]
  <2>1. 10 - 9 = 1 /\ 11 - 9 = 2 /\ 10 \in 1 .. 13 /\ 11 \in 1 .. 13 /\ ~ 10 <= 9 /\ ~ 11 <= 9
    OBVIOUS
  <2> QED BY <2>1 DEF Checks
<1> DEFINE listed == e.chain_id \in Supported
           pool == e.chain_id \in Supported => lending_protocol_available(Spec_of(e))
           key == ParsesIfSet(e, "PRIVATE_KEY")
           url == ParsesIfSet(e, "RPC_URL")
<1>2. InMain(e) = << <<"chain", listed>>, <<"chain", pool>>, <<"PRIVATE_KEY", key>>,
                     <<"RPC_URL", url>> >>
  BY DEF InMain
<1>3. InMain(e)[1] = <<"chain", listed>> /\ InMain(e)[2] = <<"chain", pool>>
  <2> HIDE DEF listed, pool, key, url
  <2> QED BY <1>2
<1> QED BY <1>1, <1>3

\* A bot that complains of nothing passed every check, those of its chain included.
LEMMA NoComplaint ==
  ASSUME Complaint(env) = "none"
  PROVE  env.chain_id \in Supported /\ lending_protocol_available(Spec_of(env))
<1> DEFINE checks == Checks(env)
           listed == env.chain_id \in Supported
           pool == listed => lending_protocol_available(Spec_of(env))
<1>1. DOMAIN checks = 1 .. 13
  BY DEF Checks
<1>2. \A k \in 1 .. 13 : checks[k][1] # "none"
  BY MessagesName DEF Names
<1>3. checks[10] = <<"chain", listed>> /\ checks[11] = <<"chain", pool>>
  BY InMainChecks
<1>4. Complaint(env) = IF Failed(checks) = {} THEN "none" ELSE checks[Min(Failed(checks))][1]
  BY DEF Complaint
<1> HIDE DEF checks
<1>5. Failed(checks) \subseteq 1 .. 13
  BY <1>1 DEF Failed
<1>6. Failed(checks) = {}
  BY <1>2, <1>4, <1>5, LeastExists
<1>7. checks[10][2] /\ checks[11][2]
  BY <1>1, <1>6 DEF Failed
<1>8. listed /\ pool
  <2> HIDE DEF listed, pool
  <2> QED BY <1>3, <1>7
<1> QED BY <1>8

\* The two tables, chain by chain.
LEMMA TablesAgree ==
  ASSUME NEW id \in Supported
  PROVE  /\ for_chain_id(id).chain_id = id /\ for_chain_id(id) \in all_chains
         /\ id \in Deployable =>
              /\ lending_protocol_available(for_chain_id(id)) = Routers(id).aave
              /\ balancer_available(for_chain_id(id)) = Routers(id).balancer
<1>1. CASE id = 8453
  <2>1. for_chain_id(id) = BASE_MAINNET
    BY <1>1 DEF for_chain_id
  <2>2. Routers(id).aave = TRUE /\ Routers(id).balancer = TRUE
    BY <1>1 DEF Routers
  <2>3. BASE_MAINNET.aave_pool = TRUE /\ BASE_MAINNET.balancer_vault = TRUE
    BY DEF BASE_MAINNET, ChainSpec
  <2>4. BASE_MAINNET.chain_id = id /\ BASE_MAINNET \in all_chains
    BY <1>1 DEF BASE_MAINNET, ChainSpec, all_chains
  <2>5. /\ lending_protocol_available(for_chain_id(id)) = TRUE
        /\ balancer_available(for_chain_id(id)) = TRUE
    BY <2>1, <2>3 DEF lending_protocol_available, balancer_available
  <2>6. for_chain_id(id).chain_id = id /\ for_chain_id(id) \in all_chains
    BY <2>1, <2>4
  <2>7. /\ lending_protocol_available(for_chain_id(id)) = Routers(id).aave
        /\ balancer_available(for_chain_id(id)) = Routers(id).balancer
    BY <2>2, <2>5
  <2> QED BY <2>6, <2>7
<1>2. CASE id = 41454
  <2>1. for_chain_id(id) = MONAD
    BY <1>2 DEF for_chain_id
  <2>2. Routers(id).aave = FALSE /\ Routers(id).balancer = FALSE
    BY <1>2 DEF Routers
  <2>3. MONAD.aave_pool = FALSE /\ MONAD.balancer_vault = FALSE
    BY DEF MONAD, ChainSpec
  <2>4. MONAD.chain_id = id /\ MONAD \in all_chains
    BY <1>2 DEF MONAD, ChainSpec, all_chains
  <2>5. /\ lending_protocol_available(for_chain_id(id)) = FALSE
        /\ balancer_available(for_chain_id(id)) = FALSE
    BY <2>1, <2>3 DEF lending_protocol_available, balancer_available
  <2>6. for_chain_id(id).chain_id = id /\ for_chain_id(id) \in all_chains
    BY <2>1, <2>4
  <2>7. /\ lending_protocol_available(for_chain_id(id)) = Routers(id).aave
        /\ balancer_available(for_chain_id(id)) = Routers(id).balancer
    BY <2>2, <2>5
  <2> QED BY <2>6, <2>7
<1>3. CASE id = 1
  BY <1>3 DEF for_chain_id, ETHEREUM_MAINNET, ChainSpec, all_chains, Deployable
<1>4. CASE id = 42161
  BY <1>4 DEF for_chain_id, ARBITRUM_ONE, ChainSpec, all_chains, Deployable
<1>5. CASE id = 10
  BY <1>5 DEF for_chain_id, OPTIMISM, ChainSpec, all_chains, Deployable
<1>6. CASE id = 137
  BY <1>6 DEF for_chain_id, POLYGON, ChainSpec, all_chains, Deployable
<1>7. CASE id = 56
  BY <1>7 DEF for_chain_id, BNB_CHAIN, ChainSpec, all_chains, Deployable
<1> QED BY <1>1, <1>2, <1>3, <1>4, <1>5, <1>6, <1>7 DEF Supported

\* Only settings without a complaint get the bot to run, and they do not change
\* while it runs.
StartedWell == ~ Down => Complaint(env) = "none"

\* For any settings, mended in any order: a bot that runs is on a listed chain
\* whose contract has a pool (main.rs, 25-36).
THEOREM ChainsAreAsDeployed == Spec => []ChainAsDeployed
<1>1. Init => StartedWell
  BY DEF Init, Down, StartedWell
<1>2. StartedWell /\ [Next]_vars => StartedWell'
  <2> SUFFICES ASSUME StartedWell, [Next]_vars PROVE StartedWell'
    OBVIOUS
  <2>1. CASE Boot
    BY <2>1 DEF Boot, StartedWell
  <2>2. CASE Mend
    BY <2>2 DEF Mend, StartedWell, Down
  <2>3. ASSUME UNCHANGED env, ~ Down \/ Down' PROVE StartedWell'
    BY <2>3 DEF StartedWell, Down
  <2> QED BY <2>1, <2>2, <2>3
          DEF Next, BotStep, Down, Scan, Pick, Sleep, ReadAccount, ReadConfig, ReadReserve, Choose,
              EncodePanics, ChooseNone, Send, SendUnheard, SendFails, Receipt, CheckFails,
              Awaiting, Crash, AccountChanges, Mine, vars, EndCheck
<1>3. StartedWell => ChainAsDeployed
  <2> SUFFICES ASSUME StartedWell PROVE ChainAsDeployed
    OBVIOUS
  <2>1. ASSUME env.chain_id \in Supported \cap Deployable
        PROVE  /\ lending_protocol_available(Spec_of(env)) = Routers(env.chain_id).aave
               /\ balancer_available(Spec_of(env)) = Routers(env.chain_id).balancer
    BY <2>1, TablesAgree DEF Spec_of
  <2>2. ASSUME ~ Down
        PROVE  /\ env.chain_id \in Supported /\ Spec_of(env).chain_id = env.chain_id
               /\ HasPool(env) /\ Spec_of(env) \in all_chains
    <3>1. env.chain_id \in Supported /\ lending_protocol_available(Spec_of(env))
      BY <2>2, NoComplaint DEF StartedWell
    <3> QED BY <2>1, <3>1, TablesAgree DEF Spec_of, HasPool
  <2> QED BY <2>1, <2>2 DEF ChainAsDeployed
<1> QED BY <1>1, <1>2, <1>3, PTL DEF Spec
-----------------------------------------------------------------------------
(* What the liveness properties rest on: mending comes to an end *)

\* Every check passes that passed before, and the one that failed first, too.
Wrong(settings) == Failed(Checks(settings))
MendingHelps == [][Mend => Wrong(env') \subseteq Wrong(env) /\ Wrong(env') # Wrong(env)]_vars

\* The settings after the operator has followed the message.
LEMMA Mended ==
  ASSUME env \in Environment, Mend, NEW v, v = VariableOf(Complaint(env)), v \in Names
  PROVE  /\ env'.given[v] = "set" /\ \A n \in Names \ {v} : env'.given[n] = env.given[n]
         /\ env'.chain_id = IF v = "CHAIN_ID" THEN 8453 ELSE env.chain_id
  BY DEF Mend, Environment

\* Setting a variable to something that is right breaks no check, and passes those
\* it is behind.
LEMMA ChecksImprove ==
  ASSUME env \in Environment, NEW v \in Names,
         env'.given[v] = "set", \A n \in Names \ {v} : env'.given[n] = env.given[n],
         env'.chain_id = IF v = "CHAIN_ID" THEN 8453 ELSE env.chain_id,
         NEW k \in 1 .. 13
  PROVE  /\ Checks(env)[k][2] => Checks(env')[k][2]
         /\ VariableOf(Checks(env)[k][1]) = v => Checks(env')[k][2]
<1> DEFINE name(j) == Checks(env)[j][1]
<1>1. /\ "RPC_URL" \in Names /\ "PRIVATE_KEY" \in Names /\ "CONTRACT_ADDRESS" \in Names
      /\ "CHAIN_ID" \in Names /\ "AAVE_POOL_DATA_PROVIDER" \in Names
      /\ "DISCOVERY_START_BLOCK" \in Names /\ "MIN_PROFIT" \in Names
      /\ "SELL_FEE_BPS" \in Names /\ "POLL_INTERVAL_SECS" \in Names
  BY DEF Names
<1>2. ASSUME NEW n \in Names
      PROVE  /\ Present(env, n) => Present(env', n)
             /\ Parses(env, n) => Parses(env', n)
             /\ ParsesIfSet(env, n) => ParsesIfSet(env', n)
             /\ n = v => Present(env', n) /\ Parses(env', n) /\ ParsesIfSet(env', n)
  BY DEF Present, Parses, ParsesIfSet
<1>3. 8453 \in Supported /\ lending_protocol_available(for_chain_id(8453))
  <2>1. for_chain_id(8453) = BASE_MAINNET
    BY DEF for_chain_id
  <2>2. BASE_MAINNET.aave_pool = TRUE
    BY DEF BASE_MAINNET, ChainSpec
  <2> QED BY <2>1, <2>2 DEF Supported, lending_protocol_available
<1>4. /\ env.chain_id \in Supported => env'.chain_id \in Supported
      /\ v = "CHAIN_ID" => env'.chain_id \in Supported
  BY <1>3
<1>5. /\ (env.chain_id \in Supported => lending_protocol_available(Spec_of(env)))
           => (env'.chain_id \in Supported => lending_protocol_available(Spec_of(env')))
      /\ v = "CHAIN_ID" => lending_protocol_available(Spec_of(env'))
  BY <1>3 DEF Spec_of
<1>6. /\ VariableOf("chain") = "CHAIN_ID" /\ \A n \in Names : VariableOf(n) = n
      /\ \A e : Checks(e) = [m \in 1 .. 13 |-> IF m <= 9 THEN FromEnv(e)[m] ELSE InMain(e)[m - 9]]
  BY DEF VariableOf, Names, Checks
<1> HIDE DEF Names
<1>7. CASE k \in 1 .. 9
  <2>1. Checks(env)[k] = FromEnv(env)[k] /\ Checks(env')[k] = FromEnv(env')[k]
    BY <1>6, <1>7
  <2>2. CASE k \in {1, 2}
    BY <1>1, <1>2, <1>6, <2>1, <2>2 DEF FromEnv
  <2>3. CASE k \in {3, 4, 5}
    BY <1>1, <1>2, <1>6, <2>1, <2>3 DEF FromEnv
  <2>4. CASE k \in {6, 7, 8, 9}
    BY <1>1, <1>2, <1>6, <2>1, <2>4 DEF FromEnv
  <2> QED BY <1>7, <2>2, <2>3, <2>4
<1>8. CASE k = 10
  <2> DEFINE listed(e) == e.chain_id \in Supported
  <2>1. /\ Checks(env)[10] = <<"chain", listed(env)>>
        /\ Checks(env')[10] = <<"chain", listed(env')>>
    BY InMainChecks
  <2>2. (listed(env) => listed(env')) /\ (v = "CHAIN_ID" => listed(env'))
    BY <1>4
  <2> HIDE DEF listed
  <2> QED BY <1>6, <1>8, <2>1, <2>2
<1>9. CASE k = 11
  <2> DEFINE pool(e) == e.chain_id \in Supported => lending_protocol_available(Spec_of(e))
  <2>1. /\ Checks(env)[11] = <<"chain", pool(env)>>
        /\ Checks(env')[11] = <<"chain", pool(env')>>
    BY InMainChecks
  <2>2. (pool(env) => pool(env')) /\ (v = "CHAIN_ID" => pool(env'))
    BY <1>5
  <2> HIDE DEF pool
  <2> QED BY <1>6, <1>9, <2>1, <2>2
<1>10. CASE k \in {12, 13}
  <2>1. Checks(env)[k] = InMain(env)[k - 9] /\ Checks(env')[k] = InMain(env')[k - 9]
    BY <1>6, <1>10
  <2> QED BY <1>1, <1>2, <1>6, <1>10, <2>1 DEF InMain
<1> QED BY <1>7, <1>8, <1>9, <1>10

\* Following the messages, one variable at a time, cannot go on for ever: each
\* leaves fewer of the thirteen checks failing.  This is what StartsWhenMended
\* rests on, for any settings to begin with (settings.rs; main.rs, 25-36).
THEOREM MendingComesToAnEnd == Spec => MendingHelps
<1> DEFINE Helps == Wrong(env') \subseteq Wrong(env) /\ Wrong(env') # Wrong(env)
<1>1. TypeOK /\ [Next]_vars => [Mend => Helps]_vars
  <2> SUFFICES ASSUME TypeOK, Mend PROVE Helps
    OBVIOUS
  <2> DEFINE old == Checks(env)
             new == Checks(env')
             k == Min(Failed(old))
             said == Complaint(env)
             v == VariableOf(said)
  <2>1. DOMAIN old = 1 .. 13 /\ DOMAIN new = 1 .. 13
    BY DEF Checks
  <2>2. \A j \in 1 .. 13 : VariableOf(old[j][1]) \in Names
    BY MessagesName DEF VariableOf, Names
  <2>3. said = IF Failed(old) = {} THEN "none" ELSE old[k][1]
    BY DEF Complaint
  <2>4. Failed(old) # {}
    BY <2>3 DEF Mend
  <2>5. k \in Failed(old)
    <3>1. Failed(old) \in SUBSET (1 .. 13)
      BY <2>1 DEF Failed
    <3> QED BY <2>4, <3>1, LeastExists
  <2>6. k \in 1 .. 13 /\ v = VariableOf(old[k][1]) /\ v \in Names
    BY <2>1, <2>2, <2>3, <2>4, <2>5 DEF Failed
  <2>7. env \in Environment
    BY DEF TypeOK
  <2>8. ASSUME NEW j \in 1 .. 13
        PROVE  (old[j][2] => new[j][2]) /\ (VariableOf(old[j][1]) = v => new[j][2])
    BY <2>6, <2>7, Mended, ChecksImprove
  <2> HIDE DEF old, new, k, said, v
  <2>9. Failed(new) \subseteq Failed(old)
    BY <2>1, <2>8 DEF Failed
  <2>10. k \notin Failed(new)
    BY <2>6, <2>8 DEF Failed
  <2> QED BY <2>5, <2>9, <2>10 DEF old, new, Wrong
<1> QED BY <1>1, TypeCorrect, PTL DEF Spec, MendingHelps
-----------------------------------------------------------------------------
(* What the liveness properties rest on: a pass comes to an end *)

\* The requests of a check, counted from its end.
StepsLeft == [pick |-> 0, receipt |-> 1, send |-> 2, reserves |-> 3, config |-> 4, account |-> 5]
InPass == phase \in DOMAIN StepsLeft

\* Fewer borrowers left; or as many and fewer requests; or fewer reserves to read.
Nearer ==
  \/ todo' \subseteq todo /\ todo' # todo
  \/ todo' = todo /\ StepsLeft[phase'] < StepsLeft[phase]
  \/ todo' = todo /\ phase' = phase /\ ToRead' \subseteq ToRead /\ ToRead' # ToRead
EachStepNearer ==
  InPass /\ InPass' =>
    /\ (BotStep \/ CheckFails \/ SendUnheard) => Nearer
    /\ Nearer \/ UNCHANGED <<todo, phase, ToRead>>
PassesEnd == [][EachStepNearer]_vars

\* Whatever answers a request gets, an error included, the step after it brings the
\* pass nearer to its end, and no step of the environment takes it further away:
\* neither a check nor a pass over finitely many borrowers goes on for ever unless
\* a request does.  This is what EveryBorrowerPolled rests on (main.rs, 58-69).
THEOREM PassesComeToAnEnd == Spec => PassesEnd
<1>1. TypeOK /\ [Next]_vars => [EachStepNearer]_vars
  <2> SUFFICES ASSUME TypeOK, Next, InPass, InPass'
               PROVE  /\ (BotStep \/ CheckFails \/ SendUnheard) => Nearer
                      /\ Nearer \/ UNCHANGED <<todo, phase, ToRead>>
    BY DEF EachStepNearer
  <2>1. phase \in {"pick", "account", "config", "reserves", "send", "receipt"}
        /\ phase' \in {"pick", "account", "config", "reserves", "send", "receipt"}
    BY DEF InPass, StepsLeft
  <2>2. ASSUME NEW b \in Borrowers, Pick(b) PROVE Nearer
    BY <2>2 DEF Pick, Nearer
  <2>3. ASSUME NEW i \in Reserves, ReadReserve(i) PROVE Nearer
    <3>1. DOMAIN balances' = DOMAIN balances \cup {i} /\ UNCHANGED <<flags, todo, phase>>
      BY <2>3 DEF ReadReserve
    <3>2. ToRead' = ToRead \ {i} /\ i \in ToRead
      BY <2>3, <3>1 DEF ReadReserve, ToRead, Flagged
    <3> QED BY <3>1, <3>2 DEF Nearer
  <2>4. ASSUME UNCHANGED todo, StepsLeft[phase'] < StepsLeft[phase] PROVE Nearer
    BY <2>4 DEF Nearer
  <2>5. CASE ReadAccount
    BY <2>1, <2>4, <2>5 DEF ReadAccount, EndCheck, StepsLeft
  <2>6. CASE ReadConfig
    BY <2>1, <2>4, <2>6 DEF ReadConfig, StepsLeft
  <2>7. ASSUME NEW d \in Reserves, NEW c \in Reserves, Choose(d, c) PROVE Nearer
    BY <2>1, <2>4, <2>7 DEF Choose, StepsLeft
  <2>8. CASE ChooseNone \/ SendUnheard \/ SendFails \/ Receipt \/ CheckFails
    <3>1. UNCHANGED todo /\ phase' = "pick" /\ phase # "pick"
      BY <2>8 DEF ChooseNone, SendUnheard, SendFails, Receipt, CheckFails, Awaiting, EndCheck
    <3> QED BY <2>1, <2>4, <3>1 DEF StepsLeft
  <2>9. CASE Send
    BY <2>1, <2>4, <2>9 DEF Send, EndCheck, StepsLeft
  <2>10. ~ Boot /\ ~ Sleep /\ ~ Mend /\ \A new \in SUBSET Borrowers : ~ Scan(new)
    BY <2>1 DEF Boot, Sleep, Mend, Scan, Down
  <2>11. ASSUME NEW saved \in SUBSET Borrowers
         PROVE  ~ Crash(saved) /\ \A d, c \in Reserves : ~ EncodePanics(d, c, saved)
    BY <2>1 DEF Crash, EncodePanics, EndCheck
  <2>12. (BotStep \/ CheckFails \/ SendUnheard) => Nearer
    BY <2>2, <2>3, <2>5, <2>6, <2>7, <2>8, <2>9, <2>10, <2>11 DEF BotStep
  <2>13. ASSUME NEW b \in Borrowers, NEW a \in Accounts[b], AccountChanges(b, a)
         PROVE  UNCHANGED <<todo, phase, ToRead>>
    BY <2>13 DEF AccountChanges, check, locals, ToRead, Flagged
  <2>14. ASSUME NEW a \in AllAccounts, Mine(a) PROVE UNCHANGED <<todo, phase, ToRead>>
    BY <2>14 DEF Mine, check, locals, ToRead, Flagged
  <2> QED BY <2>10, <2>11, <2>12, <2>13, <2>14 DEF Next
<1> QED BY <1>1, TypeCorrect, PTL DEF Spec, PassesEnd
=============================================================================
