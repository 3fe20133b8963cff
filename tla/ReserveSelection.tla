--------------------------- MODULE ReserveSelection ---------------------------
(***************************************************************************)
(* What the bot computes from a borrower's reserves: the flags it decodes  *)
(* from Aave's configuration word (aave.rs, main.rs) and the reserves it   *)
(* then repays and seizes (select.rs).  A word is the set of its one bits. *)
(***************************************************************************)
EXTENDS Integers

CONSTANT Width    \* bits of the integer the word is kept in (128 in aave.rs)

ASSUME WidthAssumption == Width \in Nat \ {0}

\* try_into().unwrap_or(u128::MAX): a word that does not fit becomes all ones.
Narrowed(word) == IF word \subseteq 0 .. Width - 1 THEN word ELSE 0 .. Width - 1

\* In a release build the processor takes the shift modulo the width.
Bit(bitmap, n) == n % Width \in bitmap

\* Seeded bug: the two bits of a reserve are taken the other way round.
DecodeSwapped(bitmap, i) ==
  [borrowing |-> Bit(bitmap, 2 * i + 1), collateral |-> Bit(bitmap, 2 * i)]

\* decode_user_configuration, for one reserve.
Decode(bitmap, i) ==
  [borrowing |-> Bit(bitmap, 2 * i), collateral |-> Bit(bitmap, 2 * i + 1)]

\* The balances read so far: a function whose domain is the reserves read.
Debts(balances) ==
  {i \in DOMAIN balances : balances[i].is_borrowed /\ balances[i].debt > 0}
Collaterals(balances) ==
  {i \in DOMAIN balances : balances[i].is_collateral /\ balances[i].a_token > 0}

\* max_by_key returns the last of several largest elements of S.
IsLargest(i, S, key) ==
  i \in S /\ \A j \in S : key[j] < key[i] \/ (key[j] = key[i] /\ j <= i)

DebtOf(balances) == [i \in DOMAIN balances |-> balances[i].debt]
ATokenOf(balances) == [i \in DOMAIN balances |-> balances[i].a_token]

\* CLOSE_FACTOR_BPS
Half(debt) == (debt * 5000) \div 10000

\* Seeded bug: the first of the collaterals is taken, whatever its size.
SelectsFirst(balances, d, c) ==
  /\ IsLargest(d, Debts(balances), DebtOf(balances))
  /\ c \in Collaterals(balances) /\ \A i \in Collaterals(balances) : c <= i
  /\ Half(balances[d].debt) > 0

\* select_liquidation_target repays reserve d and seizes reserve c; it returns
\* None when no two reserves satisfy this.
Selects(balances, d, c) ==
  /\ IsLargest(d, Debts(balances), DebtOf(balances))
  /\ IsLargest(c, Collaterals(balances), ATokenOf(balances))
  /\ Half(balances[d].debt) > 0
=============================================================================
