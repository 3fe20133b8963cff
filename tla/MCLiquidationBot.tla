--------------------------- MODULE MCLiquidationBot ---------------------------
(* Small instances of LiquidationBot for TLC. *)
EXTENDS LiquidationBot

CONSTANTS b1, b2
OneBorrower == {b1}
TwoBorrowers == {b1, b2}

Make(healthy, debts, tokens, enabled, pays) ==
  [healthy |-> healthy, enabled |-> enabled, pays |-> pays,
   debt |-> [i \in Reserves |-> IF i < 2 THEN debts[i + 1] ELSE 0],
   a_token |-> [i \in Reserves |-> IF i < 2 THEN tokens[i + 1] ELSE 0]]

\* Of Poor, only what the bot does not choose would pay.
Fine == Make(TRUE, <<1, 0>>, <<0, 2>>, {1}, {})
Mixed == Make(FALSE, <<4, 2>>, <<1, 2>>, {0, 1}, {<<0, 1, 2>>})
Poor == Make(FALSE, <<4, 2>>, <<1, 2>>, {0, 1}, {<<1, 0, 1>>})
Swapped == Make(FALSE, <<0, 2>>, <<1, 3>>, {0}, {<<1, 0, 1>>})

SomeAccounts ==
  [b \in Borrowers |-> IF b = b1 THEN {Fine, Poor, Swapped} ELSE {Fine, Mixed}]

Env(id, fee, dex, unset, junk) ==
  [chain_id |-> id, sell_fee |-> fee, sell_dex |-> dex,
   given |-> [v \in Names |-> IF v \in unset THEN "unset" ELSE IF v \in junk THEN "junk" ELSE "set"]]

\* Mended, the muddled settings and those of other chains become the plain ones.
Plain == Env(8453, 3000, "uniswap", {"SELL_DEX", "BORROWER_CACHE_PATH"}, {})
WideFee == [Plain EXCEPT !.sell_fee = 2 ^ 24]
OddDex == [Plain EXCEPT !.sell_dex = "curve", !.given["SELL_DEX"] = "set"]
OnMonad == [Plain EXCEPT !.chain_id = 41454]
OnBnb == [Plain EXCEPT !.chain_id = 56]
Muddled == Env(84532, 0, "uniswap", {"RPC_URL", "SELL_DEX", "BORROWER_CACHE_PATH"},
               {"PRIVATE_KEY", "CONTRACT_ADDRESS", "MIN_PROFIT", "SELL_FEE_BPS"})

SomeEnvironments == {WideFee, OddDex, OnMonad, Muddled}
BnbOrBase == {OnBnb, Plain}
OnBase == {Plain}

OneEach == [b \in Borrowers |-> 1]
TwoForOne == [OneEach EXCEPT ![b1] = 2]
=============================================================================
