---------------------------- MODULE MCAlphaRouting ----------------------------
(* Small instances of AlphaRouting for TLC. *)
EXTENDS AlphaRouting

CONSTANTS t1, t2, uniswap
TwoTokens == {t1, t2}
OneDex == {uniswap}
=============================================================================
