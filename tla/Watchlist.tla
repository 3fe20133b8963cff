------------------------------- MODULE Watchlist -------------------------------
(***************************************************************************)
(* What the bot promises of its watchlist, the BorrowerRegistry kept       *)
(* across passes and restarts (crates/liquidator/src/main.rs, 44-55): a    *)
(* running bot only adds borrowers, a start takes over what was kept, and  *)
(* only the end of the process may lose some.                              *)
(***************************************************************************)
EXTENDS Naturals

CONSTANT Borrowers  \* addresses that may be on the list

VARIABLES
  up,       \* the process runs
  watched   \* the borrowers it checks, or would check once it is started

Init == up = FALSE /\ watched = {}

Start == ~ up /\ up' = TRUE /\ UNCHANGED watched

Grow == up /\ UNCHANGED up /\ \E new \in SUBSET Borrowers : watched' = watched \cup new

Stop == up /\ up' = FALSE /\ watched' \in SUBSET watched

Next == Start \/ Grow \/ Stop

Spec == Init /\ [][Next]_<<up, watched>>
=============================================================================
