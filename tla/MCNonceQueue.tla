---------------------------- MODULE MCNonceQueue ----------------------------
(* Small instances of NonceQueue for TLC. *)
EXTENDS NonceQueue, TLC

CONSTANTS c1, c2, c3, s1, s2

OneCaller == {c1}
TwoCallers == {c1, c2}
ThreeCallers == {c1, c2, c3}
OneSyncer == {s1}
TwoSyncers == {s1, s2}

\* Callers are alike, and so are syncers; for safety only.
Symmetry == Permutations(TwoCallers) \cup Permutations(TwoSyncers)
=============================================================================
