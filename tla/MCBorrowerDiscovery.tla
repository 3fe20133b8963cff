------------------------- MODULE MCBorrowerDiscovery -------------------------
(* Small instances of BorrowerDiscovery for TLC. *)
EXTENDS BorrowerDiscovery

CONSTANTS b1, b2
OneBorrower == {b1}
TwoBorrowers == {b1, b2}
=============================================================================
