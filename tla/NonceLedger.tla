----------------------------- MODULE NonceLedger -----------------------------
(***************************************************************************)
(* What a nonce allocator owes the wallet that uses it: a ledger in which  *)
(* every issued nonce has one owner.  A caller owns a nonce, the ledger    *)
(* holds it for re-issue, it is spent, or it was skipped because the chain *)
(* moved past it.  There are no locks, no retries and no half-done calls   *)
(* here: NonceQueue is shown to implement this specification.              *)
(***************************************************************************)
EXTENDS Naturals

CONSTANTS Callers,      \* the tasks that allocate nonces
          Seed,         \* the first nonce the ledger may issue
          NoNonce       \* what a caller owns when it owns nothing

VARIABLES top,          \* the smallest nonce never issued
          free,         \* nonces given back and not issued again
          owned,        \* owned[c]: the nonce of caller c, or NoNonce
          spent         \* nonces that were broadcast

vars == <<top, free, owned, spent>>

Init == /\ top = Seed
        /\ free = {}
        /\ owned = [c \in Callers |-> NoNonce]
        /\ spent = {}

\* A nonce may be issued only if nobody owns it and it was never broadcast.
Available(n) == n \notin spent /\ \A c \in Callers : owned[c] # n

\* A caller receives the smallest nonce that was given back.
Reissue(c) ==
  /\ owned[c] = NoNonce
  /\ \E n \in free : /\ \A m \in free : n <= m
                     /\ Available(n)
                     /\ owned' = [owned EXCEPT ![c] = n]
                     /\ free' = free \ {n}
  /\ UNCHANGED <<top, spent>>

\* A caller receives a nonce that was never issued.
Issue(c) ==
  /\ owned[c] = NoNonce
  /\ top \notin free /\ Available(top)
  /\ owned' = [owned EXCEPT ![c] = top]
  /\ top' = top + 1
  /\ UNCHANGED <<free, spent>>

GiveBack(c) ==
  /\ owned[c] # NoNonce
  /\ owned[c] \notin free
  /\ free' = free \cup {owned[c]}
  /\ owned' = [owned EXCEPT ![c] = NoNonce]
  /\ UNCHANGED <<top, spent>>

Spend(c) ==
  /\ owned[c] # NoNonce
  /\ owned[c] \notin spent
  /\ \A d \in Callers \ {c} : owned[d] # owned[c]
  /\ spent' = spent \cup {owned[c]}
  /\ owned' = [owned EXCEPT ![c] = NoNonce]
  /\ UNCHANGED <<top, free>>

\* The chain is ahead of the ledger: the nonces in between are skipped.
Skip == /\ top' \in Nat /\ top' > top
        /\ UNCHANGED <<free, owned, spent>>

Next == \/ \E c \in Callers : Reissue(c) \/ Issue(c) \/ GiveBack(c) \/ Spend(c)
        \/ Skip

Spec == Init /\ [][Next]_vars
=============================================================================
