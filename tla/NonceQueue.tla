------------------------------ MODULE NonceQueue ------------------------------
(***************************************************************************)
(* The nonce allocator of crates/chain/src/nonce.rs.  Its state is an      *)
(* atomic counter and a mutex-protected set of released nonces; next() is  *)
(* two critical steps with a window between them, reconcile() is a         *)
(* compare-and-swap loop.  The callers (which broadcast a nonce or release *)
(* it) and the chain are not in the crate: they follow the contract stated *)
(* in the header of nonce.rs and are modelled as its environment.          *)
(***************************************************************************)
EXTENDS Integers, FiniteSets

CONSTANTS Callers,      \* tasks that call next() and then broadcast or release
          Syncers,      \* tasks that call reconcile()
          Seed,         \* argument of NonceQueue::new
          ChainStart,   \* the wallet's transaction count when the model starts
          MaxNonce,     \* bound: no next() falls through at MaxNonce or above
          NoNonce       \* a caller that owns no nonce (refinement mapping only)

ASSUME ConstantsAssumption ==
  /\ Seed \in Nat /\ ChainStart \in Nat /\ MaxNonce \in Nat
  /\ Seed <= ChainStart          \* the seed is an RPC answer, perhaps stale
  /\ NoNonce \notin Nat

VARIABLES
  current,    \* NonceQueue.current
  released,   \* NonceQueue.released
  pc,         \* pc[c]: "idle", "miss" (pool seen empty, lock dropped), "hold"
  nonce,      \* nonce[c]: the value next() returned, meaningful in "hold"
  spc,        \* spc[s]: "idle", "load", "cas" inside reconcile()
  goal,       \* goal[s]: the chain_pending argument of the call
  local,      \* local[s]: the counter read at the top of the loop
  sent,       \* nonces this wallet's callers broadcast
  foreign,    \* nonces the same wallet spent elsewhere
  strays      \* history: nonces released by a task that did not own them

queue == <<current, released>>
caller == <<pc, nonce>>
syncer == <<spc, goal, local>>
outside == <<sent, foreign, strays>>
vars == <<current, released, pc, nonce, spc, goal, local, sent, foreign, strays>>

Used == (0 .. ChainStart - 1) \cup sent \cup foreign

\* The chain has every nonce below p, so p is what it may report as pending.
Contiguous(p) == (0 .. p - 1) \subseteq Used

Held == {c \in Callers : pc[c] = "hold"}

Init == /\ current = Seed
        /\ released = {}
        /\ pc = [c \in Callers |-> "idle"]
        /\ nonce = [c \in Callers |-> Seed]
        /\ spc = [s \in Syncers |-> "idle"]
        /\ goal = [s \in Syncers |-> 0]
        /\ local = [s \in Syncers |-> 0]
        /\ sent = {}
        /\ foreign = {}
        /\ strays = {}

-----------------------------------------------------------------------------
(* next() *)

\* Seeded bugs: first() in place of pop_first(); pop_last().
NextPopKeeps(c) ==
  /\ pc[c] = "idle"
  /\ \E n \in released : /\ \A m \in released : n <= m
                         /\ nonce' = [nonce EXCEPT ![c] = n]
  /\ pc' = [pc EXCEPT ![c] = "hold"]
  /\ UNCHANGED <<queue, syncer, outside>>

NextPopLast(c) ==
  /\ pc[c] = "idle"
  /\ \E n \in released : /\ \A m \in released : m <= n
                         /\ released' = released \ {n}
                         /\ nonce' = [nonce EXCEPT ![c] = n]
  /\ pc' = [pc EXCEPT ![c] = "hold"]
  /\ UNCHANGED <<current, syncer, outside>>

\* Under the lock the pool has a smallest element: it is returned.
NextPop(c) ==
  /\ pc[c] = "idle"
  /\ \E n \in released : /\ \A m \in released : n <= m
                         /\ released' = released \ {n}
                         /\ nonce' = [nonce EXCEPT ![c] = n]
  /\ pc' = [pc EXCEPT ![c] = "hold"]
  /\ UNCHANGED <<current, syncer, outside>>

\* Under the lock the pool is empty; the lock is dropped.
NextMiss(c) ==
  /\ pc[c] = "idle"
  /\ released = {}
  /\ current < MaxNonce
  /\ pc' = [pc EXCEPT ![c] = "miss"]
  /\ UNCHANGED <<queue, nonce, syncer, outside>>

NextFetchAdd(c) ==
  /\ pc[c] = "miss"
  /\ nonce' = [nonce EXCEPT ![c] = current]
  /\ current' = current + 1
  /\ pc' = [pc EXCEPT ![c] = "hold"]
  /\ UNCHANGED <<released, syncer, outside>>

\* Seeded bugs: the abort path forgets release(); release() is given the
\* nonce before the aborted one.
ReleaseForgotten(c) ==
  /\ pc[c] = "hold"
  /\ pc' = [pc EXCEPT ![c] = "idle"]
  /\ UNCHANGED <<queue, nonce, syncer, outside>>

ReleaseOffByOne(c) ==
  /\ pc[c] = "hold"
  /\ released' = released \cup {nonce[c] - 1}
  /\ pc' = [pc EXCEPT ![c] = "idle"]
  /\ UNCHANGED <<current, nonce, syncer, outside>>

\* An aborted transaction gives its nonce back.
Release(c) ==
  /\ pc[c] = "hold"
  /\ released' = released \cup {nonce[c]}
  /\ pc' = [pc EXCEPT ![c] = "idle"]
  /\ UNCHANGED <<current, nonce, syncer, outside>>

-----------------------------------------------------------------------------
(* reconcile(chain_pending) *)

\* The argument is what an RPC node reported: any prefix the chain has reached,
\* so possibly an old one.
ReconcileCall(s, p) ==
  /\ spc[s] = "idle"
  /\ Contiguous(p)
  /\ goal' = [goal EXCEPT ![s] = p]
  /\ spc' = [spc EXCEPT ![s] = "load"]
  /\ UNCHANGED <<queue, caller, local, outside>>

\* Load the counter; return if it is not behind.
ReconcileLoad(s) ==
  /\ spc[s] = "load"
  /\ local' = [local EXCEPT ![s] = current]
  /\ spc' = [spc EXCEPT ![s] = IF current >= goal[s] THEN "idle" ELSE "cas"]
  /\ UNCHANGED <<queue, caller, goal, outside>>

\* Seeded bugs: store() in place of compare_exchange(); a failed exchange is
\* tried again with the value already read.
ReconcileStore(s) ==
  /\ spc[s] = "cas"
  /\ current' = goal[s]
  /\ spc' = [spc EXCEPT ![s] = "idle"]
  /\ UNCHANGED <<released, caller, goal, local, outside>>

ReconcileNoReload(s) ==
  /\ spc[s] = "cas"
  /\ current = local[s]
  /\ current' = goal[s]
  /\ spc' = [spc EXCEPT ![s] = "idle"]
  /\ UNCHANGED <<released, caller, goal, local, outside>>

\* compare_exchange: store and return, or go round again.
ReconcileCas(s) ==
  /\ spc[s] = "cas"
  /\ IF current = local[s]
       THEN /\ current' = goal[s]
            /\ spc' = [spc EXCEPT ![s] = "idle"]
       ELSE /\ spc' = [spc EXCEPT ![s] = "load"]
            /\ UNCHANGED current
  /\ UNCHANGED <<released, caller, goal, local, outside>>

-----------------------------------------------------------------------------
(* The callers' transactions and the chain *)

\* The node accepts a transaction whose nonce the wallet has not used.
Broadcast(c) ==
  /\ pc[c] = "hold"
  /\ nonce[c] \notin Used
  /\ sent' = sent \cup {nonce[c]}
  /\ pc' = [pc EXCEPT ![c] = "idle"]
  /\ UNCHANGED <<queue, nonce, syncer, foreign, strays>>

\* The wallet's owner sends a transaction from another program.
ForeignSend(n) ==
  /\ n \notin Used /\ Contiguous(n)
  /\ foreign' = foreign \cup {n}
  /\ UNCHANGED <<queue, caller, syncer, sent, strays>>

\* A release too many, of a nonce that next() may have returned at some time.  One
\* that is in the pool already is not a stray: release() is idempotent.
StrayRelease(n) ==
  /\ n \in Seed .. current - 1
  /\ released' = released \cup {n}
  /\ strays' = strays \cup ({n} \ released)
  /\ UNCHANGED <<current, caller, syncer, sent, foreign>>

CallerNext(c) == NextPop(c) \/ NextMiss(c) \/ NextFetchAdd(c)
SyncerStep(s) == ReconcileLoad(s) \/ ReconcileCas(s)

\* The wallet is used by this program alone.
Next ==
  \/ \E c \in Callers : CallerNext(c) \/ Release(c) \/ Broadcast(c)
  \/ \E s \in Syncers : SyncerStep(s) \/ \E p \in 0 .. MaxNonce : ReconcileCall(s, p)

Spec == Init /\ [][Next]_vars

\* The wallet is also used elsewhere.
SharedNext == Next \/ \E n \in 0 .. MaxNonce : ForeignSend(n)
SharedSpec == Init /\ [][SharedNext]_vars

\* A clean-up path of the program releases nonces that are not its own.
StrayNext == SharedNext \/ \E n \in 0 .. MaxNonce : StrayRelease(n)
StraySpec == Init /\ [][StrayNext]_vars
-----------------------------------------------------------------------------
(* Properties *)

\* The state is well formed: the counter, the pool and the argument of every
\* call hold unsigned integers and every task is at a point of its code.
TypeOK ==
  /\ current \in Nat
  /\ released \subseteq Nat
  /\ pc \in [Callers -> {"idle", "miss", "hold"}]
  /\ nonce \in [Callers -> Nat]
  /\ spc \in [Syncers -> {"idle", "load", "cas"}]
  /\ goal \in [Syncers -> Nat]
  /\ local \in [Syncers -> Nat]
  /\ sent \subseteq Nat
  /\ foreign \subseteq Nat
  /\ strays \subseteq Nat

\* "Concurrent callers get distinct values" (nonce.rs, next): a nonce has one
\* owner at a time -- one caller, or the pool, or the transaction it was spent
\* on -- and nothing at or above the counter has been handed out.  A release too
\* many costs this for that nonce and no other, and nothing at all while the nonce
\* is in the pool: "Idempotent via set semantics" (nonce.rs, release).
OneOwner ==
  /\ \A c \in Held :
       /\ nonce[c] < current
       /\ \/ nonce[c] \in strays
          \/ /\ nonce[c] \notin released \cup sent
             /\ \A d \in Held : nonce[c] = nonce[d] => c = d
  /\ \A n \in released \cup sent \cup strays : n < current
  /\ released \cap sent \subseteq strays

\* "The sequence stays gapless under any abort pattern" (nonce.rs, header), as
\* far as safety goes: every nonce below the counter is on the chain, held by
\* a caller, or in the pool to be issued again; none is forgotten, whatever
\* reconcile() does meanwhile.
NoNonceLost ==
  \A n \in Seed .. current - 1 :
    n \in Used \/ n \in released \/ \E c \in Held : nonce[c] = n

\* "Never regresses" (nonce.rs, reconcile): no step of any task, a reconcile()
\* with a stale answer included, lowers the counter.
NeverRegresses == [][current' >= current]_vars

\* The queue implements the ledger in which a nonce changes hands in one step.
Ledger == INSTANCE NonceLedger WITH
            top <- current,
            free <- released,
            owned <- [c \in Callers |-> IF pc[c] = "hold" THEN nonce[c] ELSE NoNonce],
            spent <- sent
RefinesLedger == Ledger!Spec

\* Fairness.  A task that is inside next() or reconcile() is scheduled until
\* it returns; a caller with nothing to do starts another transaction; a
\* nonce that keeps being issued is not aborted for ever.
Scheduling ==
  /\ \A c \in Callers : WF_vars(NextPop(c) \/ NextMiss(c)) /\ WF_vars(NextFetchAdd(c))
  /\ \A s \in Syncers : WF_vars(SyncerStep(s))
BroadcastOf(n) == \E c \in Callers : nonce[c] = n /\ Broadcast(c)
ReleaseOrBroadcast(c) == Release(c) \/ Broadcast(c)
Persistence ==
  /\ \A c \in Callers : WF_vars(ReleaseOrBroadcast(c))
  /\ \A n \in 0 .. MaxNonce + Cardinality(Callers) : SF_vars(BroadcastOf(n))

FairSpec == Spec /\ Scheduling /\ Persistence
FairSharedSpec == SharedSpec /\ Scheduling /\ Persistence

\* A nonce the chain has already seen from elsewhere, below the wallet's first
\* transaction or spent by another program, is in the pool or with a caller: it can
\* never be sent, so it stays there, and each next() may return it.
DeadNonceIssued ==
  \E n \in (0 .. ChainStart - 1) \cup foreign :
    n \in released \/ \E c \in Held : nonce[c] = n

\* "Wallet-wedge prevention" (nonce.rs, header), as far as it holds: while every
\* nonce handed out can be sent, a broadcast transaction does not wait for ever
\* behind a missing nonce, however many callers abort; the hole below it is filled.
NoWedge ==
  \A n \in 0 .. MaxNonce : (n \in sent) ~> (Contiguous(n) \/ DeadNonceIssued)

\* reconcile() returns although other tasks keep failing its exchange: every
\* failed exchange means the counter moved towards the goal.
ReconcileReturns == \A s \in Syncers : (spc[s] # "idle") ~> (spc[s] = "idle")

\* The wallet's pending count is read and passed to reconcile() again and again.
ResyncSpec == FairSpec /\ \A s \in Syncers : SF_vars(ReconcileCall(s, ChainStart))

\* "Wallet-wedge prevention" (nonce.rs, header): a program that keeps trying,
\* and keeps reconciling, gets a transaction out.
SomethingIsSent == <>(sent # {})
=============================================================================
