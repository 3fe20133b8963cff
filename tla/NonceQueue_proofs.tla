-------------------------- MODULE NonceQueue_proofs --------------------------
(***************************************************************************)
(* Proofs about NonceQueue, for any callers, syncers, seed and bound, and  *)
(* for a wallet that is also used elsewhere (SharedSpec) by callers some   *)
(* of which release nonces that are not theirs (StraySpec).                  *)
(***************************************************************************)
EXTENDS NonceQueue, TLAPS

\* What reconcile() relies on between its steps: the chain had reached the goal
\* when the call was made, and stays there; the exchange only moves forward.
GoalReached(s) ==
  /\ spc[s] \in {"load", "cas"} => Contiguous(goal[s])
  /\ spc[s] = "cas" => local[s] < goal[s]

GoalsReached == \A s \in Syncers : GoalReached(s)

IInv == TypeOK /\ OneOwner /\ NoNonceLost /\ GoalsReached

USE ConstantsAssumption DEF queue, caller, syncer, outside

LEMMA InitInv == Init => IInv
BY DEF Init, IInv, TypeOK, OneOwner, NoNonceLost, GoalsReached, GoalReached, Held, Used, Contiguous

\* Every step keeps the state well formed.
LEMMA TypeStep == TypeOK /\ [StrayNext]_vars => TypeOK'
<1> SUFFICES ASSUME TypeOK, [StrayNext]_vars PROVE TypeOK'
  OBVIOUS
<1> USE DEF TypeOK
<1>1. ASSUME NEW c \in Callers, NextPop(c) PROVE TypeOK'
  BY <1>1 DEF NextPop
<1>2. ASSUME NEW c \in Callers, NextMiss(c) PROVE TypeOK'
  BY <1>2 DEF NextMiss
<1>3. ASSUME NEW c \in Callers, NextFetchAdd(c) PROVE TypeOK'
  BY <1>3 DEF NextFetchAdd
<1>4. ASSUME NEW c \in Callers, Release(c) PROVE TypeOK'
  BY <1>4 DEF Release
<1>5. ASSUME NEW c \in Callers, Broadcast(c) PROVE TypeOK'
  BY <1>5 DEF Broadcast
<1>6. ASSUME NEW s \in Syncers, NEW p \in 0 .. MaxNonce, ReconcileCall(s, p) PROVE TypeOK'
  BY <1>6 DEF ReconcileCall
<1>7. ASSUME NEW s \in Syncers, ReconcileLoad(s) PROVE TypeOK'
  BY <1>7 DEF ReconcileLoad
<1>8. ASSUME NEW s \in Syncers, ReconcileCas(s) PROVE TypeOK'
  <2>1. CASE current = local[s]
    BY <1>8, <2>1 DEF ReconcileCas
  <2>2. CASE current # local[s]
    BY <1>8, <2>2 DEF ReconcileCas
  <2> QED BY <2>1, <2>2
<1>9. ASSUME NEW n \in 0 .. MaxNonce, ForeignSend(n) PROVE TypeOK'
  BY <1>9 DEF ForeignSend
<1>10. CASE UNCHANGED vars
  BY <1>10 DEF vars
<1>11. ASSUME NEW n \in 0 .. MaxNonce, StrayRelease(n) PROVE TypeOK'
  BY <1>11 DEF StrayRelease
<1> QED
  BY <1>1, <1>2, <1>3, <1>4, <1>5, <1>6, <1>7, <1>8, <1>9, <1>10, <1>11
     DEF StrayNext, SharedNext, Next, CallerNext, SyncerStep

\* A nonce keeps one owner: next() takes it out of the pool or off the counter,
\* release() puts back what its caller alone held.
LEMMA OwnerStep == IInv /\ [StrayNext]_vars => OneOwner'
<1> SUFFICES ASSUME IInv, [StrayNext]_vars PROVE OneOwner'
  OBVIOUS
<1> USE DEF IInv, TypeOK, OneOwner, Held
<1>1. ASSUME NEW c \in Callers, NextPop(c) PROVE OneOwner'
  BY <1>1 DEF NextPop
<1>2. ASSUME NEW c \in Callers, NextMiss(c) PROVE OneOwner'
  BY <1>2 DEF NextMiss
<1>3. ASSUME NEW c \in Callers, NextFetchAdd(c) PROVE OneOwner'
  BY <1>3 DEF NextFetchAdd
<1>4. ASSUME NEW c \in Callers, Release(c) PROVE OneOwner'
  <2>1. /\ Held' = Held \ {c} /\ released' = released \cup {nonce[c]}
        /\ UNCHANGED <<current, nonce, sent, strays>> /\ c \in Held
    BY <1>4 DEF Release
  <2>2. \A d \in Held' : /\ nonce'[d] < current'
                        /\ \/ nonce'[d] \in strays'
                           \/ /\ nonce'[d] \notin released' \cup sent'
                              /\ \A e \in Held' : nonce'[d] = nonce'[e] => d = e
    BY <2>1
  <2>3. released' \cap sent' \subseteq strays'
    BY <2>1
  <2>4. \A n \in released' \cup sent' \cup strays' : n < current'
    BY <2>1
  <2> QED BY <2>2, <2>3, <2>4
<1>5. ASSUME NEW c \in Callers, Broadcast(c) PROVE OneOwner'
  <2>1. /\ Held' = Held \ {c} /\ sent' = sent \cup {nonce[c]}
        /\ UNCHANGED <<current, nonce, released, strays>> /\ c \in Held
    BY <1>5 DEF Broadcast
  <2>2. \A d \in Held' : /\ nonce'[d] < current'
                        /\ \/ nonce'[d] \in strays'
                           \/ /\ nonce'[d] \notin released' \cup sent'
                              /\ \A e \in Held' : nonce'[d] = nonce'[e] => d = e
    BY <2>1
  <2>3. released' \cap sent' \subseteq strays'
    BY <2>1
  <2>4. \A n \in released' \cup sent' \cup strays' : n < current'
    BY <2>1
  <2> QED BY <2>2, <2>3, <2>4
<1>6. ASSUME NEW s \in Syncers, NEW p \in 0 .. MaxNonce, ReconcileCall(s, p) PROVE OneOwner'
  BY <1>6 DEF ReconcileCall
<1>7. ASSUME NEW s \in Syncers, ReconcileLoad(s) PROVE OneOwner'
  BY <1>7 DEF ReconcileLoad
<1>8. ASSUME NEW s \in Syncers, ReconcileCas(s) PROVE OneOwner'
  <2>1. current' >= current
    BY <1>8 DEF ReconcileCas, GoalsReached, GoalReached
  <2>2. current' \in Nat
    BY <1>8 DEF ReconcileCas
  <2> QED BY <1>8, <2>1, <2>2 DEF ReconcileCas
<1>9. ASSUME NEW n \in 0 .. MaxNonce, ForeignSend(n) PROVE OneOwner'
  BY <1>9 DEF ForeignSend
<1>10. CASE UNCHANGED vars
  BY <1>10 DEF vars
<1>11. ASSUME NEW n \in 0 .. MaxNonce, StrayRelease(n) PROVE OneOwner'
  BY <1>11 DEF StrayRelease
<1> QED
  BY <1>1, <1>2, <1>3, <1>4, <1>5, <1>6, <1>7, <1>8, <1>9, <1>10, <1>11
     DEF StrayNext, SharedNext, Next, CallerNext, SyncerStep

\* The chain only gains transactions, so a goal that was reached stays reached.
LEMMA UsedGrows == [StrayNext]_vars => Used \subseteq Used'
BY DEF StrayNext, SharedNext, Next, CallerNext, SyncerStep, vars, Used, NextPop, NextMiss,
       NextFetchAdd, Release, Broadcast, ReconcileCall, ReconcileLoad, ReconcileCas,
       ForeignSend, StrayRelease

LEMMA GoalStep == IInv /\ [StrayNext]_vars => GoalsReached'
<1> SUFFICES ASSUME IInv, [StrayNext]_vars, NEW t \in Syncers
             PROVE GoalReached(t)'
  BY DEF GoalsReached
<1> USE DEF IInv, TypeOK, GoalsReached, GoalReached, Contiguous
<1>0. Used \subseteq Used'
  BY UsedGrows
<1>1. CASE UNCHANGED syncer
  BY <1>0, <1>1
<1>2. ASSUME NEW s \in Syncers, NEW p \in 0 .. MaxNonce, ReconcileCall(s, p)
      PROVE GoalReached(t)'
  BY <1>0, <1>2 DEF ReconcileCall
<1>3. ASSUME NEW s \in Syncers, ReconcileLoad(s)
      PROVE GoalReached(t)'
  BY <1>0, <1>3 DEF ReconcileLoad
<1>4. ASSUME NEW s \in Syncers, ReconcileCas(s)
      PROVE GoalReached(t)'
  BY <1>0, <1>4 DEF ReconcileCas
<1> QED
  BY <1>1, <1>2, <1>3, <1>4
     DEF StrayNext, SharedNext, Next, CallerNext, SyncerStep, vars, NextPop, NextMiss,
         NextFetchAdd, Release, Broadcast, ForeignSend, StrayRelease

\* No step forgets a nonce.  The one that could is the exchange of reconcile():
\* it jumps over nonces, all of which the chain already has (GoalsReached).
LEMMA LostStep == IInv /\ [StrayNext]_vars => NoNonceLost'
<1> SUFFICES ASSUME IInv, [StrayNext]_vars PROVE NoNonceLost'
  OBVIOUS
<1> USE DEF IInv, TypeOK, OneOwner, NoNonceLost, Held
<1>0. Used \subseteq Used'
  BY UsedGrows
<1>1. ASSUME NEW c \in Callers, NextPop(c) PROVE NoNonceLost'
  BY <1>0, <1>1 DEF NextPop
<1>2. ASSUME NEW c \in Callers, NextMiss(c) PROVE NoNonceLost'
  BY <1>0, <1>2 DEF NextMiss
<1>3. ASSUME NEW c \in Callers, NextFetchAdd(c) PROVE NoNonceLost'
  <2> SUFFICES ASSUME NEW n \in Seed .. current
               PROVE n \in Used' \/ n \in released' \/ \E d \in Held' : nonce'[d] = n
    BY <1>3 DEF NextFetchAdd
  <2>1. CASE n = current
    BY <1>3, <2>1 DEF NextFetchAdd
  <2>2. CASE n # current
    BY <1>0, <1>3, <2>2 DEF NextFetchAdd
  <2> QED BY <2>1, <2>2
<1>4. ASSUME NEW c \in Callers, Release(c) PROVE NoNonceLost'
  BY <1>0, <1>4 DEF Release
<1>5. ASSUME NEW c \in Callers, Broadcast(c) PROVE NoNonceLost'
  <2>1. nonce[c] \in Used'
    BY <1>5 DEF Broadcast, Used
  <2> QED BY <1>0, <1>5, <2>1 DEF Broadcast
<1>6. ASSUME NEW s \in Syncers, NEW p \in 0 .. MaxNonce, ReconcileCall(s, p) PROVE NoNonceLost'
  BY <1>0, <1>6 DEF ReconcileCall
<1>7. ASSUME NEW s \in Syncers, ReconcileLoad(s) PROVE NoNonceLost'
  BY <1>0, <1>7 DEF ReconcileLoad
<1>8. ASSUME NEW s \in Syncers, ReconcileCas(s) PROVE NoNonceLost'
  <2>1. CASE current = local[s]
    <3>1. 0 .. goal[s] - 1 \subseteq Used
      BY <1>8 DEF ReconcileCas, GoalsReached, GoalReached, Contiguous
    <3>2. Seed .. current' - 1 \subseteq Used
      BY <1>8, <2>1, <3>1 DEF ReconcileCas
    <3> QED BY <1>0, <3>2
  <2>2. CASE current # local[s]
    BY <1>0, <1>8, <2>2 DEF ReconcileCas
  <2> QED BY <2>1, <2>2
<1>9. ASSUME NEW n \in 0 .. MaxNonce, ForeignSend(n) PROVE NoNonceLost'
  BY <1>0, <1>9 DEF ForeignSend
<1>10. CASE UNCHANGED vars
  BY <1>0, <1>10 DEF vars
<1>11. ASSUME NEW n \in 0 .. MaxNonce, StrayRelease(n) PROVE NoNonceLost'
  BY <1>0, <1>11 DEF StrayRelease
<1> QED
  BY <1>1, <1>2, <1>3, <1>4, <1>5, <1>6, <1>7, <1>8, <1>9, <1>10, <1>11
     DEF StrayNext, SharedNext, Next, CallerNext, SyncerStep

LEMMA Inductive == IInv /\ [StrayNext]_vars => IInv'
BY TypeStep, OwnerStep, LostStep, GoalStep DEF IInv

THEOREM Invariance == StraySpec => []IInv
<1>1. Init => IInv
  BY InitInv
<1>2. IInv /\ [StrayNext]_vars => IInv'
  BY Inductive
<1> QED BY <1>1, <1>2, PTL DEF StraySpec

\* Type correctness of the queue, its callers and the chain.
THEOREM TypeCorrect == StraySpec => []TypeOK
<1>1. IInv => TypeOK
  BY DEF IInv
<1> QED BY <1>1, Invariance, PTL

\* Concurrent callers never own the same nonce, and none is issued again after
\* it was broadcast, for any number of callers.
THEOREM OwnersAreUnique == StraySpec => []OneOwner
<1>1. IInv => OneOwner
  BY DEF IInv
<1> QED BY <1>1, Invariance, PTL

\* No abort pattern and no reconcile() makes the queue forget a nonce.
THEOREM NothingIsLost == StraySpec => []NoNonceLost
<1>1. IInv => NoNonceLost
  BY DEF IInv
<1> QED BY <1>1, Invariance, PTL

\* The counter never moves back: a successful exchange of reconcile() stores a
\* goal above the value it compared with.
THEOREM CounterNeverRegresses == StraySpec => NeverRegresses
<1>1. IInv /\ [StrayNext]_vars => [current' >= current]_vars
  <2> SUFFICES ASSUME IInv, StrayNext PROVE current' >= current
    OBVIOUS
  <2>0. current \in Nat
    BY DEF IInv, TypeOK
  <2>1. ASSUME NEW s \in Syncers, ReconcileCas(s) PROVE current' >= current
    BY <2>0, <2>1 DEF ReconcileCas, IInv, TypeOK, GoalsReached, GoalReached
  <2>2. CASE current' = current + 1
    BY <2>0, <2>2
  <2>3. CASE UNCHANGED current
    BY <2>0, <2>3
  <2> QED
    BY <2>1, <2>2, <2>3
       DEF StrayNext, SharedNext, Next, CallerNext, SyncerStep, NextPop, NextMiss, NextFetchAdd,
           Release, Broadcast, ReconcileCall, ReconcileLoad, ForeignSend, StrayRelease
<1> QED BY <1>1, Invariance, PTL DEF StraySpec, NeverRegresses

-----------------------------------------------------------------------------
(* What reconcile() gains by a round it loses *)

\* No task has read a counter that is ahead of the counter.
NotAhead == \A s \in Syncers : local[s] <= current

LEMMA NotAheadStep == IInv /\ NotAhead /\ [StrayNext]_vars => NotAhead'
<1> SUFFICES ASSUME IInv, NotAhead, [StrayNext]_vars PROVE NotAhead'
  OBVIOUS
<1> USE DEF NotAhead, IInv, TypeOK
<1>1. CASE UNCHANGED <<current, local>>
  BY <1>1
<1>2. ASSUME NEW c \in Callers, NextFetchAdd(c) PROVE NotAhead'
  BY <1>2 DEF NextFetchAdd
<1>3. ASSUME NEW s \in Syncers, ReconcileLoad(s) PROVE NotAhead'
  BY <1>3 DEF ReconcileLoad
<1>4. ASSUME NEW s \in Syncers, ReconcileCas(s) PROVE NotAhead'
  <2>1. goal[s] > local[s] /\ UNCHANGED local
    BY <1>4 DEF ReconcileCas, GoalsReached, GoalReached
  <2>2. CASE current = local[s]
    BY <1>4, <2>1, <2>2 DEF ReconcileCas
  <2>3. CASE current # local[s]
    BY <1>4, <2>1, <2>3 DEF ReconcileCas
  <2> QED BY <2>2, <2>3
<1> QED
  BY <1>1, <1>2, <1>3, <1>4
     DEF StrayNext, SharedNext, Next, CallerNext, SyncerStep, vars, NextPop, NextMiss,
         Release, Broadcast, ReconcileCall, ForeignSend, StrayRelease

\* An exchange fails only if the counter has gone up since it was read, and only
\* while the goal is ahead of what was read; what is read next is not lower.
LostRound(s) == spc[s] = "cas" /\ spc'[s] = "load"
LostRoundsAdvance ==
  [][\A s \in Syncers : /\ LostRound(s) => local[s] < current /\ local[s] < goal[s]
                        /\ local[s] <= local'[s]]_vars

\* reconcile() cannot go round for ever between two given numbers: a round that
\* is lost leaves the counter above what that round read, and the rounds are over
\* when the goal is reached.  This is what ReconcileReturns rests on, for any
\* callers, reconcilers and foreign transactions (nonce.rs, reconcile).
THEOREM LostRoundsAreProgress == StraySpec => LostRoundsAdvance
<1> DEFINE Advance == \A s \in Syncers :
             /\ LostRound(s) => local[s] < current /\ local[s] < goal[s]
             /\ local[s] <= local'[s]
<1>1. Init => NotAhead
  BY DEF Init, NotAhead
<1>2. IInv /\ NotAhead /\ [StrayNext]_vars => NotAhead'
  BY NotAheadStep
<1>3. IInv /\ NotAhead /\ [StrayNext]_vars => [Advance]_vars
  <2> SUFFICES ASSUME IInv, NotAhead, StrayNext, NEW s \in Syncers
               PROVE  /\ LostRound(s) => local[s] < current /\ local[s] < goal[s]
                      /\ local[s] <= local'[s]
    OBVIOUS
  <2> USE DEF NotAhead, IInv, TypeOK
  <2>1. ASSUME NEW t \in Syncers, ReconcileLoad(t)
        PROVE  local[s] <= local'[s] /\ ~ LostRound(s)
    BY <2>1 DEF ReconcileLoad, LostRound
  <2>2. ASSUME NEW t \in Syncers, ReconcileCas(t)
        PROVE  /\ LostRound(s) => local[s] < current /\ local[s] < goal[s]
               /\ local[s] <= local'[s]
    BY <2>2 DEF ReconcileCas, LostRound, GoalsReached, GoalReached
  <2>3. ASSUME NEW t \in Syncers, NEW p \in 0 .. MaxNonce, ReconcileCall(t, p)
        PROVE  local[s] <= local'[s] /\ ~ LostRound(s)
    BY <2>3 DEF ReconcileCall, LostRound
  <2>4. CASE UNCHANGED <<spc, local>>
    BY <2>4 DEF LostRound
  <2> QED
    BY <2>1, <2>2, <2>3, <2>4
       DEF StrayNext, SharedNext, Next, CallerNext, SyncerStep, NextPop, NextMiss,
           NextFetchAdd, Release, Broadcast, ForeignSend, StrayRelease
<1> QED BY <1>1, <1>2, <1>3, Invariance, PTL DEF StraySpec, LostRoundsAdvance
-----------------------------------------------------------------------------
(* The queue implements the ledger. *)

Owned == [c \in Callers |-> IF pc[c] = "hold" THEN nonce[c] ELSE NoNonce]

\* Callers that keep to their own nonces leave no strays.
Unstrayed == IInv /\ strays = {}

LEMMA NoStrays == SharedSpec => []Unstrayed
<1>1. Init => Unstrayed
  BY InitInv DEF Init, Unstrayed
<1>2. Unstrayed /\ [SharedNext]_vars => Unstrayed'
  <2>1. [SharedNext]_vars => [StrayNext]_vars
    BY DEF StrayNext
  <2>2. [SharedNext]_vars => UNCHANGED strays
    BY DEF SharedNext, Next, CallerNext, SyncerStep, vars, NextPop, NextMiss, NextFetchAdd,
           Release, Broadcast, ReconcileCall, ReconcileLoad, ReconcileCas, ForeignSend
  <2> QED BY <2>1, <2>2, Inductive DEF Unstrayed
<1> QED BY <1>1, <1>2, PTL DEF SharedSpec

\* One step of the queue is one step of the ledger, or none: an empty look at
\* the pool and a failed exchange are invisible.
LEMMA LedgerStep == Unstrayed /\ [SharedNext]_vars => [Ledger!Next]_(Ledger!vars)
<1> SUFFICES ASSUME Unstrayed, [SharedNext]_vars PROVE [Ledger!Next]_(Ledger!vars)
  OBVIOUS
<1> USE DEF Unstrayed, IInv, TypeOK, OneOwner, Held
<1>1. ASSUME NEW c \in Callers, NextPop(c) PROVE Ledger!Reissue(c)
  <2>1. PICK n \in released : /\ \A m \in released : n <= m
                              /\ released' = released \ {n}
                              /\ nonce' = [nonce EXCEPT ![c] = n]
    BY <1>1 DEF NextPop
  <2>2. Owned' = [Owned EXCEPT ![c] = n]
    BY <1>1, <2>1 DEF NextPop, Owned
  <2>3. Owned[c] = NoNonce
    BY <1>1 DEF NextPop, Owned
  <2>4. Ledger!Available(n)
    BY <2>1 DEF Ledger!Available
  <2> QED BY <1>1, <2>1, <2>2, <2>3, <2>4 DEF NextPop, Ledger!Reissue, Owned
<1>2. ASSUME NEW c \in Callers, NextFetchAdd(c) PROVE Ledger!Issue(c)
  <2>1. Owned' = [Owned EXCEPT ![c] = current]
    BY <1>2 DEF NextFetchAdd, Owned
  <2>2. Owned[c] = NoNonce
    BY <1>2 DEF NextFetchAdd, Owned
  <2>3. Ledger!Available(current) /\ current \notin released
    BY DEF Ledger!Available
  <2> QED BY <1>2, <2>1, <2>2, <2>3 DEF NextFetchAdd, Ledger!Issue, Owned
<1>3. ASSUME NEW c \in Callers, Release(c) PROVE Ledger!GiveBack(c)
  <2>1. Owned' = [Owned EXCEPT ![c] = NoNonce]
    BY <1>3 DEF Release, Owned
  <2>2. Owned[c] = nonce[c] /\ nonce[c] # NoNonce /\ nonce[c] \notin released
    BY <1>3 DEF Release, Owned
  <2> QED BY <1>3, <2>1, <2>2 DEF Release, Ledger!GiveBack, Owned
<1>4. ASSUME NEW c \in Callers, Broadcast(c) PROVE Ledger!Spend(c)
  <2>1. Owned' = [Owned EXCEPT ![c] = NoNonce]
    BY <1>4 DEF Broadcast, Owned
  <2>2. Owned[c] = nonce[c] /\ nonce[c] # NoNonce /\ nonce[c] \notin sent
    BY <1>4 DEF Broadcast, Owned
  <2>3. \A d \in Callers \ {c} : Owned[d] # nonce[c]
    BY <1>4, <2>2 DEF Broadcast, Owned
  <2> QED BY <1>4, <2>1, <2>2, <2>3 DEF Broadcast, Ledger!Spend, Owned
<1>5. ASSUME NEW s \in Syncers, ReconcileCas(s) PROVE [Ledger!Next]_(Ledger!vars)
  <2>1. CASE current = local[s]
    <3>1. current' \in Nat /\ current' > current
      BY <1>5, <2>1 DEF ReconcileCas, GoalsReached, GoalReached
    <3> QED BY <1>5, <3>1 DEF ReconcileCas, Ledger!Next, Ledger!Skip
  <2>2. CASE current # local[s]
    BY <1>5, <2>2 DEF ReconcileCas, Ledger!vars
  <2> QED BY <2>1, <2>2
<1>6. ASSUME NEW c \in Callers, NextMiss(c) PROVE UNCHANGED Ledger!vars
  <2>1. Owned' = Owned
    BY <1>6 DEF NextMiss, Owned
  <2> QED BY <1>6, <2>1 DEF NextMiss, Ledger!vars, Owned
<1>7. CASE /\ UNCHANGED <<current, released, pc, nonce, sent>>
  BY <1>7 DEF Ledger!vars
<1> QED
  BY <1>1, <1>2, <1>3, <1>4, <1>5, <1>6, <1>7
     DEF SharedNext, Next, CallerNext, SyncerStep, vars, Ledger!Next, ReconcileCall,
         ReconcileLoad, ForeignSend

\* Under every interleaving of its callers, the two-step next() and the exchange
\* loop of reconcile() look like atomic transfers of single nonces.
THEOREM ImplementsLedger == SharedSpec => RefinesLedger
<1>1. Init => Ledger!Init
  BY DEF Init, Ledger!Init
<1>2. Unstrayed /\ [SharedNext]_vars => [Ledger!Next]_(Ledger!vars)
  BY LedgerStep
<1> QED BY <1>1, <1>2, NoStrays, PTL DEF SharedSpec, RefinesLedger, Ledger!Spec
=============================================================================
