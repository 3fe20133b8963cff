----------------------- MODULE BorrowerDiscovery_proofs -----------------------
(***************************************************************************)
(* Proofs about BorrowerDiscovery for any set of borrowers, start block,   *)
(* window size, chain length and depth of reorganisation, with failing     *)
(* requests, a node that lags, crashes and torn writes.                      *)
(***************************************************************************)
EXTENDS BorrowerDiscovery, TLAPS

\* A block range the registry may claim: nothing yet, or blocks of the chain.
Reached(b) == b = StartBlock \/ (StartBlock < b /\ b <= MaxBlock)

\* A scan has not passed its target, and the file is not ahead of the process.
Bounds ==
  /\ Up => Reached(last)
  /\ file.state = "whole" => Reached(file.last)
  /\ Up /\ file.state = "whole" => file.last <= last /\ file.known \subseteq known
  /\ phase = "scan" => last < target

\* What was counted as scanned and is not mined yet, after a reorganisation, is
\* marked as missed; blocks that are not mined hold nothing.
Marked(to) == \A b \in Blocks : head < b /\ StartBlock < b /\ b <= to => b \in missed
Unmined ==
  /\ \A b \in Blocks : head < b => logs[b] = {}
  /\ Up => Marked(last)
  /\ file.state = "whole" => Marked(file.last)

IInv == TypeOK /\ Bounds /\ Unmined /\ RegistryExact /\ CacheExact

USE ConstantsAssumption DEF chain, registry, Blocks, Registry, Up

LEMMA InitInv == Init => IInv
<1> SUFFICES ASSUME Init PROVE IInv
  OBVIOUS
<1>1. TypeOK
  <2>1. file \in Registry
    BY DEF Init
  <2>2. logs \in [Blocks -> SUBSET Borrowers]
    BY DEF Init
  <2>3. /\ head \in Blocks /\ last \in Nat /\ known \subseteq Borrowers
        /\ target \in Blocks
        /\ phase \in {"down", "poll", "scan", "save", "saving", "check"}
    BY DEF Init
  <2>4. found \in BOOLEAN
    BY Zenon DEF Init
  <2>5. orphans \subseteq Borrowers /\ missed \subseteq Blocks
    BY DEF Init
  <2> QED BY <2>1, <2>2, <2>3, <2>4, <2>5 DEF TypeOK
<1>2. Bounds /\ Unmined /\ RegistryExact /\ CacheExact
  BY DEF Init, Bounds, Unmined, RegistryExact, CacheExact
<1> QED BY <1>1, <1>2 DEF IInv

LEMMA TypeStep == IInv /\ [Next]_vars => TypeOK'
<1> SUFFICES ASSUME IInv, [Next]_vars PROVE TypeOK'
  OBVIOUS
<1> USE DEF IInv, TypeOK
<1>1. CASE Boot
  <2>1. file.last \in Nat /\ file.known \subseteq Borrowers
    BY Zenon DEF Registry
  <2>2. last' \in Nat /\ known' \subseteq Borrowers
    BY <1>1, <2>1 DEF Boot
  <2>3. phase' \in {"down", "poll", "scan", "save", "saving", "check"}
    BY <1>1 DEF Boot
  <2>4. UNCHANGED <<chain, target, found, file>>
    BY <1>1 DEF Boot
  <2> QED BY <2>2, <2>3, <2>4
<1>2. ASSUME NEW h \in 0 .. head, BeginScan(h) PROVE TypeOK'
  <2>1. found' \in BOOLEAN
    BY <1>2, Zenon DEF BeginScan
  <2>2. /\ target' \in Blocks /\ UNCHANGED <<chain, registry, file>>
        /\ phase' \in {"down", "poll", "scan", "save", "saving", "check"}
    BY <1>2 DEF BeginScan
  <2> QED BY <2>1, <2>2
<1>3. ASSUME NEW seen \in 0 .. head, ScanWindow(seen) PROVE TypeOK'
  <2> DEFINE to == Smaller(last + Chunk, target)
  <2>1. to \in Blocks
    BY <1>3 DEF ScanWindow, Bounds, Smaller
  <2>2. Smaller(to, seen) \in Blocks
    BY <2>1 DEF Smaller
  <2>3. Borrowed(last + 1, Smaller(to, seen)) \subseteq Borrowers
    BY <2>2 DEF Borrowed
  <2>4. known' \subseteq Borrowers /\ last' \in Nat
    BY <1>3, <2>1, <2>3 DEF ScanWindow
  <2>5. found' \in BOOLEAN /\ phase' \in {"scan", "save", "check"}
    BY <1>3 DEF ScanWindow
  <2>6. missed' \subseteq Blocks
    <3>1. missed' = Missed(to, seen) /\ last + 1 .. to \subseteq Blocks
      BY <1>3, <2>1 DEF ScanWindow
    <3> QED BY <3>1 DEF Missed
  <2> QED BY <1>3, <2>4, <2>5, <2>6 DEF ScanWindow
<1>4. CASE ScanFails \/ SaveFails \/ TornWrite \/ CheckAndSleep \/ Crash
  BY <1>4 DEF ScanFails, SaveFails, TornWrite, CheckAndSleep, Crash
<1>5. CASE SaveTruncate
  BY <1>5 DEF SaveTruncate
<1>6. CASE SaveWrite
  BY <1>6 DEF SaveWrite
<1>7. ASSUME NEW who \in SUBSET Borrowers, MineBlock(who) PROVE TypeOK'
  BY <1>7 DEF MineBlock
<1>8. CASE UNCHANGED vars
  BY <1>8 DEF vars
<1>9. ASSUME NEW n \in 0 .. head, Reorg(n) PROVE TypeOK'
  <2>1. Borrowed(n + 1, head) \subseteq Borrowers
    BY DEF Borrowed
  <2>2. logs' \in [Blocks -> SUBSET Borrowers]
    BY <1>9 DEF Reorg
  <2>3. head' \in Blocks /\ missed' \subseteq Blocks /\ orphans' \subseteq Borrowers
    BY <1>9, <2>1 DEF Reorg
  <2>4. UNCHANGED <<phase, registry, target, found, file>>
    BY <1>9 DEF Reorg
  <2> QED BY <2>2, <2>3, <2>4
<1> QED
  BY <1>1, <1>2, <1>3, <1>4, <1>5, <1>6, <1>7, <1>8, <1>9 DEF Next

LEMMA BoundsStep == IInv /\ [Next]_vars => Bounds'
<1> SUFFICES ASSUME IInv, [Next]_vars PROVE Bounds'
  OBVIOUS
<1> USE DEF IInv, TypeOK, Bounds, Reached
<1>1. CASE Boot
  BY <1>1 DEF Boot
<1>2. ASSUME NEW h \in 0 .. head, BeginScan(h) PROVE Bounds'
  BY <1>2 DEF BeginScan
<1>3. ASSUME NEW seen \in 0 .. head, ScanWindow(seen) PROVE Bounds'
  <2>1. known \subseteq known' /\ UNCHANGED file
    BY <1>3 DEF ScanWindow
  <2> QED BY <1>3, <2>1 DEF ScanWindow, Smaller
<1>4. CASE ScanFails \/ SaveFails \/ TornWrite \/ CheckAndSleep \/ Crash
  BY <1>4 DEF ScanFails, SaveFails, TornWrite, CheckAndSleep, Crash
<1>5. CASE SaveTruncate
  BY <1>5 DEF SaveTruncate
<1>6. CASE SaveWrite
  BY <1>6 DEF SaveWrite
<1>7. ASSUME NEW who \in SUBSET Borrowers, MineBlock(who) PROVE Bounds'
  BY <1>7 DEF MineBlock
<1>8. CASE UNCHANGED vars
  BY <1>8 DEF vars
<1>9. ASSUME NEW n \in 0 .. head, Reorg(n) PROVE Bounds'
  BY <1>9 DEF Reorg
<1> QED
  BY <1>1, <1>2, <1>3, <1>4, <1>5, <1>6, <1>7, <1>8, <1>9 DEF Next

LEMMA UnminedStep == IInv /\ [Next]_vars => Unmined'
<1> SUFFICES ASSUME IInv, [Next]_vars PROVE Unmined'
  OBVIOUS
<1> USE DEF IInv, TypeOK, Unmined, Marked
<1>1. CASE Boot
  BY <1>1 DEF Boot
<1>2. ASSUME NEW h \in 0 .. head, BeginScan(h) PROVE Unmined'
  BY <1>2 DEF BeginScan
<1>3. ASSUME NEW seen \in 0 .. head, ScanWindow(seen) PROVE Unmined'
  <2> DEFINE to == Smaller(last + Chunk, target)
  <2>1. /\ phase = "scan" /\ last' = to /\ missed' = Missed(to, seen)
        /\ UNCHANGED <<head, logs, file>>
    BY <1>3 DEF ScanWindow
  <2>2. \A b \in Blocks : head < b /\ b \in missed => b \in missed'
    BY <2>1 DEF Missed
  <2>3. \A b \in Blocks : head < b /\ last < b /\ b <= to => b \in missed'
    BY <2>1 DEF Missed
  <2> QED BY <2>1, <2>2, <2>3
<1>4. CASE ScanFails \/ SaveFails \/ TornWrite \/ CheckAndSleep \/ Crash
  BY <1>4 DEF ScanFails, SaveFails, TornWrite, CheckAndSleep, Crash
<1>5. CASE SaveTruncate
  BY <1>5 DEF SaveTruncate
<1>6. CASE SaveWrite
  BY <1>6 DEF SaveWrite
<1>7. ASSUME NEW who \in SUBSET Borrowers, MineBlock(who) PROVE Unmined'
  BY <1>7 DEF MineBlock
<1>8. CASE UNCHANGED vars
  BY <1>8 DEF vars
<1>9. ASSUME NEW n \in 0 .. head, Reorg(n) PROVE Unmined'
  BY <1>9 DEF Reorg
<1> QED
  BY <1>1, <1>2, <1>3, <1>4, <1>5, <1>6, <1>7, <1>8, <1>9 DEF Next

\* A window makes the registry exact up to its end: what it reads is added, and
\* what the node has not seen is marked as missed.
LEMMA WindowExact ==
  ASSUME IInv, NEW seen \in 0 .. head, ScanWindow(seen)
  PROVE  Exact(known, last)'
<1> DEFINE to == Smaller(last + Chunk, target)
<1> USE DEF IInv, TypeOK
<1>1. /\ phase = "scan" /\ last' = to /\ missed' = Missed(to, seen)
      /\ known' = known \cup Borrowed(last + 1, Smaller(to, seen))
      /\ UNCHANGED <<head, logs, orphans>>
  BY DEF ScanWindow
<1>2. last < to /\ to \in Nat /\ StartBlock <= last
  BY <1>1 DEF Bounds, Reached, Smaller
<1>3. Exact(known, last)
  BY <1>1 DEF RegistryExact
<1>4. ASSUME NEW b \in StartBlock + 1 .. to, b \notin missed' PROVE logs[b] \subseteq known'
  <2>1. CASE b <= last
    BY <1>1, <1>2, <1>3, <1>4, <2>1 DEF Exact, Missed
  <2>2. CASE last < b
    <3>1. b \in last + 1 .. Smaller(to, seen)
      BY <1>1, <1>2, <1>4, <2>2 DEF Missed, Smaller
    <3> QED BY <1>1, <3>1 DEF Borrowed
  <2> QED BY <1>2, <2>1, <2>2
<1>5. ASSUME NEW a \in known' PROVE a \in orphans \/ \E b \in StartBlock + 1 .. to : a \in logs[b]
  <2>1. CASE a \in known
    BY <1>2, <1>3, <2>1 DEF Exact
  <2>2. CASE a \in Borrowed(last + 1, Smaller(to, seen))
    <3>1. PICK b \in last + 1 .. Smaller(to, seen) : a \in logs[b]
      BY <2>2 DEF Borrowed
    <3>2. b \in StartBlock + 1 .. to
      BY <1>2 DEF Smaller
    <3> QED BY <3>1, <3>2
  <2> QED BY <1>1, <1>5, <2>1, <2>2
<1>6. last' = to /\ orphans' = orphans /\ logs' = logs
  BY <1>1
<1> HIDE DEF to
<1> QED BY <1>4, <1>5, <1>6 DEF Exact

\* A new block and a reorganisation keep a list exact that claims nothing which is
\* not mined without marking it.
LEMMA ChainExact ==
  ASSUME TypeOK, Unmined, NEW list, NEW to \in Nat, Reached(to), Marked(to), Exact(list, to),
         \/ \E who \in SUBSET Borrowers : MineBlock(who)
         \/ \E n \in 0 .. head : Reorg(n)
  PROVE  /\ \A b \in StartBlock + 1 .. to : b \in missed' \/ logs'[b] \subseteq list
         /\ \A a \in list : a \in orphans' \/ \E b \in StartBlock + 1 .. to : a \in logs'[b]
<1> USE DEF TypeOK, Reached, Exact
<1>1. ASSUME NEW who \in SUBSET Borrowers, MineBlock(who)
      PROVE  /\ \A b \in StartBlock + 1 .. to : b \in missed' \/ logs'[b] \subseteq list
             /\ \A a \in list : a \in orphans' \/ \E b \in StartBlock + 1 .. to : a \in logs'[b]
  <2>1. /\ \A b \in Blocks : b # head + 1 => logs'[b] = logs[b]
        /\ logs[head + 1] = {} /\ UNCHANGED <<missed, orphans>> /\ head + 1 \in Blocks
    BY <1>1 DEF MineBlock, Unmined
  <2>2. \A b \in StartBlock + 1 .. to : b \in Blocks /\ logs[b] \subseteq logs'[b]
    BY <2>1
  <2>3. head + 1 \in StartBlock + 1 .. to => head + 1 \in missed
    BY <2>1 DEF Marked
  <2>4. \A a \in list : a \in orphans' \/ \E b \in StartBlock + 1 .. to : a \in logs'[b]
    BY <2>1, <2>2
  <2>5. \A b \in StartBlock + 1 .. to : b \in missed' \/ logs'[b] \subseteq list
    BY <2>1, <2>2, <2>3
  <2> QED BY <2>4, <2>5
<1>2. ASSUME NEW n \in 0 .. head, Reorg(n)
      PROVE  /\ \A b \in StartBlock + 1 .. to : b \in missed' \/ logs'[b] \subseteq list
             /\ \A a \in list : a \in orphans' \/ \E b \in StartBlock + 1 .. to : a \in logs'[b]
  <2>1. \A b \in StartBlock + 1 .. to : logs'[b] = IF b > n THEN {} ELSE logs[b]
    BY <1>2 DEF Reorg
  <2>2. /\ missed \subseteq missed'
        /\ orphans \subseteq orphans'
        /\ \A b \in n + 1 .. head : logs[b] \subseteq orphans'
    BY <1>2 DEF Reorg, Borrowed
  <2>3. \A b \in StartBlock + 1 .. to : logs[b] \subseteq logs'[b] \cup orphans'
    <3> SUFFICES ASSUME NEW b \in StartBlock + 1 .. to
                 PROVE  logs[b] \subseteq logs'[b] \cup orphans'
      OBVIOUS
    <3>1. CASE b <= n
      BY <2>1, <3>1
    <3>2. CASE n < b /\ b <= head
      <4>1. b \in n + 1 .. head
        BY <3>2
      <4> QED BY <2>2, <4>1
    <3>3. CASE head < b
      <4>1. logs[b] = {}
        BY <3>3 DEF Unmined
      <4> QED BY <4>1
    <3> QED BY <3>1, <3>2, <3>3
  <2>4. \A a \in list : a \in orphans' \/ \E b \in StartBlock + 1 .. to : a \in logs'[b]
    BY <2>2, <2>3
  <2>5. \A b \in StartBlock + 1 .. to : b \in missed' \/ logs'[b] \subseteq list
    BY <2>1, <2>2
  <2> QED BY <2>4, <2>5
<1> QED BY <1>1, <1>2

\* The registry and its cache stay exact: a window extends the range, a load takes
\* over an exact cache, and a torn file is never loaded.
LEMMA ExactStep == IInv /\ [Next]_vars => RegistryExact' /\ CacheExact'
<1> SUFFICES ASSUME IInv, [Next]_vars PROVE RegistryExact' /\ CacheExact'
  OBVIOUS
<1> USE DEF IInv, TypeOK, RegistryExact, CacheExact
<1>1. CASE Boot
  <2>1. UNCHANGED <<chain, file>>
    BY <1>1 DEF Boot
  <2>2. CASE last' = StartBlock /\ known' = {}
    BY <2>1, <2>2 DEF Exact
  <2>3. CASE file.state = "whole" /\ last' = file.last /\ known' = file.known
    BY <2>1, <2>3 DEF Exact
  <2> QED BY <1>1, <2>2, <2>3 DEF Boot
<1>2. ASSUME NEW h \in 0 .. head, BeginScan(h) PROVE RegistryExact' /\ CacheExact'
  BY <1>2 DEF BeginScan, Exact
<1>3. ASSUME NEW seen \in 0 .. head, ScanWindow(seen) PROVE RegistryExact' /\ CacheExact'
  <2>1. Exact(known, last)'
    BY <1>3, WindowExact
  <2>2. ASSUME file.state = "whole" PROVE CacheExact'
    <3>1. /\ missed' = Missed(last', seen) /\ phase = "scan"
          /\ UNCHANGED <<logs, orphans, file>>
      BY <1>3 DEF ScanWindow
    <3>2. file.last <= last
      BY <2>2, <3>1 DEF Bounds
    <3>3. \A b \in StartBlock + 1 .. file.last : b \in missed => b \in missed'
      BY <3>1, <3>2 DEF Missed
    <3>4. \A b \in StartBlock + 1 .. file.last : b \in missed \/ logs[b] \subseteq file.known
      BY <2>2 DEF Exact
    <3> QED BY <2>2, <3>1, <3>3, <3>4 DEF Exact
  <2>3. UNCHANGED file
    BY <1>3 DEF ScanWindow
  <2> QED BY <2>1, <2>2, <2>3
<1>4. CASE ScanFails \/ SaveFails \/ TornWrite \/ CheckAndSleep \/ Crash
  <2>1. UNCHANGED <<chain, registry, file>> /\ (phase' # "down" => phase # "down")
    BY <1>4 DEF ScanFails, SaveFails, TornWrite, CheckAndSleep, Crash
  <2> QED BY <2>1 DEF Exact
<1>5. CASE SaveTruncate
  BY <1>5 DEF SaveTruncate, Exact
<1>6. CASE SaveWrite
  BY <1>6 DEF SaveWrite, Exact
<1>7. CASE (\E who \in SUBSET Borrowers : MineBlock(who)) \/ (\E n \in 0 .. head : Reorg(n))
  <2>1. UNCHANGED <<phase, last, known, file>>
    BY <1>7 DEF MineBlock, Reorg
  <2>2. ASSUME Up PROVE Exact(known, last)'
    <3>1. Reached(last) /\ Marked(last) /\ Exact(known, last)
      BY <2>2 DEF Bounds, Unmined
    <3>2. /\ \A b \in StartBlock + 1 .. last : b \in missed' \/ logs'[b] \subseteq known
          /\ \A a \in known : a \in orphans' \/ \E b \in StartBlock + 1 .. last : a \in logs'[b]
      BY <1>7, <3>1, ChainExact
    <3> QED BY <2>1, <3>2 DEF Exact
  <2>3. ASSUME file.state = "whole" PROVE Exact(file.known, file.last)'
    <3>1. Reached(file.last) /\ Marked(file.last) /\ Exact(file.known, file.last)
      BY <2>3 DEF Bounds, Unmined
    <3>2. /\ \A b \in StartBlock + 1 .. file.last : b \in missed' \/ logs'[b] \subseteq file.known
          /\ \A a \in file.known : a \in orphans' \/ \E b \in StartBlock + 1 .. file.last : a \in logs'[b]
      BY <1>7, <3>1, ChainExact
    <3> QED BY <2>1, <3>2 DEF Exact
  <2> QED BY <2>1, <2>2, <2>3
<1>8. CASE UNCHANGED vars
  BY <1>8 DEF vars, Exact
<1> QED
  BY <1>1, <1>2, <1>3, <1>4, <1>5, <1>6, <1>7, <1>8 DEF Next

THEOREM Invariance == Spec => []IInv
<1>1. IInv /\ [Next]_vars => IInv'
  BY TypeStep, BoundsStep, UnminedStep, ExactStep DEF IInv
<1> QED BY InitInv, <1>1, PTL DEF Spec

\* Type correctness of the process, its cache file and the chain.
THEOREM TypeCorrect == Spec => []TypeOK
<1>1. IInv => TypeOK
  BY DEF IInv
<1> QED BY <1>1, Invariance, PTL

\* No borrower of a scanned block is missing from the watchlist, except where the
\* block was replaced or not seen by the node, and none is invented, whatever
\* fails and however often the process restarts.
THEOREM RegistryIsExact == Spec => []RegistryExact
<1>1. IInv => RegistryExact
  BY DEF IInv
<1> QED BY <1>1, Invariance, PTL

\* A cache that can be loaded has the borrowers of the blocks it claims, except
\* where a block was replaced or not seen by the node.
THEOREM CacheIsExact == Spec => []CacheExact
<1>1. IInv => CacheExact
  BY DEF IInv
<1> QED BY <1>1, Invariance, PTL

\* The registry with its cache file implements Watchlist.
THEOREM ImplementsWatchlist == Spec => RefinesWatchlist
<1> DEFINE list == IF Up THEN known ELSE IF file.state = "whole" THEN file.known ELSE {}
<1>1. Init => Watch!Init
  BY DEF Init, Watch!Init
<1>2. IInv /\ IInv' /\ [Next]_vars => [Watch!Next]_<<Up, list>>
  <2> SUFFICES ASSUME IInv, IInv', [Next]_vars PROVE [Watch!Next]_<<Up, list>>
    OBVIOUS
  <2> USE DEF IInv, TypeOK, Bounds, Watch!Next, Watch!Start, Watch!Grow, Watch!Stop
  <2>1. CASE Boot
    BY <2>1 DEF Boot
  <2>2. ASSUME NEW h \in 0 .. head, BeginScan(h) PROVE UNCHANGED <<Up, list>>
    BY <2>2 DEF BeginScan
  <2>3. ASSUME NEW seen \in 0 .. head, ScanWindow(seen) PROVE Watch!Grow
    <3>1. Up /\ Up' /\ known' = known \cup known' /\ known' \in SUBSET Borrowers
      BY <2>3 DEF ScanWindow
    <3> QED BY <3>1
  <2>4. CASE ScanFails \/ CheckAndSleep
    BY <2>4 DEF ScanFails, CheckAndSleep
  <2>5. CASE SaveFails \/ TornWrite \/ Crash
    BY <2>5 DEF SaveFails, TornWrite, Crash
  <2>6. CASE SaveTruncate
    BY <2>6 DEF SaveTruncate
  <2>7. CASE SaveWrite
    BY <2>7 DEF SaveWrite
  <2>8. ASSUME NEW who \in SUBSET Borrowers, MineBlock(who) PROVE UNCHANGED <<Up, list>>
    BY <2>8 DEF MineBlock
  <2>9. ASSUME NEW n \in 0 .. head, Reorg(n) PROVE UNCHANGED <<Up, list>>
    BY <2>9 DEF Reorg
  <2>10. CASE UNCHANGED vars
    BY <2>10 DEF vars
  <2> QED
    BY <2>1, <2>2, <2>3, <2>4, <2>5, <2>6, <2>7, <2>8, <2>9, <2>10 DEF Next
<1> QED BY <1>1, <1>2, Invariance, PTL DEF Spec, RefinesWatchlist, Watch!Spec
-----------------------------------------------------------------------------
(* What the liveness properties rest on *)

\* A window makes progress towards the head of its pass, and the pass ends with
\* it; nothing but the end of the process takes a block back.
WindowsAdvance ==
  [][\A seen \in 0 .. head : ScanWindow(seen) =>
       /\ last < last' /\ last' <= target
       /\ phase' = "scan" <=> last' < target]_vars
BlocksAreKept == [][Up /\ Up' => last <= last']_vars

\* Every request of a pass that is answered shrinks what is left of it, so passes
\* end; a failed one, a node that lags behind and a reorganisation do not undo
\* the windows before it (discovery.rs, scan_new_borrowers).
THEOREM ScansAdvance == Spec => WindowsAdvance /\ BlocksAreKept
<1> DEFINE Advance == \A seen \in 0 .. head : ScanWindow(seen) =>
             /\ last < last' /\ last' <= target
             /\ phase' = "scan" <=> last' < target
           Kept == Up /\ Up' => last <= last'
<1>1. ASSUME IInv, NEW seen \in 0 .. head, ScanWindow(seen)
      PROVE  /\ last < last' /\ last' <= target
             /\ phase' = "scan" <=> last' < target
  <2> DEFINE to == Smaller(last + Chunk, target)
  <2>1. last \in Nat /\ target \in Nat /\ Chunk \in Nat /\ 0 < Chunk
    BY <1>1 DEF IInv, TypeOK
  <2>2. last < target
    BY <1>1 DEF ScanWindow, IInv, Bounds
  <2>3. last < to /\ to <= target
    BY <2>1, <2>2 DEF Smaller
  <2>4. last' = to /\ (phase' = "scan" <=> to < target)
    BY <1>1, Zenon DEF ScanWindow
  <2> HIDE DEF to
  <2> QED BY <2>3, <2>4
<1>2. IInv /\ [Next]_vars => [Kept]_vars
  <2> SUFFICES ASSUME IInv, Next, Up, Up' PROVE last <= last'
    OBVIOUS
  <2>0. last \in Nat
    BY DEF IInv, TypeOK
  <2>1. ASSUME NEW seen \in 0 .. head, ScanWindow(seen) PROVE last <= last'
    <3>1. last < last' /\ last' <= target /\ target \in Nat
      BY <1>1, <2>1 DEF IInv, TypeOK
    <3>2. last' \in Nat
      BY TypeStep, <2>1 DEF TypeOK
    <3> QED BY <2>0, <3>1, <3>2
  <2>2. CASE UNCHANGED last
    BY <2>0, <2>2
  <2> QED
    BY <2>1, <2>2
       DEF Next, Boot, ScanFails, SaveTruncate, SaveWrite, SaveFails, TornWrite, CheckAndSleep,
           Crash, BeginScan, Reorg, MineBlock
<1>3. IInv => Advance
  BY <1>1
<1> HIDE DEF Advance, Kept
<1> QED BY <1>2, <1>3, Invariance, PTL DEF Spec, WindowsAdvance, BlocksAreKept, Advance, Kept

\* A block that was saved once is never scanned again, by this process or any later
\* one: a file that is written over claims no less, and a torn one is not loaded.
THEOREM RestartsResume == Spec => RestartResumes
<1> SUFFICES ASSUME NEW n \in StartBlock + 1 .. MaxBlock
             PROVE  Spec => [](Saved(n) => [](Up => n <= last))
  BY DEF RestartResumes
<1> DEFINE Kept == /\ file.state # "absent"
                   /\ file.state = "whole" => n <= file.last
                   /\ Up => n <= last
           Resumed == Up => n <= last
<1>1. IInv /\ Saved(n) => Kept
  BY DEF IInv, TypeOK, Bounds, Saved
<1>2. IInv /\ Kept /\ [Next]_vars => Kept'
  <2> SUFFICES ASSUME IInv, Kept, [Next]_vars PROVE Kept'
    OBVIOUS
  <2> USE DEF IInv, TypeOK
  <2>1. CASE Boot
    BY <2>1 DEF Boot
  <2>2. ASSUME NEW h \in 0 .. head, BeginScan(h) PROVE Kept'
    BY <2>2 DEF BeginScan
  <2>3. ASSUME NEW seen \in 0 .. head, ScanWindow(seen) PROVE Kept'
    BY <2>3 DEF ScanWindow, Bounds, Smaller
  <2>4. CASE ScanFails \/ SaveFails \/ TornWrite \/ CheckAndSleep \/ Crash
    BY <2>4 DEF ScanFails, SaveFails, TornWrite, CheckAndSleep, Crash
  <2>5. CASE SaveTruncate \/ SaveWrite
    BY <2>5 DEF SaveTruncate, SaveWrite
  <2>6. ASSUME NEW who \in SUBSET Borrowers, MineBlock(who) PROVE Kept'
    BY <2>6 DEF MineBlock
  <2>7. ASSUME NEW k \in 0 .. head, Reorg(k) PROVE Kept'
    BY <2>7 DEF Reorg
  <2>8. CASE UNCHANGED vars
    BY <2>8 DEF vars
  <2> QED
    BY <2>1, <2>2, <2>3, <2>4, <2>5, <2>6, <2>7, <2>8 DEF Next
<1>3. Kept => Resumed
  OBVIOUS
<1> HIDE DEF Kept
<1>4. Spec => [](Saved(n) => []Resumed)
  BY <1>1, <1>2, <1>3, Invariance, PTL DEF Spec
<1> QED BY <1>4

\* A torn file is the work of a death inside fs::write and of nothing else: a
\* bot that dies anywhere but there never leaves one, so SteadyDisk, on which the
\* liveness properties are conditional, is exactly what save() leaves open.
THEOREM DiskIsSteady == Spec /\ [][~ TornWrite]_vars => SteadyDisk
<1> DEFINE Steady == file.state = "torn" => phase = "saving"
<1>1. Init => Steady
  BY DEF Init
<1>2. Steady /\ [Next]_vars /\ [~ TornWrite]_vars => Steady'
  <2> SUFFICES ASSUME Steady, [Next]_vars, [~ TornWrite]_vars PROVE Steady'
    OBVIOUS
  <2>1. CASE SaveTruncate
    BY <2>1 DEF SaveTruncate
  <2>2. CASE SaveWrite
    BY <2>2 DEF SaveWrite
  <2>3. CASE UNCHANGED <<file, phase>>
    BY <2>3
  <2>4. CASE TornWrite
    BY <2>4 DEF TornWrite, vars
  <2>5. ASSUME UNCHANGED file, phase # "saving" PROVE Steady'
    BY <2>5
  <2>6. CASE Boot
    BY <2>6 DEF Boot
  <2> QED
    BY <2>1, <2>2, <2>3, <2>4, <2>5, <2>6
       DEF Next, ScanFails, SaveFails, CheckAndSleep, Crash, BeginScan, ScanWindow, Reorg,
           MineBlock, vars
<1> QED BY <1>1, <1>2, PTL DEF Spec, SteadyDisk
=============================================================================
