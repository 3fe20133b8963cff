-------------------------- MODULE BorrowerDiscovery --------------------------
(***************************************************************************)
(* Borrower discovery of the liquidation bot: the registry of              *)
(* crates/liquidator/src/discovery.rs, the loop of main.rs that scans,     *)
(* saves and polls, and the file the registry is cached in.  The chain,    *)
(* which may replace its last blocks, the RPC node, which may lag behind   *)
(* it, and whoever restarts the process are the environment.  orphans and  *)
(* missed are history variables: only the properties read them.            *)
(***************************************************************************)
EXTENDS Integers

CONSTANTS Borrowers,    \* addresses that may appear in a Borrow event
          StartBlock,   \* settings.discovery_start_block
          Chunk,        \* DEFAULT_BLOCK_CHUNK
          MaxBlock,     \* bound: the chain stops growing here
          MaxReorg      \* bound: blocks one reorganisation replaces

ASSUME ConstantsAssumption ==
  /\ StartBlock \in Nat /\ MaxBlock \in Nat /\ MaxReorg \in Nat
  /\ Chunk \in Nat \ {0}

VARIABLES
  head,     \* number of the last block
  logs,     \* logs[b]: the onBehalfOf addresses of block b's Borrow events
  phase,    \* where the process is: "down", "poll", "scan", "save", "saving", "check"
  last,     \* registry.last_scanned_block
  known,    \* registry.borrowers
  target,   \* the chain head the scan works towards
  found,    \* total_new > 0
  file,     \* the cache file: its state and what it holds
  orphans,  \* history: the borrowers of blocks that were replaced
  missed    \* history: blocks counted as scanned whose logs, as they are, were not

chain == <<head, logs, orphans, missed>>
registry == <<last, known>>
vars == <<head, logs, phase, last, known, target, found, file, orphans, missed>>

Blocks == 0 .. MaxBlock
Borrowed(from, to) == UNION {logs[b] : b \in from .. to}
Smaller(a, b) == IF a < b THEN a ELSE b
Missed(to, seen) == (missed \ (last + 1 .. to)) \cup {b \in last + 1 .. to : b > seen}

Init == /\ head = 0
        /\ logs = [b \in Blocks |-> {}]
        /\ phase = "down"
        /\ last = 0 /\ known = {}
        /\ target = 0 /\ found = FALSE
        /\ file = [state |-> "absent", last |-> 0, known |-> {}]
        /\ orphans = {} /\ missed = {}

-----------------------------------------------------------------------------
(* Start-up: load_or_default *)

\* Seeded bug: the configured start block wins over the cached one.
BootRescans ==
  /\ phase = "down"
  /\ \/ /\ file.state = "absent"
        /\ last' = StartBlock /\ known' = {}
     \/ /\ file.state = "whole"
        /\ last' = StartBlock /\ known' = file.known
  /\ phase' = "poll"
  /\ UNCHANGED <<chain, target, found, file>>

\* A file that does not parse stops main with an error: there is no such action.
Boot ==
  /\ phase = "down"
  /\ \/ /\ file.state = "absent"
        /\ last' = StartBlock /\ known' = {}
     \/ /\ file.state = "whole"
        /\ last' = file.last /\ known' = file.known
  /\ phase' = "poll"
  /\ UNCHANGED <<chain, target, found, file>>

-----------------------------------------------------------------------------
(* scan_new_borrowers *)

\* Seeded bug: the scan also asks for the block being built.
BeginScanPending(h) ==
  /\ phase = "poll"
  /\ found' = FALSE
  /\ IF last >= h
       THEN phase' = "check" /\ UNCHANGED target
       ELSE phase' = "scan" /\ target' = h + 1
  /\ UNCHANGED <<chain, registry, file>>

\* get_block_number: an answer, perhaps from a node that lags behind.  With
\* nothing to scan the pass goes straight to the health checks.
BeginScan(h) ==
  /\ phase = "poll"
  /\ found' = FALSE
  /\ IF last >= h
       THEN phase' = "check" /\ UNCHANGED target
       ELSE phase' = "scan" /\ target' = h
  /\ UNCHANGED <<chain, registry, file>>

\* Seeded bug: the window is taken as half open.
ScanWindowHalfOpen(seen) ==
  /\ phase = "scan"
  /\ LET to == Smaller(last + Chunk, target)
         hits == Borrowed(last + 1, Smaller(to - 1, seen))
     IN  /\ last' = to
         /\ known' = known \cup hits
         /\ found' = (found \/ ~ hits \subseteq known)
         /\ phase' = IF to < target THEN "scan" ELSE IF found' THEN "save" ELSE "check"
         /\ missed' = Missed(to, seen)
  /\ UNCHANGED <<head, logs, orphans, target, file>>

\* One round of the while loop: get_logs over a window, insert_all, advance.
\* The node answers from the blocks it has seen.  After the last window the pass
\* is over; it is saved if it found somebody.
ScanWindow(seen) ==
  /\ phase = "scan"
  /\ LET to == Smaller(last + Chunk, target)
         hits == Borrowed(last + 1, Smaller(to, seen))
     IN  /\ last' = to
         /\ known' = known \cup hits
         /\ found' = (found \/ ~ hits \subseteq known)
         /\ phase' = IF to < target THEN "scan" ELSE IF found' THEN "save" ELSE "check"
         /\ missed' = Missed(to, seen)
  /\ UNCHANGED <<head, logs, orphans, target, file>>

\* Seeded bugs: last_scanned_block advances before get_logs answers; a failed
\* pass is undone by loading the cached registry again.
ScanFailsAdvanced ==
  /\ phase \in {"poll", "scan"}
  /\ phase' = "check"
  /\ last' = IF phase = "scan" THEN Smaller(last + Chunk, target) ELSE last
  /\ UNCHANGED <<chain, known, target, found, file>>

ScanFailsUndone ==
  /\ phase \in {"poll", "scan"}
  /\ phase' = "check"
  /\ IF file.state = "whole" THEN last' = file.last /\ known' = file.known
                            ELSE last' = StartBlock /\ known' = {}
  /\ UNCHANGED <<chain, target, found, file>>

\* get_block_number or get_logs fails: main warns and goes on with what it has;
\* the windows scanned before the failure keep their effect.
ScanFails ==
  /\ phase \in {"poll", "scan"}
  /\ phase' = "check"
  /\ UNCHANGED <<chain, registry, target, found, file>>

-----------------------------------------------------------------------------
(* registry.save: fs::write truncates the file and then writes it *)

SaveTruncate ==
  /\ phase = "save"
  /\ file' = [file EXCEPT !.state = "torn"]
  /\ phase' = "saving"
  /\ UNCHANGED <<chain, registry, target, found>>

SaveWrite ==
  /\ phase = "saving"
  /\ file' = [state |-> "whole", last |-> last, known |-> known]
  /\ phase' = "check"
  /\ UNCHANGED <<chain, registry, target, found>>

\* The directory or the file cannot be opened: main returns the error.
SaveFails ==
  /\ phase = "save"
  /\ phase' = "down"
  /\ UNCHANGED <<chain, registry, target, found, file>>

\* The process dies, or the disk is full, between truncation and the last byte.
TornWrite ==
  /\ phase = "saving"
  /\ phase' = "down"
  /\ UNCHANGED <<chain, registry, target, found, file>>

-----------------------------------------------------------------------------
(* The rest of the loop, the operating system and the chain *)

\* Every known borrower is checked, then the loop sleeps.
CheckAndSleep ==
  /\ phase = "check"
  /\ phase' = "poll"
  /\ UNCHANGED <<chain, registry, target, found, file>>

Crash ==
  /\ phase \in {"poll", "scan", "save", "check"}
  /\ phase' = "down"
  /\ UNCHANGED <<chain, registry, target, found, file>>

MineBlock(who) ==
  /\ head < MaxBlock
  /\ head' = head + 1
  /\ logs' = [logs EXCEPT ![head + 1] = who]
  /\ UNCHANGED <<phase, registry, target, found, file, orphans, missed>>

\* The blocks above n are replaced; others are mined in their place.  With n = 0
\* this is also a bot started for another chain over the cache of the first.
Reorg(n) ==
  /\ n < head /\ head - n <= MaxReorg
  /\ head' = n
  /\ logs' = [b \in Blocks |-> IF b > n THEN {} ELSE logs[b]]
  /\ orphans' = orphans \cup Borrowed(n + 1, head)
  /\ missed' = missed \cup (n + 1 .. head)
  /\ UNCHANGED <<phase, registry, target, found, file>>

Next ==
  \/ Boot \/ ScanFails \/ SaveTruncate \/ SaveWrite \/ SaveFails
  \/ TornWrite \/ CheckAndSleep \/ Crash
  \/ \E h \in 0 .. head : BeginScan(h) \/ ScanWindow(h) \/ Reorg(h)
  \/ \E who \in SUBSET Borrowers : MineBlock(who)

Spec == Init /\ [][Next]_vars

-----------------------------------------------------------------------------
(* Properties *)

Registry == [state : {"absent", "torn", "whole"}, last : Nat, known : SUBSET Borrowers]

\* The process is at a point of its loop and its numbers are block numbers.
TypeOK ==
  /\ head \in Blocks
  /\ logs \in [Blocks -> SUBSET Borrowers]
  /\ phase \in {"down", "poll", "scan", "save", "saving", "check"}
  /\ last \in Nat /\ known \subseteq Borrowers
  /\ target \in Blocks /\ found \in BOOLEAN
  /\ file \in Registry
  /\ orphans \subseteq Borrowers /\ missed \subseteq Blocks

Up == phase # "down"

\* What a process reaches with its registry, or with the one it would load.
Covered == IF Up THEN last ELSE IF file.state = "whole" THEN file.last ELSE StartBlock

\* A list of borrowers that misses nobody of the blocks that were read as they
\* are now, and names nobody who never borrowed.
Exact(list, to) ==
  /\ \A b \in StartBlock + 1 .. to : b \in missed \/ logs[b] \subseteq list
  /\ \A a \in list : a \in orphans \/ \E b \in StartBlock + 1 .. to : a \in logs[b]

\* The watchlist holds every borrower of the blocks after the start block up to
\* last_scanned_block (discovery.rs, scan_new_borrowers), whatever requests fail
\* and however often the process restarts: windows tile the range.  What a
\* replaced block or a node that lags behind hides stays confined to that block.
RegistryExact == Up => Exact(known, last)

\* What a restart would load is as exact as the registry itself was: of the blocks
\* the cache claims it has the borrowers, but for the same replaced or hidden ones
\* (discovery.rs, save).
CacheExact == file.state = "whole" => Exact(file.known, file.last)

\* Fairness: the process runs, somebody restarts it, and the node answers a
\* request that is repeated.  Nothing makes the chain grow or the process crash.
Fairness ==
  /\ WF_vars(Boot)
  /\ WF_vars(SaveTruncate) /\ WF_vars(SaveWrite) /\ WF_vars(CheckAndSleep)
  /\ SF_vars(BeginScan(head)) /\ SF_vars(ScanWindow(head))
CrashesStop == <>[][~ Crash /\ ~ SaveFails]_vars

FairSpec == Spec /\ Fairness
LiveSpec == FairSpec /\ CrashesStop

\* The disk never leaves half a file behind: save() is atomic in effect.
SteadyDisk == [](file.state = "torn" => phase = "saving")

\* A borrower is on the watchlist in the end, although scans keep failing part
\* of the way: the windows already scanned are not scanned again
\* (discovery.rs, scan_new_borrowers).  Nothing is owed for blocks that were
\* replaced, or hidden by the node, after the registry went past them.
Owed == {b \in StartBlock + 1 .. head : b > Covered \/ b \notin missed}
EveryBorrowerWatched ==
  SteadyDisk => \A a \in Borrowers :
    (\E b \in Owed : a \in logs[b]) ~> (Up /\ a \in known) \/ (\A b \in Owed : a \notin logs[b])

\* "So a restart resumes from the last scanned block instead of re-scanning"
\* (discovery.rs): once a block was saved as scanned, no process ever runs that
\* would scan it again, through later passes, failed and torn saves and any number
\* of restarts.
Saved(n) == file.state = "whole" /\ n <= file.last
RestartResumes ==
  \A n \in StartBlock + 1 .. MaxBlock : [](Saved(n) => [](Up => n <= last))

\* "So a restart resumes" (discovery.rs): a bot that stopped comes up again.
RestartComesUp == ~ Up ~> Up

\* The registry and its file implement Watchlist: a failed scan, a save and a
\* start lose nobody, and the end of the process at most who was not saved.
Watch == INSTANCE Watchlist WITH
  up <- Up,
  watched <- IF Up THEN known ELSE IF file.state = "whole" THEN file.known ELSE {}
RefinesWatchlist == Watch!Spec
=============================================================================
