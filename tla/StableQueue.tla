------------------------------ MODULE StableQueue ------------------------------
(***************************************************************************)
(* What a bounded priority queue promises: one line of waiting items in    *)
(* order of arrival; an offer joins its end unless the line is full; the   *)
(* item taken is the first of those with the highest priority.             *)
(***************************************************************************)
EXTENDS Integers, SequencesExt

CONSTANTS Capacity, Tasks

VARIABLES line,      \* the waiting [priority, item], oldest first
          outcome    \* what the last call returned

Init == line = <<>> /\ outcome = <<"none">>

Accept(task) ==
  /\ Len(line) < Capacity
  /\ line' = Append(line, task)
  /\ outcome' = <<"ok">>

Refuse ==
  /\ Len(line) >= Capacity
  /\ outcome' = <<"full">>
  /\ UNCHANGED line

Served(n) ==
  /\ \A m \in DOMAIN line : line[m].priority <= line[n].priority
  /\ \A m \in 1 .. n - 1 : line[m].priority < line[n].priority

Take(n) ==
  /\ Served(n)
  /\ outcome' = <<"some", line[n]>>
  /\ line' = RemoveAt(line, n)

NothingToTake ==
  /\ line = <<>>
  /\ outcome' = <<"none">>
  /\ UNCHANGED line

Next ==
  \/ \E task \in Tasks : Accept(task)
  \/ \E n \in DOMAIN line : Take(n)
  \/ Refuse \/ NothingToTake

Spec == Init /\ [][Next]_<<line, outcome>>
=============================================================================
