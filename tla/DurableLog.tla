----------------------------- MODULE DurableLog -----------------------------
(***************************************************************************)
(* What a table promises its clients, whatever fails: one log of groups,   *)
(* extended at its end, from which only an expired prefix is ever removed. *)
(* A group enters the log before it is acknowledged, and may enter it      *)
(* without ever being acknowledged (the client lost the answer).  Deaths   *)
(* of the process, recovery, rotation and failed calls leave no trace.     *)
(***************************************************************************)
EXTENDS Integers

VARIABLES
  log,      \* the groups that a reader of the table finds
  low,      \* every sequence up to this one has been retired
  acked     \* the groups acknowledged so far

vars == <<log, low, acked>>

\* The end of the log: the sequence before the next group's first.
IsTop(top) ==
  IF log = {} THEN top = low
  ELSE (\E g \in log : g.last = top) /\ (\A g \in log : g.last <= top)

Init == log = {} /\ low = 0 /\ acked = {}

\* A group is stored at the end of the log; ingestion times do not decrease.
Store ==
  /\ \E f \in log' \ log :
       /\ log' = log \cup {f}
       /\ IsTop(f.first - 1) /\ f.first <= f.last
       /\ \A g \in log : g.max <= f.min
  /\ UNCHANGED <<low, acked>>

\* Only what is stored is acknowledged.
Acknowledge ==
  /\ \E f \in log : acked' = acked \cup {f}
  /\ UNCHANGED <<log, low>>

\* An expired prefix, which ends with a group, is removed.
Retire ==
  /\ \E last \in log :
       /\ low' = last.last
       /\ log' = {g \in log : g.last > last.last}
  /\ UNCHANGED acked

Next == Store \/ Acknowledge \/ Retire

Spec == Init /\ [][Next]_vars
=============================================================================
