-------------------------------- MODULE Barrier -------------------------------
(****************************************************************************)
(* What ClusterSync promises: a sequence of fences and broadcasts that all  *)
(* partitions go through.  A fence is left only when every partition has    *)
(* come to it; a broadcast only when the master has, and with its value.    *)
(****************************************************************************)
EXTENDS Naturals, Sequences

CONSTANTS
  Part,     \* the partitions (nodes); the master is 0
  Plan      \* the operations, in the order of main: "fence" or "broadcast"

VARIABLES
  come,     \* come[p]: operations that p has begun
  gone      \* gone[p]: operations that p has finished

Init == come = [p \in Part |-> 0] /\ gone = [p \in Part |-> 0]

Come(p) ==
  /\ come[p] = gone[p] /\ gone[p] < Len(Plan)
  /\ come' = [come EXCEPT ![p] = @ + 1]
  /\ UNCHANGED gone

\* Those that must have begun operation k before anybody finishes it.
Awaited(k) == IF Plan[k] = "fence" THEN Part ELSE {0}

Go(p) ==
  /\ come[p] = gone[p] + 1
  /\ \A q \in Awaited(come[p]) : come[q] >= come[p]
  /\ gone' = [gone EXCEPT ![p] = @ + 1]
  /\ UNCHANGED come

Next == \E p \in Part : Come(p) \/ Go(p)

Spec == Init /\ [][Next]_<<come, gone>>
==============================================================================
