-------------------------------- MODULE Workload -------------------------------
(****************************************************************************)
(* The workload of a node: how its transactions are dealt to its threads,   *)
(* and how an order repeats items of the one before.  The two have no state *)
(* in common.                                                               *)
(****************************************************************************)
EXTENDS TxnSource, Locality

\* Every transaction that is asked for reaches one thread, with a home warehouse of that
\* thread and node; an order that repeats items of the last one has no item twice, and
\* the search for such an item ends.
WorkDealt ==
  /\ SourceTypeOK /\ Partitioned /\ OwnHomes /\ Dealt
  /\ LocalityTypeOK /\ PickEnds /\ Distinct
==============================================================================
