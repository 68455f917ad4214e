------------------------------ MODULE ClusterSync -----------------------------
(****************************************************************************)
(* How the nodes of the database keep in step (ClusterSync.h), in the order *)
(* in which main uses it (TpccBenchmarkMain.cpp).  A fence is a collection  *)
(* by the master followed by a broadcast of the master.  Both go through a  *)
(* key-value store; a key is made of a counter, sync_key_, that every node  *)
(* keeps for itself and of a partition number.                              *)
(*                                                                          *)
(* The store is GAM's: Get waits for the key.  (DSM.h declares Put and Get  *)
(* and does not implement them.)                                            *)
(****************************************************************************)
EXTENDS Integers, Sequences

CONSTANTS
  PartitionNum,   \* number of nodes
  Plan            \* "fence" and "broadcast" in the order of main

ASSUME ClusterSyncAssumption ==
  /\ PartitionNum \in Nat \ {0}
  /\ Plan \in Seq({"fence", "broadcast"})

Part == 0 .. PartitionNum - 1
Master == 0

VARIABLES
  phase,      \* phase[p]: idle, collect or broadcast
  op,      \* op[p]: operations of the plan that p has begun
  key,     \* key[p]: sync_key_
  at,      \* at: partition whose flag the master collects next
  store    \* the pairs that were Put: keys, and which operation's value they hold

syncVars == <<phase, op, key, at, store>>

SyncInit ==
  /\ phase = [p \in Part |-> "idle"]
  /\ op = [p \in Part |-> 0]
  /\ key = [p \in Part |-> 0]
  /\ at = 0
  /\ store = {}

Put(k, v) == store' = {x \in store : x.key # k} \cup {[key |-> k, of |-> v]}
Got(k) == {x \in store : x.key = k}

\* Fault: one key for each operation.
NextKey_fault(p) == key' = [key EXCEPT ![p] = @ + 1]

NextKey(p) == key' = [key EXCEPT ![p] = @ + PartitionNum]

------------------------------------------------------------------------------
\* main comes to its next fence or broadcast.
Enter(p) ==
  /\ phase[p] = "idle" /\ op[p] < Len(Plan)
  /\ op' = [op EXCEPT ![p] = @ + 1]
  /\ phase' = [phase EXCEPT ![p] = IF Plan[op[p] + 1] = "fence" THEN "collect" ELSE "broadcast"]
  /\ UNCHANGED <<key, at, store>>

\* MasterCollect on the master: one turn of its loop.
Collect(p) ==
  /\ phase[p] = "collect" /\ p = Master /\ at < PartitionNum
  /\ at # p => Got(key[p] + at) # {}
  /\ at' = at + 1
  /\ UNCHANGED <<phase, op, key, store>>

\* MasterCollect on the master: the end.
Collected(p) ==
  /\ phase[p] = "collect" /\ p = Master /\ at = PartitionNum
  /\ at' = 0
  /\ NextKey(p)
  /\ phase' = [phase EXCEPT ![p] = "broadcast"]
  /\ UNCHANGED <<op, store>>

Flag(p) == key[p] + p

\* MasterCollect on another node.
Report(p) ==
  /\ phase[p] = "collect" /\ p # Master
  /\ Put(Flag(p), op[p])
  /\ NextKey(p)
  /\ phase' = [phase EXCEPT ![p] = "broadcast"]
  /\ UNCHANGED <<op, at>>

\* MasterBroadcast on the master.
Broadcast(p) ==
  /\ phase[p] = "broadcast" /\ p = Master
  /\ Put(key[p] + p, op[p])
  /\ NextKey(p)
  /\ phase' = [phase EXCEPT ![p] = "idle"]
  /\ UNCHANGED <<op, at>>

\* MasterBroadcast on another node.
Receive(p) ==
  /\ phase[p] = "broadcast" /\ p # Master
  /\ Got(key[p] + Master) # {}
  /\ NextKey(p)
  /\ phase' = [phase EXCEPT ![p] = "idle"]
  /\ UNCHANGED <<op, at, store>>

NodeStep(p) == Enter(p) \/ Collect(p) \/ Collected(p) \/ Report(p) \/ Broadcast(p) \/ Receive(p)

SyncNext == \E p \in Part : NodeStep(p)

SyncSpec == SyncInit /\ [][SyncNext]_syncVars

------------------------------------------------------------------------------
SyncTypeOK ==
  /\ phase \in [Part -> {"idle", "collect", "broadcast"}]
  /\ op \in [Part -> 0 .. Len(Plan)]
  /\ key \in [Part -> Nat]
  /\ at \in 0 .. PartitionNum
  /\ store \subseteq [key : Nat, of : 1 .. Len(Plan)]

\* What a node gets is what was put for the operation it is in: the address of the
\* storage is not taken for a flag, nor a flag of an earlier fence for a new one.
RightValue ==
  /\ \A p \in Part \ {Master} : phase[p] = "broadcast" => \A x \in Got(key[p] + Master) : x.of = op[p]
  /\ phase[Master] = "collect" =>
       \A q \in Part \ {Master} : \A x \in Got(key[Master] + q) : x.of = op[Master]

\* A node has gone through the operations that it has begun, but for the last
\* unless it is idle.
B == INSTANCE Barrier WITH come <- op, gone <- [p \in Part |-> IF phase[p] = "idle" THEN op[p] ELSE op[p] - 1]

\* Fences hold everybody back: ClusterSync is a barrier.
IsBarrier == B!Spec
==============================================================================
