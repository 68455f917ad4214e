------------------------------- MODULE Database -------------------------------
(****************************************************************************)
(* The database on top of the distributed memory.  The transactions         *)
(* (TwoPL), the threads that run them (Executor) and the start of the       *)
(* cluster (ClusterSync); the storage: the hash index, the array of its     *)
(* buckets and the keys (HashIndex, GAddrArray, Keys); the workload: the    *)
(* procedures, their parameters and how these repeat (Tpcc, Workload).      *)
(* Each abstracts from the state of the others, so a behaviour is that of   *)
(* one of them, the one in focus, with the others at rest.                  *)
(****************************************************************************)
EXTENDS TwoPL, Executor, ClusterSync, Tpcc, Workload

\* Three threads with one or two parameters each.
MCWorker == 0 .. 2
MCJobs == [t \in MCWorker |-> IF t = 0 THEN 2 ELSE 1]

\* The fences and the broadcast of main, in its order.
MCPlan == <<"fence", "broadcast", "fence", "fence", "fence", "fence", "fence">>

\* Terminals can be exchanged like the names of the transactions.
MCNames == Names \cup Permutations(Terminal)

\* The bound on the procedures in a behaviour: one terminal runs two, the other one.
MCProcedures == MapThenSumSet(LAMBDA t : committed[t] + IF tpc[t] = "run" THEN 1 ELSE 0, Terminal) <= 3

VARIABLES
  focus,
  head, node, block, lock, ins, sea, inserted,
  size, layer, slot, seg, ptr,
  rec

\* Two nodes insert keys 1 and 3, which share a bucket, and 2; key 1 gets more
\* records than a block holds.
Index == INSTANCE HashIndex WITH
  Inserter <- {"p1", "p2"}, Searcher <- {"s1"}, Key <- 1 .. 3, Buckets <- 2, Slots <- 2,
  Work <- [p \in {"p1", "p2"} |-> IF p = "p1" THEN <<<<1, "a">>, <<3, "b">>, <<1, "c">>>>
                                               ELSE <<<<1, "d">>, <<2, "e">>, <<3, "f">>>>],
  hist <- inserted

\* Arrays of one, two and three layers.
Array == INSTANCE GAddrArray WITH Fan <- 3, MaxSize <- 27, pos <- slot

\* The smallest and the largest numbers of TPC-C, and the most warehouses that fit.
KeyGen == INSTANCE Keys WITH
  W <- {1, 3, 63}, D <- {1, 10}, O <- {1, 3, 3000}, L <- {1, 15}, I <- {1, 100000}

ASSUME DatabaseAssumption ==
  /\ Index!HashIndexAssumption /\ Array!GAddrArrayAssumption /\ KeyGen!KeysAssumption

indexVars == <<head, node, block, lock, ins, sea, inserted>>
arrayVars == <<size, layer, slot, seg, ptr>>
coreVars == <<vars, execVars, syncVars>>
storageVars == <<indexVars, arrayVars, rec>>
workVars == <<tpccVars, sourceVars, localityVars>>

DatabaseInit ==
  /\ focus \in {"transactions", "threads", "cluster", "index", "array", "keys", "procedures", "source",
                "locality"}
  /\ Init /\ ExecInit /\ SyncInit
  /\ Index!Init /\ Array!Init /\ KeyGen!Init
  /\ TpccInit /\ SourceInit /\ LocalityInit
  /\ focus # "array" => size = 1
  /\ focus # "keys" => rec = CHOOSE r \in KeyGen!Record : TRUE
  /\ focus # "source" => wh = 1 /\ me = 0 /\ cores = 1

CoreNext ==
  /\ \/ focus = "transactions" /\ Next /\ UNCHANGED <<execVars, syncVars>>
     \/ focus = "threads" /\ ExecNext /\ UNCHANGED <<vars, syncVars>>
     \/ focus = "cluster" /\ SyncNext /\ UNCHANGED <<vars, execVars>>
  /\ UNCHANGED <<storageVars, workVars>>

StorageNext ==
  /\ \/ focus = "index" /\ Index!Next /\ UNCHANGED <<arrayVars, rec>>
     \/ focus = "array" /\ Array!Next /\ UNCHANGED <<indexVars, rec>>
     \/ focus = "keys" /\ KeyGen!Next /\ UNCHANGED <<indexVars, arrayVars>>
  /\ UNCHANGED <<coreVars, workVars>>

WorkNext ==
  /\ \/ focus = "procedures" /\ TpccNext /\ UNCHANGED <<sourceVars, localityVars>>
     \/ focus = "source" /\ SourceNext /\ UNCHANGED <<tpccVars, localityVars>>
     \/ focus = "locality" /\ LocalityNext /\ UNCHANGED <<tpccVars, sourceVars>>
  /\ UNCHANGED <<coreVars, storageVars>>

DatabaseNext == (CoreNext \/ StorageNext \/ WorkNext) /\ UNCHANGED focus

DatabaseSpec == DatabaseInit /\ [][DatabaseNext]_<<focus, coreVars, storageVars, workVars>>

------------------------------------------------------------------------------
\* A lookup finds the record it is for.  Insertions into one bucket lose nothing and
\* make one node for a key, a search beside them follows only what is written and
\* finds what was inserted before it, the array of the buckets has a place of its own
\* for each, and no two records have the same key.
IndexSound ==
  /\ focus = "index" => /\ Index!TypeOK /\ Index!NothingLost /\ Index!OneNode /\ Index!NoUnwritten
                        /\ Index!FindsInserted /\ Index!AppendsAtEnd
  /\ focus = "array" => Array!TypeOK /\ Array!WayWritten /\ Array!Separate /\ Array!Tree
  /\ focus = "keys" => KeyGen!KeysApart
==============================================================================
