-------------------------------- MODULE TxnSource -----------------------------
(****************************************************************************)
(* How the transactions of a run are made and dealt out: the warehouses of  *)
(* a node (FillScaleParams), the partitioned source that makes batches for  *)
(* one thread after the other (TpccSource::StartGeneration), and the        *)
(* redirector that hands a batch to a thread (IORedirector.h).  Source and  *)
(* redirector count the threads separately.  A transaction is its home      *)
(* warehouse.                                                               *)
(****************************************************************************)
EXTENDS Naturals, Sequences, SequencesExt, FiniteSetsExt

CONSTANTS
  Warehouses,  \* numbers of warehouses that are tried
  Partitions,  \* nodes
  Threads,     \* numbers of threads of a node that are tried
  Batch,       \* gParamBatchSize
  NumTxn       \* num_txn

ASSUME TxnSourceAssumption ==
  /\ Warehouses \subseteq Nat \ {0} /\ Threads \subseteq Nat \ {0}
  /\ Partitions \in Nat \ {0} /\ Batch \in Nat \ {0} /\ NumTxn \in Nat

VARIABLES
  wh, me, cores, \* number of warehouses, this node, threads
  turn,          \* loop variable
  tid,           \* thread_id of the source
  curr,          \* curr_thread_id_ of the redirector
  tuples,        \* the batch that is being filled
  input,         \* input_batches_
  spc            \* where StartGeneration is

sourceVars == <<wh, me, cores, turn, tid, curr, tuples, input, spc>>

------------------------------------------------------------------------------
(* FillScaleParams *)

\* num_wh_per_par
PerPartition(n) == (n + Partitions - 1) \div Partitions

StartingWarehouse(n, p) == 1 + PerPartition(n) * p

EndingWarehouse(n, p) ==
  LET e == StartingWarehouse(n, p) + PerPartition(n) - 1 IN IF e > n THEN n ELSE e

Mine == StartingWarehouse(wh, me) .. EndingWarehouse(wh, me)

\* The assertion of FillScaleParams lets a node go on.
Admitted == StartingWarehouse(wh, me) <= EndingWarehouse(wh, me)

SourceInit ==
  /\ wh \in Warehouses /\ me \in 0 .. Partitions - 1 /\ cores \in Threads
  /\ turn = 0 /\ tid = 0 /\ curr = 0
  /\ tuples = <<>>
  /\ input = [t \in 0 .. cores - 1 |-> <<>>]
  /\ spc = "fill"

Fill ==
  /\ spc = "fill"
  /\ spc' = IF Admitted THEN "generate" ELSE "assert"
  /\ UNCHANGED <<wh, me, cores, turn, tid, curr, tuples, input>>

------------------------------------------------------------------------------
(* StartGeneration *)

\* Home warehouses of the transactions of thread t.
Homes(t) ==
  IF Cardinality(Mine) >= cores
  THEN {w \in Mine : (w - 1) % cores = t}
  ELSE {StartingWarehouse(wh, me) + (t % Cardinality(Mine))}

\* Fault: the thread changes with every transaction.
NextThread_fault(full) == tid' = (tid + 1) % cores

NextThread(full) == tid' = IF full THEN (tid + 1) % cores ELSE tid

\* A full batch is pushed (PushParameterBatch) and a new one begun.
PushBatch(b, full) ==
  /\ input' = IF full THEN [input EXCEPT ![curr] = Append(@, b)] ELSE input
  /\ curr' = IF full THEN (curr + 1) % cores ELSE curr
  /\ tuples' = IF full THEN <<>> ELSE b

Generate ==
  /\ spc = "generate" /\ turn < NumTxn
  /\ \E w \in Homes(tid) : PushBatch(Append(tuples, w), (turn + 1) % Batch = 0)
  /\ NextThread((turn + 1) % Batch = 0)
  /\ turn' = turn + 1
  /\ UNCHANGED <<wh, me, cores, spc>>

\* The last batch, if there is something in it.
PushLast ==
  /\ spc = "generate" /\ turn = NumTxn
  /\ PushBatch(tuples, tuples # <<>>)
  /\ spc' = "done"
  /\ UNCHANGED <<wh, me, cores, turn, tid>>

SourceNext == Fill \/ Generate \/ PushLast

SourceSpec == SourceInit /\ [][SourceNext]_sourceVars

------------------------------------------------------------------------------
SourceTypeOK ==
  /\ wh \in Warehouses /\ me \in 0 .. Partitions - 1 /\ cores \in Threads
  /\ turn \in 0 .. NumTxn /\ tid \in 0 .. cores - 1 /\ curr \in 0 .. cores - 1
  /\ Len(tuples) <= Batch
  /\ DOMAIN input = 0 .. cores - 1
  /\ spc \in {"fill", "generate", "done", "assert"}

Given(t) == FlattenSeq(input[t])

\* Every warehouse belongs to one node.
Partitioned ==
  \A w \in 1 .. wh : \E p \in 0 .. Partitions - 1 :
    {q \in 0 .. Partitions - 1 : w \in StartingWarehouse(wh, q) .. EndingWarehouse(wh, q)} = {p}

\* A thread gets the transactions that were made for it: the two counters agree, also
\* for the last batch; and no two threads of a node share a warehouse if there is one
\* for each.
OwnHomes ==
  /\ \A t \in DOMAIN input : \A k \in DOMAIN Given(t) : Given(t)[k] \in Homes(t)
  /\ Cardinality(Mine) >= cores =>
       \A s, t \in DOMAIN input : s # t => ToSet(Given(s)) \cap ToSet(Given(t)) = {}

Total == MapThenSumSet(LAMBDA t : Len(Given(t)), DOMAIN input)

\* No transaction is lost or dealt out twice, and no thread gets more than a batch more
\* than another.
Dealt ==
  /\ Total + Len(tuples) = turn
  /\ spc = "done" => Total = NumTxn
  /\ \A s, t \in DOMAIN input : Len(Given(s)) <= Len(Given(t)) + Batch
==============================================================================
