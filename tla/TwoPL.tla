-------------------------------- MODULE TwoPL ---------------------------------
(****************************************************************************)
(* Transactions on records in global memory (TransactionManager2PL.cpp,     *)
(* TransactionManager.h, TxnAccess.h).  A thread locks a record when it     *)
(* first uses it, works on a copy of its own, and at the end writes the     *)
(* copies back and unlocks, record by record.  A lock is tried once; when   *)
(* it is not free the transaction aborts.                                   *)
(*                                                                          *)
(* A record is reduced to a version: whoever updates a copy of version v    *)
(* writes back v + 1.                                                       *)
(****************************************************************************)
EXTENDS Naturals, Sequences, FiniteSets, TLC

CONSTANTS
  Thread,     \* the threads of all nodes that run transactions
  Rec,        \* addresses of the records that the index knows
  New,        \* addresses that Malloc hands out for new records
  Types,      \* access types that the procedures use in SearchRecord
  Limit,      \* transactions of a thread
  MaxAccess,  \* kMaxAccessLimit
  Locks,      \* TRUE: locks exclude; FALSE: the stubs of DSM.h
  None

ASSUME TwoPLAssumption ==
  /\ Rec \cap New = {} /\ Locks \in BOOLEAN
  /\ Types \subseteq {"READ_ONLY", "READ_WRITE", "DELETE_ONLY"}
  /\ Limit \in Nat /\ MaxAccess \in Nat
  /\ None \notin [type : Types, addr : Rec]

Addr == Rec \cup New

Access == [type : Types \cup {"INSERT_ONLY"}, addr : Addr, copy : Nat]

VARIABLES
  pc,       \* pc[t]: where the transaction of thread t is
  acc,      \* acc[t]: access_list_
  cur,      \* cur[t]: the access whose record is locked and not yet read
  pos,      \* pos[t]: index of the loops over the access list
  mem,      \* mem[a]: version of the record in global memory
  rd, wr,   \* rd[a], wr[a]: threads that hold the lock of a
  heap,     \* heap: the addresses that Malloc has handed out and Free not taken back
  done,     \* done[t]: transactions that thread t has committed
  hist      \* history: last writer and readers since, who must precede whom, and
            \* the new records that a commit has kept

mgrVars == <<pc, acc, cur, pos, done>>
vars == <<mgrVars, mem, rd, wr, heap, hist>>

NoTxn == <<None, 0>>

\* The transaction that thread t works on.
Txn(t) == <<t, done[t]>>

Init ==
  /\ pc = [t \in Thread |-> "idle"]
  /\ acc = [t \in Thread |-> <<>>]
  /\ cur = [t \in Thread |-> None]
  /\ pos = [t \in Thread |-> 0]
  /\ mem = [a \in Addr |-> 0]
  /\ rd = [a \in Addr |-> {}]
  /\ wr = [a \in Addr |-> {}]
  /\ heap = Rec
  /\ done = [t \in Thread |-> 0]
  /\ hist = [writer |-> [a \in Addr |-> NoTxn], readers |-> [a \in Addr |-> {}],
              before |-> {}, kept |-> {}]

------------------------------------------------------------------------------
(* The locks of the DSM *)

Free(a, y) == wr[a] = {} /\ (y # "READ_ONLY" => rd[a] = {})

\* Fault: a reader looks for nothing.
TryLock_fault(a, y) == ~Locks \/ y = "READ_ONLY" \/ Free(a, y)

\* TryRLockRecord and TryWLockRecord, with kTryLockLimit 1.
TryLock(a, y) == ~Locks \/ Free(a, y)

\* Fault: every access is locked for reading.
Lock_fault(t, a, y) ==
  IF Locks THEN rd' = [rd EXCEPT ![a] = @ \cup {t}] /\ UNCHANGED wr ELSE UNCHANGED <<rd, wr>>

Lock(t, a, y) ==
  CASE ~Locks -> UNCHANGED <<rd, wr>>
    [] Locks /\ y = "READ_ONLY" -> rd' = [rd EXCEPT ![a] = @ \cup {t}] /\ UNCHANGED wr
    [] Locks /\ y # "READ_ONLY" -> wr' = [wr EXCEPT ![a] = @ \cup {t}] /\ UNCHANGED rd

UnLock(t, a) ==
  /\ rd' = [rd EXCEPT ![a] = @ \ {t}]
  /\ wr' = [wr EXCEPT ![a] = @ \ {t}]

------------------------------------------------------------------------------
(* What the history keeps of reads and writes of a record *)

AfterRead(t, a) ==
  [hist EXCEPT !.readers[a] = @ \cup {Txn(t)}, !.before = @ \cup {<<hist.writer[a], Txn(t)>>}]

AfterWrite(t, a) ==
  [hist EXCEPT !.writer[a] = Txn(t), !.readers[a] = {},
     !.before = @ \cup {<<x, Txn(t)>> : x \in (hist.readers[a] \cup {hist.writer[a]}) \ {Txn(t)}}]

AfterCommit(t, fresh) == [hist EXCEPT !.kept = @ \cup fresh]

AfterAbort(t) ==
  [hist EXCEPT !.readers = [a \in Addr |-> @[a] \ {Txn(t)}],
               !.before = {e \in @ : Txn(t) \notin {e[1], e[2]}}]

------------------------------------------------------------------------------
Goto(t, l) == pc' = [pc EXCEPT ![t] = l]

\* A procedure begins: the access list is empty.
Begin(t) ==
  /\ pc[t] = "idle" /\ done[t] < Limit
  /\ Goto(t, "run")
  /\ UNCHANGED <<acc, cur, pos, done, mem, rd, wr, heap, hist>>

Uses(t) == {acc[t][i].addr : i \in DOMAIN acc[t]}
Of(t, y) == {acc[t][i].addr : i \in {j \in DOMAIN acc[t] : acc[t][j].type = y}}

\* SelectRecordCC up to the lock.  A procedure uses a record once (the generators
\* of its parameters see to that).
SelectLock(t) ==
  /\ pc[t] = "run" /\ Len(acc[t]) < MaxAccess
  /\ \E a \in Rec \ Uses(t), y \in Types :
       IF TryLock(a, y)
       THEN /\ Lock(t, a, y)
            /\ cur' = [cur EXCEPT ![t] = [type |-> y, addr |-> a]]
            /\ Goto(t, "read")
            /\ UNCHANGED pos
       ELSE /\ Goto(t, "abort")
            /\ pos' = [pos EXCEPT ![t] = 1]
            /\ UNCHANGED <<rd, wr, cur>>
  /\ UNCHANGED <<acc, done, mem, heap, hist>>

\* SelectRecordCC from Deserialize on.
SelectRead(t) ==
  /\ pc[t] = "read"
  /\ acc' = [acc EXCEPT ![t] = Append(@, [type |-> cur[t].type, addr |-> cur[t].addr,
                                          copy |-> mem[cur[t].addr]])]
  /\ hist' = AfterRead(t, cur[t].addr)
  /\ cur' = [cur EXCEPT ![t] = None]
  /\ Goto(t, "run")
  /\ UNCHANGED <<pos, done, mem, rd, wr, heap>>

\* Malloc, Serialize and InsertRecord of a new record.  InsertRecord does not
\* enter it in the index.
InsertRecord(t) ==
  /\ pc[t] = "run" /\ Len(acc[t]) < MaxAccess
  /\ \E a \in Addr \ heap :
       /\ heap' = heap \cup {a}
       /\ mem' = [mem EXCEPT ![a] = 1]
       /\ IF TryLock(a, "INSERT_ONLY")
          THEN /\ Lock(t, a, "INSERT_ONLY")
               /\ acc' = [acc EXCEPT ![t] = Append(@, [type |-> "INSERT_ONLY", addr |-> a, copy |-> 1])]
               /\ UNCHANGED pc
          ELSE Goto(t, "assert") /\ UNCHANGED <<acc, rd, wr>>
  /\ UNCHANGED <<cur, pos, done, hist>>

StartCommit(t) ==
  /\ pc[t] = "run"
  /\ Goto(t, "commit")
  /\ pos' = [pos EXCEPT ![t] = 1]
  /\ UNCHANGED <<acc, cur, done, mem, rd, wr, heap, hist>>

\* CommitTransaction: Serialize of one record.
WriteBack(t) ==
  LET x == acc[t][pos[t]] IN
  /\ pc[t] = "commit" /\ pos[t] <= Len(acc[t])
  /\ IF x.type \in {"READ_WRITE", "DELETE_ONLY"}
     THEN /\ mem' = [mem EXCEPT ![x.addr] = x.copy + 1]
          /\ hist' = AfterWrite(t, x.addr)
     ELSE UNCHANGED <<mem, hist>>
  /\ Goto(t, "unlock")
  /\ UNCHANGED <<acc, cur, pos, done, rd, wr, heap>>

\* UnLockRecord of the same record.
UnLockRecord(t) ==
  /\ pc[t] = "unlock"
  /\ IF pos[t] <= Len(acc[t]) THEN UnLock(t, acc[t][pos[t]].addr) ELSE UNCHANGED <<rd, wr>>
  /\ pos' = [pos EXCEPT ![t] = @ + 1]
  /\ Goto(t, "commit")
  /\ UNCHANGED <<acc, cur, done, mem, heap, hist>>

Drop(t) ==
  /\ acc' = [acc EXCEPT ![t] = <<>>]
  /\ pos' = [pos EXCEPT ![t] = 0]
  /\ Goto(t, "idle")

\* The second loop of CommitTransaction.
EndCommit(t) ==
  /\ pc[t] = "commit" /\ pos[t] > Len(acc[t])
  /\ heap' = heap \ Of(t, "DELETE_ONLY")
  /\ hist' = AfterCommit(t, Of(t, "INSERT_ONLY"))
  /\ done' = [done EXCEPT ![t] = @ + 1]
  /\ Drop(t)
  /\ UNCHANGED <<cur, mem, rd, wr>>

Abandoned(x) == x.type = "INSERT_ONLY"

\* Fault: only the insertions are unlocked.
AbortStep_fault(t) ==
  LET x == acc[t][pos[t]] IN
  /\ pc[t] = "abort" /\ pos[t] <= Len(acc[t])
  /\ IF Abandoned(x) THEN UnLock(t, x.addr) /\ heap' = heap \ {x.addr} ELSE UNCHANGED <<rd, wr, heap>>
  /\ pos' = [pos EXCEPT ![t] = @ + 1]
  /\ UNCHANGED <<pc, acc, cur, done, mem, hist>>

\* AbortTransaction, one record.
AbortStep(t) ==
  LET x == acc[t][pos[t]] IN
  /\ pc[t] = "abort" /\ pos[t] <= Len(acc[t])
  /\ UnLock(t, x.addr)
  /\ heap' = IF Abandoned(x) THEN heap \ {x.addr} ELSE heap
  /\ pos' = [pos EXCEPT ![t] = @ + 1]
  /\ UNCHANGED <<pc, acc, cur, done, mem, hist>>

EndAbort(t) ==
  /\ pc[t] = "abort" /\ pos[t] > Len(acc[t])
  /\ hist' = AfterAbort(t)
  /\ Drop(t)
  /\ UNCHANGED <<cur, done, mem, rd, wr, heap>>

Next == \E t \in Thread :
  \/ Begin(t) \/ SelectLock(t) \/ SelectRead(t) \/ InsertRecord(t)
  \/ StartCommit(t) \/ WriteBack(t) \/ UnLockRecord(t) \/ EndCommit(t)
  \/ AbortStep(t) \/ EndAbort(t)

Spec == Init /\ [][Next]_vars

\* Threads, records and new addresses differ only in name.
Names == Permutations(Thread) \cup Permutations(Rec) \cup Permutations(New)

------------------------------------------------------------------------------
TypeOK ==
  /\ pc \in [Thread -> {"idle", "run", "read", "commit", "unlock", "abort", "assert"}]
  /\ acc \in [Thread -> Seq(Access)]
  /\ cur \in [Thread -> [type : Types, addr : Rec] \cup {None}]
  /\ pos \in [Thread -> Nat]
  /\ mem \in [Addr -> Nat]
  /\ rd \in [Addr -> SUBSET Thread] /\ wr \in [Addr -> SUBSET Thread]
  /\ heap \subseteq Addr
  /\ done \in [Thread -> Nat]

\* The accesses of t whose record is still locked for it and unchanged by it.
Open(t) == {i \in DOMAIN acc[t] : pc[t] \in {"unlock", "commit", "abort"} =>
                                     i > pos[t] \/ (i = pos[t] /\ pc[t] # "unlock")}

\* Until a transaction writes a record back, or gives it up, its copy is what the
\* memory holds: no update is lost and no read is repeated differently.
CopyCurrent == \A t \in Thread : \A i \in Open(t) : mem[acc[t][i].addr] = acc[t][i].copy

\* The transactions are serialisable: no two or more precede each other in a
\* circle, where a transaction precedes another if its read or write of a record
\* comes before a conflicting one of the other.
Serializable ==
  LET E == {e \in hist.before : e[1] # NoTxn} IN
  \A S \in SUBSET {e[1] : e \in E} : S # {} => \E x \in S : \A y \in S : <<x, y>> \notin E

\* The addresses whose lock the transaction of t has still to give back.
Holding(t) ==
  {acc[t][i].addr : i \in {j \in DOMAIN acc[t] : pc[t] \in {"commit", "unlock", "abort"} => j >= pos[t]}}
  \cup IF cur[t] = None THEN {} ELSE {cur[t].addr}

\* A lock is held by a transaction that will give it back: neither a commit nor an
\* abort leaves a record locked for the transactions to come.
NoLockLeft == \A a \in Addr : \A t \in rd[a] \cup wr[a] : a \in Holding(t)

\* An address that is handed out for a new record is in the hands of a transaction
\* or kept by one that committed: an aborted insertion gives its memory back.
NoLeak == \A a \in heap \cap New : a \in hist.kept \/ \E t \in Thread : a \in Uses(t)

\* Neither a commit nor an abort leaves anything behind: no lock and no memory of a
\* record that was not inserted in the end.
NothingLeft == NoLockLeft /\ NoLeak

\* assert(lock_success == true) in InsertRecord: nobody holds the lock of a record
\* that was just allocated.
InsertLocks == \A t \in Thread : pc[t] # "assert"
==============================================================================
