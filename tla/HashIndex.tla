------------------------------- MODULE HashIndex ------------------------------
(****************************************************************************)
(* The index of a table in global memory (HashIndex.h, HashIndexHelper.h):  *)
(* an array of buckets, each a list of nodes, one per key, whose records    *)
(* stand in a list of blocks with Slots places.  Nodes of the cluster       *)
(* insert under the write lock of the bucket; a search takes no lock.       *)
(*                                                                          *)
(* A step is one access to global memory.  The walk of an insertion to its  *)
(* node is one step: the lock keeps everybody else from changing the list.  *)
(****************************************************************************)
EXTENDS Naturals, Sequences, FiniteSets, SequencesExt

CONSTANTS
  Inserter, Searcher,  \* threads
  Work,                \* Work[p]: the <<key, record>> pairs that p inserts, in order
  Key,                 \* keys that are searched
  Buckets,             \* buckets_count_
  Slots,               \* SLOT_NUM
  None

HashIndexAssumption ==
  /\ Key \subseteq Nat /\ Buckets \in Nat \ {0} /\ Slots \in Nat \ {0}
  /\ \A p \in Inserter : \A i \in DOMAIN Work[p] : Work[p][i][1] \in Key

VARIABLES
  head,    \* head[b]: the header of bucket b in global memory
  node,    \* node[a]: [key, next, items] once written
  block,   \* block[a]: [ptrs, next] once written
  lock,    \* lock[b]: holder of the bucket's lock
  ins,     \* ins[p]: state of an insertion
  sea,     \* sea[s]: state of a search
  hist     \* history: pairs that are inserted, in order of completion

vars == <<head, node, block, lock, ins, sea, hist>>

Hash(k) == k % Buckets

\* An address is named by who allocates it and for which of its pairs.
Addr == UNION {{<<p, i>> : i \in DOMAIN Work[p]} : p \in Inserter}

Idle == [pc |-> "idle", n |-> 0, prev |-> None, cur |-> None, head |-> None]

Init ==
  /\ head = [b \in 0 .. Buckets - 1 |-> None]
  /\ node = [a \in {} |-> 0]
  /\ block = [a \in {} |-> 0]
  /\ lock = [b \in 0 .. Buckets - 1 |-> None]
  /\ ins = [p \in Inserter |-> Idle]
  /\ sea = [s \in Searcher |-> [pc |-> "idle", key |-> 0, cur |-> None, must |-> FALSE]]
  /\ hist = {}

Put(f, a, v) == [x \in DOMAIN f \cup {a} |-> IF x = a THEN v ELSE f[x]]

K(p) == Work[p][ins[p].n][1]
R(p) == Work[p][ins[p].n][2]
B(p) == Hash(K(p))
Fresh(p) == <<p, ins[p].n>>

------------------------------------------------------------------------------
(* InsertRecord *)

\* Fault: TryWLockBucketHeader returns without the lock.
Lock_fault(p, b) == lock' = [lock EXCEPT ![b] = p]

Lock(p, b) == lock[b] = None /\ lock' = [lock EXCEPT ![b] = p]

WLock(p) ==
  /\ ins[p].pc = "idle" /\ ins[p].n < Len(Work[p])
  /\ Lock(p, Hash(Work[p][ins[p].n + 1][1]))
  /\ ins' = [ins EXCEPT ![p] = [Idle EXCEPT !.pc = "walk", !.n = ins[p].n + 1]]
  /\ UNCHANGED <<head, node, block, sea, hist>>

\* The nodes of the list that begins at a.
List[n \in Nat, a \in Addr \cup {None}] ==
  IF n = 0 \/ a = None \/ a \notin DOMAIN node THEN <<>> ELSE <<a>> \o List[n - 1, node[a].next]

Chain(b) == List[Cardinality(Addr), head[b]]

\* The header is read and the list walked to the key or to the end.
Walk(p) ==
  LET c == Chain(B(p))
      hit == {i \in DOMAIN c : node[c[i]].key = K(p)} IN
  /\ ins[p].pc = "walk"
  /\ IF hit # {}
     THEN \E i \in hit : ins' = [ins EXCEPT ![p] = [@ EXCEPT !.pc = "add", !.cur = c[i], !.head = head[B(p)]]]
     ELSE ins' = [ins EXCEPT ![p] = [@ EXCEPT !.pc = "block", !.head = head[B(p)],
                                               !.prev = IF c = <<>> THEN None ELSE Last(c)]]
  /\ UNCHANGED <<head, node, block, lock, sea, hist>>

\* AddRecordPtr
Room(x) == Len(x.ptrs) < Slots

\* The key is there: its newest block takes the record, or a new one is written.
Add(p) ==
  LET n == node[ins[p].cur]
      x == block[n.items] IN
  /\ ins[p].pc = "add"
  /\ IF Room(x)
     THEN /\ block' = [block EXCEPT ![n.items].ptrs = Append(@, R(p))]
          /\ ins' = [ins EXCEPT ![p].pc = "header"]
     ELSE /\ block' = Put(block, Fresh(p), [ptrs |-> <<R(p)>>, next |-> n.items])
          /\ ins' = [ins EXCEPT ![p].pc = "renew"]
  /\ UNCHANGED <<head, node, lock, sea, hist>>

\* The node is written with its new block.
Renew(p) ==
  /\ ins[p].pc = "renew"
  /\ node' = [node EXCEPT ![ins[p].cur].items = Fresh(p)]
  /\ ins' = [ins EXCEPT ![p].pc = "header"]
  /\ UNCHANGED <<head, block, lock, sea, hist>>

\* The key is new: a block is written.
WriteBlock(p) ==
  /\ ins[p].pc = "block"
  /\ block' = Put(block, Fresh(p), [ptrs |-> <<R(p)>>, next |-> None])
  /\ ins' = [ins EXCEPT ![p].pc = "node"]
  /\ UNCHANGED <<head, node, lock, sea, hist>>

\* Then a node.
WriteNode(p) ==
  /\ ins[p].pc = "node"
  /\ node' = Put(node, Fresh(p), [key |-> K(p), next |-> None, items |-> Fresh(p)])
  /\ ins' = [ins EXCEPT ![p].pc = "link"]
  /\ UNCHANGED <<head, block, lock, sea, hist>>

\* The last node, or the header that InsertRecord has read, leads to the new one.
Link(p) ==
  /\ ins[p].pc = "link"
  /\ IF ins[p].prev # None
     THEN /\ node' = [node EXCEPT ![ins[p].prev].next = Fresh(p)]
          /\ ins' = [ins EXCEPT ![p].pc = "header"]
     ELSE /\ ins' = [ins EXCEPT ![p] = [@ EXCEPT !.pc = "header", !.head = Fresh(p)]]
          /\ UNCHANGED node
  /\ UNCHANGED <<head, block, lock, sea, hist>>

\* Serialize of the header.
Header(p) ==
  /\ ins[p].pc = "header"
  /\ head' = [head EXCEPT ![B(p)] = ins[p].head]
  /\ ins' = [ins EXCEPT ![p].pc = "unlock"]
  /\ UNCHANGED <<node, block, lock, sea, hist>>

UnLock(p) ==
  /\ ins[p].pc = "unlock"
  /\ lock' = [lock EXCEPT ![B(p)] = None]
  /\ hist' = hist \cup {<<K(p), R(p)>>}
  /\ ins' = [ins EXCEPT ![p].pc = "idle"]
  /\ UNCHANGED <<head, node, block, sea>>

------------------------------------------------------------------------------
(* SearchRecord *)

Inserted(k) == {x[2] : x \in {y \in hist : y[1] = k}}

SearchHead(s) ==
  /\ sea[s].pc = "idle"
  /\ \E k \in Key :
       sea' = [sea EXCEPT ![s] = [pc |-> "walk", key |-> k, cur |-> head[Hash(k)], must |-> Inserted(k) # {}]]
  /\ UNCHANGED <<head, node, block, lock, ins, hist>>

\* SearchNode reads the next node.
SearchNode(s) ==
  LET n == node[sea[s].cur] IN
  /\ sea[s].pc = "walk" /\ sea[s].cur \in DOMAIN node
  /\ sea' = [sea EXCEPT ![s] = IF n.key = @.key THEN [@ EXCEPT !.pc = "items", !.cur = n.items]
                                                ELSE [@ EXCEPT !.cur = n.next]]
  /\ UNCHANGED <<head, node, block, lock, ins, hist>>

\* record_ptrs_[0] of the block, or DB_Gnullptr.
Result(s) ==
  IF sea[s].pc = "items" THEN block[sea[s].cur].ptrs[1] ELSE None

SearchEnd(s) ==
  /\ \/ sea[s].pc = "items" /\ sea[s].cur \in DOMAIN block
     \/ sea[s].pc = "walk" /\ sea[s].cur = None
  /\ sea' = [sea EXCEPT ![s] = [pc |-> "idle", key |-> 0, cur |-> None, must |-> FALSE]]
  /\ UNCHANGED <<head, node, block, lock, ins, hist>>

Insert(p) ==
  \/ WLock(p) \/ Walk(p) \/ Add(p) \/ Renew(p) \/ WriteBlock(p)
  \/ WriteNode(p) \/ Link(p) \/ Header(p) \/ UnLock(p)

Next ==
  \/ \E p \in Inserter : Insert(p)
  \/ \E s \in Searcher : SearchHead(s) \/ SearchNode(s) \/ SearchEnd(s)

Spec == Init /\ [][Next]_vars

------------------------------------------------------------------------------
InsertPC == {"idle", "walk", "add", "renew", "block", "node", "link", "header", "unlock"}

TypeOK ==
  /\ \A b \in DOMAIN head : head[b] \in Addr \cup {None} /\ lock[b] \in Inserter \cup {None}
  /\ \A a \in DOMAIN node : a \in Addr /\ node[a].next \in Addr \cup {None} /\ node[a].items \in Addr
  /\ \A a \in DOMAIN block : a \in Addr /\ Len(block[a].ptrs) \in 1 .. Slots
  /\ \A p \in Inserter : ins[p].pc \in InsertPC /\ ins[p].n \in 0 .. Len(Work[p])
  /\ \A s \in Searcher : sea[s].pc \in {"idle", "walk", "items"}

\* The records that the list of blocks beginning at a leads to.
Blocks[n \in Nat, a \in Addr \cup {None}] ==
  IF n = 0 \/ a \notin DOMAIN block THEN {}
  ELSE {block[a].ptrs[i] : i \in DOMAIN block[a].ptrs} \cup Blocks[n - 1, block[a].next]

Records(k) ==
  UNION {Blocks[Cardinality(Addr), node[a].items] : a \in {x \in ToSet(Chain(Hash(k))) : node[x].key = k}}

\* Nothing that was inserted is lost, whoever inserts into the same bucket.
NothingLost == \A x \in hist : x[2] \in Records(x[1])

\* A key has one node, in its own bucket.
OneNode ==
  \A b \in 0 .. Buckets - 1 : LET c == Chain(b) IN
    /\ \A i, j \in DOMAIN c : node[c[i]].key = node[c[j]].key => i = j
    /\ \A i \in DOMAIN c : Hash(node[c[i]].key) = b

\* A search that runs beside insertions follows only addresses that were written.
NoUnwritten ==
  \A s \in Searcher :
    /\ sea[s].pc = "walk" => sea[s].cur \in DOMAIN node \cup {None}
    /\ sea[s].pc = "items" => sea[s].cur \in DOMAIN block

\* A search finds a record of its key if an insertion of the key was over before it
\* began, and never the record of another key.
FindsInserted ==
  \A s \in Searcher :
    /\ sea[s].pc = "walk" /\ sea[s].cur = None => ~sea[s].must
    /\ sea[s].pc = "items" /\ sea[s].cur \in DOMAIN block =>
         \E p \in Inserter : \E i \in DOMAIN Work[p] : Work[p][i] = <<sea[s].key, Result(s)>>

\* assert(prev_node.next_ == DB_Gnullptr) and assert(head_ == DB_Gnullptr) in
\* InsertNode: whoever appends a node appends it at the end.
AppendsAtEnd ==
  \A p \in Inserter : ins[p].pc \in {"block", "node", "link"} =>
    IF ins[p].prev # None THEN node[ins[p].prev].next = None ELSE head[B(p)] = None
==============================================================================
