-------------------------------- MODULE Alloc ---------------------------------
(****************************************************************************)
(* Allocation of global memory.  The memory of a node is divided among its  *)
(* system threads, each with a GlobalAllocator that hands out chunks on     *)
(* request (PRIMITIVE_ALLOC, handled by the cache agent); an application    *)
(* thread cuts its chunk into pieces (LocalAllocator, Cache::malloc) and    *)
(* asks the nodes in turn for the next one.  Nothing is ever given back:    *)
(* no call of free_chunk exists, and LocalAllocator::free is empty.         *)
(****************************************************************************)
EXTENDS Integers, Bags

CONSTANTS
  N,         \* node_num
  AppThread, \* the application threads of all nodes
  S,         \* syst_num_per_node
  UserMem,   \* u_gmem_size_per_node, the memory asked for per node
  MinMem,    \* 200 MB
  Unit,      \* 1 MB
  Chunk,     \* kChunkSize, 32 MB
  Line,      \* DSM_CACHE_LINE_SIZE
  Sizes      \* sizes that threads ask for

ASSUME AllocAssumption ==
  /\ N \in Nat \ {0} /\ S \in Nat \ {0}
  /\ UserMem \in Nat /\ MinMem \in Nat /\ Unit \in Nat \ {0}
  /\ Chunk \in Nat \ {0} /\ Line \in Nat \ {0} /\ Chunk % Line = 0   \* 2^25 and 2^12 bytes
  /\ Sizes \subseteq 1 .. Chunk        \* assert(size <= define::kChunkSize)

Node == 0 .. N - 1
Syst == 0 .. S - 1

\* gmem_size_per_node: at least MinMem, and rounded up past the next Unit.
GmemSize ==
  LET size == IF UserMem > MinMem THEN UserMem ELSE MinMem
  IN (size \div Unit + 1) * Unit

\* gmem_size_per_syst
PerSyst == GmemSize \div S

\* bitmap_len
Chunks == PerSyst \div Chunk

\* The chunk with number k of system thread s.
Base(s, k) == PerSyst * s + Chunk * k

VARIABLES
  tail,     \* tail[n][s]: bitmap_tail of the allocator of system thread s
  call,     \* call[t]: where the thread is in Cache::malloc
  want,     \* want[t]: size and alignment of the call
  local,    \* local[t]: log_heads, head and cur of its LocalAllocator
  next,     \* next[t]: next_allocator_node
  grant,    \* grant[t]: address in the reply to PRIMITIVE_ALLOC
  regions   \* what malloc has returned, as a bag: node, first address, size

allocVars == <<tail, call, want, local, next, grant, regions>>

NoCall == [size |-> 0, align |-> FALSE]

AllocInit ==
  /\ tail = [n \in Node |-> [s \in Syst |-> 0]]
  /\ call = [t \in AppThread |-> "idle"]
  /\ want = [t \in AppThread |-> NoCall]
  /\ local = [t \in AppThread |-> [has |-> FALSE, node |-> 0, head |-> 0, cur |-> 0]]
  /\ next \in [AppThread -> Node]                   \* rand_r
  /\ grant = [t \in AppThread |-> 0]
  /\ regions = EmptyBag

------------------------------------------------------------------------------
(* LocalAllocator::malloc *)

Aligned(a) == IF a % Line # 0 THEN (a \div Line + 1) * Line ELSE a

Start(l, w) == IF w.align THEN Aligned(l.cur) ELSE l.cur

NeedChunk(l, w) == ~l.has \/ Start(l, w) + w.size > l.head + Chunk

After(l, w) == [l EXCEPT !.cur = IF NeedChunk(l, w) THEN Start(l, w) ELSE Start(l, w) + w.size]

Region(l, w) == [node |-> l.node, lo |-> Start(l, w), size |-> w.size]

------------------------------------------------------------------------------
\* Cache::malloc, up to the request for a chunk if it needs one.
Malloc(t) ==
  /\ call[t] = "idle"
  /\ \E size \in Sizes, align \in BOOLEAN :
       LET w == [size |-> size, align |-> align] IN
       /\ local' = [local EXCEPT ![t] = After(local[t], w)]
       /\ IF NeedChunk(local[t], w)
          THEN /\ call' = [call EXCEPT ![t] = "asks"]
               /\ want' = [want EXCEPT ![t] = w]
               /\ UNCHANGED regions
          ELSE /\ regions' = regions (+) SetToBag({Region(local[t], w)})
               /\ UNCHANGED <<call, want>>
  /\ UNCHANGED <<tail, next, grant>>

\* Fault: the tail stays.
Advance_fault(n, s) == tail

Advance(n, s) == [tail EXCEPT ![n][s] = @ + 1]

Full(n, s) == tail[n][s] >= Chunks

\* PRIMITIVE_ALLOC at a system thread of the node, whichever it is dealt to, and
\* alloc_chunck.
AgentAlloc(t, s) ==
  LET n == next[t] IN
  /\ call[t] = "asks"
  /\ IF Full(n, s)
     THEN call' = [call EXCEPT ![t] = "fail"] /\ UNCHANGED <<tail, grant>>
     ELSE /\ call' = [call EXCEPT ![t] = "ack"]
          /\ grant' = [grant EXCEPT ![t] = Base(s, tail[n][s])]
          /\ tail' = Advance(n, s)
  /\ UNCHANGED <<want, local, next, regions>>

\* PRIMITIVE_ALLOC_ACK: set_chunck, and malloc again.  After PRIMITIVE_ALLOC_FAIL
\* the thread loops for ever.
Finish(t) ==
  LET l == [has |-> TRUE, node |-> next[t], head |-> grant[t], cur |-> grant[t]]
      w == want[t]
  IN /\ call[t] = "ack"
     /\ local' = [local EXCEPT ![t] = After(l, w)]
     /\ IF NeedChunk(l, w)
        THEN call' = [call EXCEPT ![t] = "assert"] /\ UNCHANGED <<regions, next>>
        ELSE /\ call' = [call EXCEPT ![t] = "idle"]
             /\ regions' = regions (+) SetToBag({Region(l, w)})
             /\ next' = [next EXCEPT ![t] = (@ + 1) % N]
     /\ want' = [want EXCEPT ![t] = NoCall]
     /\ grant' = [grant EXCEPT ![t] = 0]
     /\ UNCHANGED tail

AllocNext == \E t \in AppThread : Malloc(t) \/ Finish(t) \/ \E s \in Syst : AgentAlloc(t, s)

AllocSpec == AllocInit /\ [][AllocNext]_allocVars

------------------------------------------------------------------------------
AllocTypeOK ==
  /\ tail \in [Node -> [Syst -> 0 .. Chunks]]
  /\ call \in [AppThread -> {"idle", "asks", "ack", "fail", "assert"}]
  /\ want \in [AppThread -> [size : Sizes \cup {0}, align : BOOLEAN]]
  /\ local \in [AppThread -> [has : BOOLEAN, node : Node, head : Nat, cur : Nat]]
  /\ next \in [AppThread -> Node]
  /\ grant \in [AppThread -> Nat]
  /\ IsABag(regions) /\ BagToSet(regions) \subseteq [node : Node, lo : Nat, size : Sizes]

Apart(x, y) == x.node # y.node \/ x.lo + x.size <= y.lo \/ y.lo + y.size <= x.lo

\* What malloc returns never overlaps, whichever threads and nodes it was asked
\* of and returned by.
Disjoint ==
  \A x \in BagToSet(regions) :
    regions[x] = 1 /\ \A y \in BagToSet(regions) \ {x} : Apart(x, y)

\* Everything malloc returns lies in the memory of its node.
InMemory == \A x \in BagToSet(regions) : x.lo + x.size <= GmemSize

\* assert(need_new_chunck == false): a fresh chunk is enough for the call it was
\* asked for, if every system thread's share begins at a line.
FreshChunkFits == PerSyst % Line = 0 => \A t \in AppThread : call[t] # "assert"
==============================================================================
