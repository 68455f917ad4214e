---------------------------------- MODULE Slabs -------------------------------
(****************************************************************************)
(* The slab allocators (slabs.cpp) and the memory pool that three of them   *)
(* divide: "ring" for the receive rings of the channels, "gblock" for the   *)
(* blocks of the node's part of global memory, "cline" for cache lines.     *)
(* The regions overlap: an allocator may use half as much again as the      *)
(* distance to the next one (DSM.cpp, DSM::DSM).                            *)
(*                                                                          *)
(* Every operation holds the allocator's lock from beginning to end and is  *)
(* one step.  Addresses count from the start of the pool.  sb_realloc is    *)
(* part of the allocator, though nothing calls it.                          *)
(****************************************************************************)
EXTENDS Naturals, Sequences, SequencesExt, FiniteSetsExt, Functions

CONSTANTS
  Line,         \* item_size_max, DSM_CACHE_LINE_SIZE
  Chunk,        \* chunk_size
  Align,        \* CHUNK_ALIGN_BYTES
  PowerLargest, \* POWER_LARGEST
  Num, Den,     \* factor, as a fraction
  Gb, Mb, MinMem, \* 1 GB, 1 MB, 200 MB
  UserMem,      \* sizes that a user may configure
  Sizes,        \* sizes that are asked of the ring allocator
  Pieces        \* most pieces of the ring allocator at a time

SlabsAssumption ==
  /\ Line \in Nat \ {0} /\ Chunk \in 1 .. Line /\ Align \in 1 .. Line /\ Line % Align = 0
  /\ Num \in Nat \ {0} /\ Den \in Nat \ {0} /\ Num >= Den /\ PowerLargest \in Nat \ {0, 1}
  /\ Mb % Line = 0 /\ Gb % Line = 0 /\ UserMem \subseteq Nat /\ Sizes \subseteq 1 .. Line

VARIABLES
  user,   \* user[a]: configured sizes of global memory and of the cache
  sl,     \* sl[a]: state of an allocator
  alive   \* FALSE after a failed assertion

vars == <<user, sl, alive>>

Allocators == {"ring", "gblock", "cline"}

------------------------------------------------------------------------------
(* DSMConfig, DSM::DSM *)

Larger(x, y) == IF x > y THEN x ELSE y

\* gmem_size_per_node, cache_size_per_node
SizeOf(u) == (Larger(u, MinMem) \div Mb + 1) * Mb

\* gblock_num_per_node, cline_num_per_node
Lines(a) == user[a] \div Line

\* mem_limit
Limit(a) == IF a = "ring" THEN Gb ELSE (SizeOf(user[a]) * 3) \div 2

Base(a) ==
  CASE a = "ring" -> 0
    [] a = "gblock" -> Gb
    [] a = "cline" -> Gb + SizeOf(user["gblock"])

PoolSize == 2 * Gb + SizeOf(user["gblock"]) + SizeOf(user["cline"])

------------------------------------------------------------------------------
(* slabs_init *)

RoundUp(s) == ((s + Align - 1) \div Align) * Align

\* The loop over the classes, at class i with size s.
Classes[i \in 1 .. PowerLargest, s \in 0 .. 2 * Line] ==
  IF i < PowerLargest /\ s * Num <= Line * Den
  THEN <<RoundUp(s)>> \o Classes[i + 1, (RoundUp(s) * Num) \div Den]
  ELSE <<Line>>

ClassSize == Classes[1, Chunk]
Largest == Len(ClassSize)
Ids == 1 .. Largest

\* slabs_clsid: the first class that is large enough, 0 if there is none.
ClsId(size) ==
  LET fit == {i \in Ids : size <= ClassSize[i]} IN
  IF size = 0 \/ fit = {} THEN 0 ELSE CHOOSE i \in fit : \A j \in fit : i <= j

PerSlab(id) == Line \div ClassSize[id]

\* do_slabs_free for a piece that is not in use.
Push(s, id, p) ==
  [s EXCEPT !.free[id] = <<p>> \o @,
            !.item = [x \in DOMAIN @ \cup {p} |-> IF x = p THEN [size |-> 0, cls |-> 0] ELSE @[x]]]

Split(s, id, page) ==
  LET Put[k \in 0 .. PerSlab(id)] ==
        IF k = 0 THEN s ELSE Push(Put[k - 1], id, page + (k - 1) * ClassSize[id])
  IN Put[PerSlab(id)]

\* do_slabs_newslab is refused; lim is mem_limit.
NoSlab(s, id, lim) == (s.malloced + Line > lim /\ s.slabs[id] > 0) \/ Line > s.avail

\* do_slabs_newslab, with memory_allocate.
NewSlab(s, id) ==
  [Split(s, id, s.current) EXCEPT !.slabs[id] = @ + 1, !.current = @ + Line, !.avail = @ - Line,
                                  !.malloced = @ + Line]

Empty(base, lim) ==
  [free |-> [id \in Ids |-> <<>>], slabs |-> [id \in Ids |-> 0], requested |-> [id \in Ids |-> 0],
   item |-> [p \in {} |-> 0], current |-> base, avail |-> lim, malloced |-> 0, memfree |-> lim]

\* Fault: the large class gets its page first.
Preallocated_fault(base, lim) ==
  LET Pre[k \in 0 .. Largest] ==
        IF k = 0 THEN Empty(base, lim) ELSE NewSlab(Pre[k - 1], Largest + 1 - k)
  IN Pre[Largest]

\* slabs_init, with a page for every class (slabs_preallocate).
Preallocated(base, lim) ==
  LET Pre[k \in 0 .. Largest] == IF k = 0 THEN Empty(base, lim) ELSE NewSlab(Pre[k - 1], k)
  IN Pre[Largest]

Init ==
  /\ user \in [{"gblock", "cline"} -> UserMem]
  /\ sl = [a \in Allocators |-> Preallocated(Base(a), Limit(a))]
  /\ alive = TRUE

------------------------------------------------------------------------------
(* The operations *)

Taken(a) == {p \in DOMAIN sl[a].item : sl[a].item[p].cls # 0}

\* do_slabs_alloc finds no piece.
Exhausted(s, id, lim) == id = 0 \/ (s.free[id] = <<>> /\ NoSlab(s, id, lim))

\* do_slabs_alloc takes the first piece of the list.
Pop(s, size, id) ==
  [s EXCEPT !.free[id] = Tail(@), !.item[s.free[id][1]] = [size |-> size, cls |-> id],
            !.requested[id] = @ + size, !.memfree = @ - ClassSize[id]]

\* do_slabs_alloc
Taking(s, size) ==
  LET id == ClsId(size) IN Pop(IF s.free[id] = <<>> THEN NewSlab(s, id) ELSE s, size, id)

\* sb_free, slabs_free, do_slabs_free
Freeing(s, p) ==
  LET i == s.item[p] IN
  [Push(s, i.cls, p) EXCEPT !.requested[i.cls] = @ - i.size, !.memfree = @ + ClassSize[i.cls]]

\* sb_malloc and sb_aligned_malloc with their assert(ret).
Malloc(a, size) ==
  /\ alive
  /\ IF Exhausted(sl[a], ClsId(size), Limit(a))
     THEN alive' = FALSE /\ UNCHANGED sl
     ELSE sl' = [sl EXCEPT ![a] = Taking(@, size)] /\ UNCHANGED alive
  /\ UNCHANGED user

\* DSM::DSM: a line for every block of the directory, then Cache::initLine.
GBlock == Cardinality(Taken("gblock")) < Lines("gblock") /\ Malloc("gblock", Line)

CLine ==
  /\ Cardinality(Taken("gblock")) = Lines("gblock")
  /\ Cardinality(Taken("cline")) < Lines("cline")
  /\ Malloc("cline", Line)

\* channel_context: the receive ring.  The system's channel comes first, the others
\* when the lines are there.
Started == Cardinality(Taken("cline")) = Lines("cline")

Channel ==
  \E size \in Sizes :
    /\ Started \/ Taken("ring") = {}
    /\ Cardinality(Taken("ring")) < Pieces
    /\ Malloc("ring", size)

\* ~channel_context
Close ==
  \E p \in Taken("ring") :
    /\ alive
    /\ sl' = [sl EXCEPT !["ring"] = Freeing(@, p)]
    /\ UNCHANGED <<user, alive>>

\* sb_realloc: in place if the class is the same, otherwise another piece.
Moved(s, p, size) ==
  IF ClsId(size) = s.item[p].cls
  THEN [s EXCEPT !.item[p].size = size, !.requested[s.item[p].cls] = @ - s.item[p].size + size]
  ELSE Freeing(Taking(s, size), p)

Realloc ==
  \E p \in Taken("ring"), size \in Sizes :
    /\ alive
    /\ IF ClsId(size) # sl["ring"].item[p].cls /\ Exhausted(sl["ring"], ClsId(size), Gb)
       THEN alive' = FALSE /\ UNCHANGED sl
       ELSE sl' = [sl EXCEPT !["ring"] = Moved(@, p, size)] /\ UNCHANGED alive
    /\ UNCHANGED user

Next == GBlock \/ CLine \/ Channel \/ Close \/ Realloc

Spec == Init /\ [][Next]_vars

------------------------------------------------------------------------------
TypeOK ==
  /\ user \in [{"gblock", "cline"} -> UserMem]
  /\ alive \in BOOLEAN
  /\ \A a \in Allocators : LET s == sl[a] IN
       /\ s.free \in [Ids -> Seq(DOMAIN s.item)] /\ s.slabs \in [Ids -> Nat]
       /\ s.requested \in [Ids -> Nat]
       /\ \A p \in DOMAIN s.item : s.item[p].size \in 0 .. Line /\ s.item[p].cls \in 0 .. Largest
       /\ s.current \in Nat /\ s.avail \in Nat /\ s.malloced \in Nat /\ s.memfree \in Nat

\* The pieces of memory in use: where they begin and end.
InUse == UNION {{<<p, p + ClassSize[sl[a].item[p].cls]>> : p \in Taken(a)} : a \in Allocators}

\* No two pieces in use overlap, also where the regions of two allocators do.
Apart ==
  /\ Cardinality(InUse) = MapThenSumSet(LAMBDA a : Cardinality(Taken(a)), Allocators)
  /\ \A x, y \in InUse : x = y \/ x[2] <= y[1] \/ y[2] <= x[1]

\* A piece in use lies in the pool, is as large as was asked for, belongs to the class
\* of its size (the assertion of sb_free), and a whole line is aligned (the assertion
\* of sb_aligned_malloc).
Fitting ==
  \A a \in Allocators : \A p \in Taken(a) : LET i == sl[a].item[p] IN
    /\ p + ClassSize[i.cls] <= PoolSize
    /\ i.size <= ClassSize[i.cls] /\ i.cls = ClsId(i.size)
    /\ i.size = Line => p % Line = 0

\* A piece is either in use or on the list of free pieces, once.
Listed ==
  \A a \in Allocators :
    /\ \A id \in Ids : IsInjective(sl[a].free[id]) /\ ToSet(sl[a].free[id]) \cap Taken(a) = {}
    /\ (UNION {ToSet(sl[a].free[id]) : id \in Ids}) \cup Taken(a) = DOMAIN sl[a].item

\* get_avail: what is left of the limit is what is not in use, and the bytes asked of a
\* class are those of its pieces in use, whatever was freed and reallocated.
Accounts ==
  \A a \in Allocators :
    /\ sl[a].memfree + MapThenSumSet(LAMBDA p : ClassSize[sl[a].item[p].cls], Taken(a)) = Limit(a)
    /\ \A id \in Ids : sl[a].requested[id] =
         MapThenSumSet(LAMBDA p : sl[a].item[p].size, {p \in Taken(a) : sl[a].item[p].cls = id})

\* The memory of the pool is enough for the lines of every configured size: assert(ret)
\* does not fail.
Enough == alive
==============================================================================
