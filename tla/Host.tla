--------------------------------- MODULE Host ---------------------------------
(****************************************************************************)
(* What the nodes' processes do beside the cache protocol: the lock of the  *)
(* lines (WRLock), global memory (Alloc), the memory of the process itself  *)
(* (Slabs) and accesses of any size (DsmAccess).  They share no state, so a *)
(* behaviour is that of one of them, the one in focus, with the others at   *)
(* rest.                                                                    *)
(****************************************************************************)
EXTENDS WRLock, Alloc, DsmAccess

VARIABLES
  focus,
  user, sl, alive

\* A factor of 1, as the code is called with; small and large requests; regions that
\* are, and are not, a multiple of what they are rounded to.
Sb == INSTANCE Slabs WITH
  Line <- 8, Chunk <- 3, Align <- 2, PowerLargest <- 4, Num <- 1, Den <- 1, Gb <- 56, Mb <- 32,
  MinMem <- 64, UserMem <- {64, 95}, Sizes <- {2, 4, 7, 8}, Pieces <- 3

ASSUME HostAssumption == Sb!SlabsAssumption

sbVars == <<user, sl, alive>>

hostVars == <<focus, vars, allocVars, sbVars, accessVars>>

HostInit ==
  /\ focus \in {"lock", "malloc", "slabs", "access"}
  /\ Init /\ AllocInit /\ Sb!Init /\ AccessInit
  /\ focus # "slabs" => user = [a \in {"gblock", "cline"} |-> 64]
  /\ focus # "access" => addr = 0 /\ size = 0

HostNext ==
  /\ \/ focus = "lock" /\ Next /\ UNCHANGED <<allocVars, sbVars, accessVars>>
     \/ focus = "malloc" /\ AllocNext /\ UNCHANGED <<vars, sbVars, accessVars>>
     \/ focus = "slabs" /\ Sb!Next /\ UNCHANGED <<vars, allocVars, accessVars>>
     \/ focus = "access" /\ AccessNext /\ UNCHANGED <<vars, allocVars, sbVars>>
  /\ UNCHANGED focus

\* The fairness of the lock, as its module states it.
LockFair ==
  \A t \in Thread : WF_vars(focus = "lock" /\ Step(t)) /\ WF_vars(focus = "lock" /\ Unlock(t))

HostSpec == HostInit /\ [][HostNext]_hostVars /\ LockFair

------------------------------------------------------------------------------
\* Global memory.  Cache::malloc never hands out memory that overlaps or lies outside
\* the memory of its node, whichever agent and thread it went through, and a fresh
\* chunk is always enough (assert(need_new_chunck == false)).
\* DSM::read and write cut an access into pieces that lie in one line each, copy every
\* byte to its place, and go to the cache once for each line.
MemorySound ==
  /\ AllocTypeOK /\ Disjoint /\ InMemory /\ FreshChunkFits
  /\ AccessTypeOK /\ InPlace /\ OnceEach

\* The slab allocators of a process never hand out pieces that overlap, though two of
\* their regions do; a piece is large enough, aligned, and either free or in use; what
\* is left agrees with what was handed out; and the pool is enough for every size that
\* can be configured.
SlabsSound ==
  focus = "slabs" =>
    Sb!TypeOK /\ Sb!Apart /\ Sb!Fitting /\ Sb!Listed /\ Sb!Accounts /\ Sb!Enough
==============================================================================
