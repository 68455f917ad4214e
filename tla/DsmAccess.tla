------------------------------ MODULE DsmAccess -------------------------------
(****************************************************************************)
(* DSM::read and DSM::write of a piece of global memory of any size: it is  *)
(* cut into pieces that lie in one cache line each, and the pieces are read *)
(* or written one after the other.  The two functions differ only in the    *)
(* direction of the copy.  SetCache and Coherence model what the cache does *)
(* with a piece; here a piece is which bytes of the caller's buffer stand   *)
(* for which bytes of which line.                                           *)
(****************************************************************************)
EXTENDS Integers, FiniteSets

CONSTANTS
  LineSize,    \* DSM_CACHE_LINE_SIZE
  MaxAddr,     \* bound: start addresses
  MaxSize      \* bound: sizes of an access

ASSUME AccessAssumption ==
  LineSize \in Nat \ {0} /\ MaxAddr \in Nat /\ MaxSize \in Nat

VARIABLES
  addr, size,  \* the arguments
  iter,        \* iter.addr: where the next piece starts
  to,          \* offset of `to` (or `from`) in the caller's buffer
  at,          \* first piece, loop over whole lines, returned
  moved,       \* the bytes copied: <<offset in the buffer, line, offset in the line>>
  accesses     \* total_access of this thread

accessVars == <<addr, size, iter, to, at, moved, accesses>>

Smaller(a, b) == IF a < b THEN a ELSE b

AccessInit ==
  /\ addr \in 0 .. MaxAddr /\ size \in 0 .. MaxSize
  /\ iter = addr /\ to = 0
  /\ at = "first"
  /\ moved = {}
  /\ accesses = 0

\* cache.readLine(iter, start, len, to): the line is the one that iter lies in
ReadLine(start, len) ==
  /\ moved' = moved \cup {<<to + k, iter \div LineSize, start + k>> : k \in 0 .. len - 1}
  /\ accesses' = accesses + 1
  /\ iter' = iter + len /\ to' = to + len
  /\ UNCHANGED <<addr, size>>

\* a first piece up to the end of the line, or of the access
FirstLen(start) == Smaller(size, LineSize - start)

First ==
  /\ at = "first"
  /\ LET start == addr % LineSize IN
       /\ ReadLine(start, FirstLen(start))
       /\ at' = IF FirstLen(start) = size THEN "returned" ELSE "loop"

\* the lines that the access covers wholly: end - to >= DSM_CACHE_LINE_SIZE
Whole ==
  /\ at = "loop" /\ size - to >= LineSize
  /\ ReadLine(0, LineSize)
  /\ at' = "loop"

\* the rest, if there is one: end != to
Last ==
  /\ at = "loop" /\ size - to < LineSize
  /\ \/ size # to /\ ReadLine(0, size - to)
     \/ size = to /\ UNCHANGED <<addr, size, iter, to, moved, accesses>>
  /\ at' = "returned"

AccessNext == First \/ Whole \/ Last

AccessSpec == AccessInit /\ [][AccessNext]_accessVars

------------------------------------------------------------------------------
AccessTypeOK ==
  /\ addr \in 0 .. MaxAddr /\ size \in 0 .. MaxSize
  /\ iter \in Nat /\ to \in 0 .. size
  /\ at \in {"first", "loop", "returned"}
  /\ moved \subseteq (0 .. MaxSize - 1) \X Nat \X (0 .. LineSize - 1)
  /\ accesses \in Nat

\* Whatever the alignment and size of an access, every byte copied so far
\* stands where it belongs: byte k of the buffer for address addr + k, inside
\* the line it names.  A piece that ran over the end of its line would copy
\* from or into the memory of another line (DSM.cpp 98-141).
InPlace ==
  \A m \in moved : m[3] < LineSize /\ m[2] * LineSize + m[3] = addr + m[1]

\* The call returns with every byte of the buffer copied, having gone to the
\* cache once for each line that the access touches and not more often
\* (DSM.cpp 110-119, 131-140): a second visit would be a second miss.
OnceEach ==
  at = "returned" =>
    /\ {m[1] : m \in moved} = 0 .. size - 1
    /\ size > 0 => accesses = Cardinality({m[2] : m \in moved})
==============================================================================
