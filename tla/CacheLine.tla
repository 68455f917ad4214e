------------------------------ MODULE CacheLine ------------------------------
(****************************************************************************)
(* The status word of a cache line (Cache.h, AtomicTag) and what a cache    *)
(* agent does to it (CacheAgent.cpp).  The word holds a flag and a status   *)
(* and changes only by compare-and-swap.                                    *)
(****************************************************************************)

\* NONE stands for a block that has no line in the set.
LineStatus == {"NONE", "INVALID", "SHARED", "MODIFIED", "TO_SHARED", "TO_MODIFIED"}

ShadStatus == {"PRESERVED", "INVALID", "SHARED", "MODIFIED", "TO_SHARED", "TO_PRESERVED"}

Tag(f, s) == [fl |-> f, st |-> s]

\* Messages that take a shared copy away.
Invalidation == {"DIR_2_AGENT_WRITE_SHARED_NOTONLY", "DIR_2_AGENT_WRITE_MISS_SHARED"}

\* A line on its way from one state to another, whose thread must be told.
Moving(l) == l.st \in {"TO_MODIFIED", "TO_SHARED", "TO_PRESERVED"} /\ ~l.fl

\* Fault: the flag is not set.
AgentCasNoFlag_fault(t, l) ==
  CASE l.st = "PRESERVED" -> {l}
    [] t \in Invalidation /\ l = Tag(FALSE, "SHARED") -> {Tag(FALSE, "INVALID")}
    [] t = "DIR_2_AGENT_READ_MISS_DIRTY" /\ l = Tag(FALSE, "MODIFIED") -> {Tag(FALSE, "SHARED")}
    [] t = "DIR_2_AGENT_READ_MISS_DIRTY" /\ l = Tag(FALSE, "TO_PRESERVED") -> {Tag(FALSE, "TO_SHARED")}
    [] t = "DIR_2_AGENT_WRITE_MISS_DIRTY" /\ l = Tag(FALSE, "MODIFIED") -> {Tag(FALSE, "INVALID")}
    [] t # "DIR_2_AGENT_READ_MISS_DIRTY" /\ Moving(l) -> {l}
    [] OTHER -> {}

\* Fault: a line on its way up is waited for.
AgentCasSpin_fault(t, l) ==
  CASE l.st = "PRESERVED" -> {l}
    [] t \in Invalidation /\ l = Tag(FALSE, "SHARED") -> {Tag(FALSE, "INVALID")}
    [] t = "DIR_2_AGENT_READ_MISS_DIRTY" /\ l = Tag(FALSE, "MODIFIED") -> {Tag(FALSE, "SHARED")}
    [] t = "DIR_2_AGENT_READ_MISS_DIRTY" /\ l = Tag(FALSE, "TO_PRESERVED") -> {Tag(FALSE, "TO_SHARED")}
    [] t = "DIR_2_AGENT_WRITE_MISS_DIRTY" /\ l = Tag(FALSE, "MODIFIED") -> {Tag(FALSE, "INVALID")}
    [] OTHER -> {}

\* What the handler of message type t does to a line: the CAS it is waiting to
\* make, as a set that is empty while the handler spins.
AgentCas(t, l) ==
  CASE l.st = "PRESERVED" -> {l}
    [] t \in Invalidation /\ l = Tag(FALSE, "SHARED") -> {Tag(FALSE, "INVALID")}
    [] t = "DIR_2_AGENT_READ_MISS_DIRTY" /\ l = Tag(FALSE, "MODIFIED") -> {Tag(FALSE, "SHARED")}
    [] t = "DIR_2_AGENT_READ_MISS_DIRTY" /\ l = Tag(FALSE, "TO_PRESERVED") -> {Tag(FALSE, "TO_SHARED")}
    [] t = "DIR_2_AGENT_WRITE_MISS_DIRTY" /\ l = Tag(FALSE, "MODIFIED") -> {Tag(FALSE, "INVALID")}
    [] t # "DIR_2_AGENT_READ_MISS_DIRTY" /\ Moving(l) -> {Tag(TRUE, l.st)}
    [] OTHER -> {}
==============================================================================
