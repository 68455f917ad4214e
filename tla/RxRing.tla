------------------------------- MODULE RxRing --------------------------------
(****************************************************************************)
(* The receive rings of a host and the FPGA buffer manager that fills them: *)
(* c2hAppMultiBufferMgrHLS (and c2hSysMultiBufferMgrHLS, the same code for  *)
(* the system threads) against rx_ring_buffer and channel_context::recv.    *)
(* The manager owns the tail of every ring, the threads own the heads; each *)
(* side knows the other only through a register or a flag that is written   *)
(* by DMA, both of which arrive late.                                       *)
(****************************************************************************)
EXTENDS Integers

CONSTANTS
  Queue,     \* the rings of one manager, one per thread
  Size,      \* max_msg_num_per_q = rx_depth
  none       \* no message waits for a retry

\* The last head a thread reports is the slot it read, not the next one, and the
\* manager keeps one more slot free: with fewer than 3 slots no second message
\* would ever fit.
ASSUME SizeAssumption == Size \in Nat /\ Size >= 3

ASSUME QueueAssumption == none \notin Queue

Slot == 0 .. Size - 1

VARIABLES
  tidx,      \* reg_q_tidx_arr: the next slot the manager writes
  landed,    \* the DMA writes of the slots before this one have reached the host
  hidx,      \* ABM_q_hidx_arr: the head register, as the FPGA sees it
  posted,    \* the last value written to that register by the host
  head,      \* rx_ring_buffer::head
  owner,     \* general_c2h_owner of every slot
  pc,        \* "poll", "post" (flag cleared), "held" (the caller uses the slot)
  retry      \* reg_retry_flag and the queue of reg_retry_c2h_data

vars == <<tidx, landed, hidx, posted, head, owner, pc, retry>>

Succ(i) == IF i = Size - 1 THEN 0 ELSE i + 1

\* How far b is ahead of a on the circle.
Dist(a, b) == IF a <= b THEN b - a ELSE (b - a) + Size

\* The slots from a up to, and without, b.
Between(a, b) == {i \in Slot : Dist(a, i) < Dist(a, b)}

\* A process starts on the FPGA's tail, with cleared slots; the head register
\* holds what the process before it left there.  (A register that says "full"
\* would keep the manager from ever sending: no process that read all its
\* messages leaves one.)
Init ==
  /\ tidx \in [Queue -> Slot]
  /\ landed = tidx
  /\ head = tidx
  /\ hidx \in [Queue -> Slot]
  /\ \A q \in Queue : hidx[q] # Succ(tidx[q])
  /\ posted = hidx
  /\ owner = [q \in Queue |-> [i \in Slot |-> FALSE]]
  /\ pc = [q \in Queue |-> "poll"]
  /\ retry = none

------------------------------------------------------------------------------
(* The manager *)

HasRoom(q) == Succ(tidx[q]) # hidx[q]

\* One cycle with a message for queue q: a new one or, first, the one that did
\* not fit.  The DMA command is issued, or the message is kept for a retry and
\* the messages of all queues wait behind it.
Deliver(q) ==
  /\ retry \in {none, q}
  /\ IF HasRoom(q)
     THEN /\ tidx' = [tidx EXCEPT ![q] = Succ(@)]
          /\ retry' = none
     ELSE /\ retry' = q
          /\ UNCHANGED tidx
  /\ UNCHANGED <<landed, hidx, posted, head, owner, pc>>

\* The DMA engine writes the next slot, its owner flag included.
Land(q) ==
  /\ landed[q] # tidx[q]
  /\ owner' = [owner EXCEPT ![q][landed[q]] = TRUE]
  /\ landed' = [landed EXCEPT ![q] = Succ(@)]
  /\ UNCHANGED <<tidx, hidx, posted, head, pc, retry>>

\* A register write of the host arrives.
RegArrive(q) ==
  /\ hidx[q] # posted[q]
  /\ hidx' = [hidx EXCEPT ![q] = posted[q]]
  /\ UNCHANGED <<tidx, landed, posted, head, owner, pc, retry>>

------------------------------------------------------------------------------
(* The host thread *)

\* channel_context::recv finds the flag of the head slot set and clears it ...
Take(q) ==
  /\ pc[q] = "poll"
  /\ owner[q][head[q]]
  /\ owner' = [owner EXCEPT ![q][head[q]] = FALSE]
  /\ pc' = [pc EXCEPT ![q] = "post"]
  /\ UNCHANGED <<tidx, landed, hidx, posted, head, retry>>

\* Fault: the head is not reported.
StepHead_fault(q) ==
  /\ pc[q] = "post"
  /\ head' = [head EXCEPT ![q] = Succ(@)]
  /\ pc' = [pc EXCEPT ![q] = "held"]
  /\ UNCHANGED <<tidx, landed, hidx, posted, owner, retry>>

\* ... and step_head reports the head, then advances it.
StepHead(q) ==
  /\ pc[q] = "post"
  /\ posted' = [posted EXCEPT ![q] = head[q]]
  /\ head' = [head EXCEPT ![q] = Succ(@)]
  /\ pc' = [pc EXCEPT ![q] = "held"]
  /\ UNCHANGED <<tidx, landed, hidx, owner, retry>>

\* The caller has copied the message that recv returned a pointer to.
Release(q) ==
  /\ pc[q] = "held"
  /\ pc' = [pc EXCEPT ![q] = "poll"]
  /\ UNCHANGED <<tidx, landed, hidx, posted, head, owner, retry>>

Next == \E q \in Queue : \/ Deliver(q) \/ Land(q) \/ RegArrive(q)
                         \/ Take(q) \/ StepHead(q) \/ Release(q)

Spec == Init /\ [][Next]_vars

------------------------------------------------------------------------------
\* Every index is a slot, and one message at most waits for a retry.
TypeOK ==
  /\ tidx \in [Queue -> Slot] /\ landed \in [Queue -> Slot] /\ hidx \in [Queue -> Slot]
  /\ posted \in [Queue -> Slot] /\ head \in [Queue -> Slot]
  /\ owner \in [Queue -> [Slot -> BOOLEAN]]
  /\ pc \in [Queue -> {"poll", "post", "held"}]
  /\ retry \in Queue \cup {none}

\* The slot the thread is reading: before and after step_head.
Reading(q) == CASE pc[q] = "post" -> {head[q]}
                [] pc[q] = "held" -> {posted[q]}
                [] OTHER -> {}

\* A slot that the DMA engine is about to write holds neither a message that
\* the host has not taken nor the one its caller is still reading.
NoOverwrite ==
  \A q \in Queue : \A i \in Between(landed[q], tidx[q]) : ~owner[q][i] /\ i \notin Reading(q)

\* The flags o are those of the slots from the head h to the last landed one l,
\* without the messages in gone and without the one that is being taken.
Flags(o, h, l, step, gone) ==
  \A i \in Slot : o[i] <=> i \in (Between(h, l) \ gone) \ (IF step = "post" THEN {h} ELSE {})

\* The flagged slots are those from the head to the last landed one: every
\* message is found, once and in the order in which the manager took it.
InOrder == \A q \in Queue : Flags(owner[q], head[q], landed[q], pc[q], {})

\* Once round the circle: the register, the reported head, the head, the DMA and
\* the tail follow each other and never meet from behind.
RingOrder ==
  \A q \in Queue :
    Dist(hidx[q], posted[q]) + Dist(posted[q], head[q]) + Dist(head[q], landed[q])
      + Dist(landed[q], tidx[q]) <= Size - 1

\* What holds beside RingOrder while a message is taken.
Taking ==
  \A q \in Queue :
    /\ pc[q] = "post" => head[q] # landed[q]
    /\ pc[q] = "held" => head[q] = Succ(posted[q])

\* What holds of the indices whatever the flags say.
Indices == TypeOK /\ RingOrder /\ Taking

RingInv == Indices /\ InOrder
==============================================================================
