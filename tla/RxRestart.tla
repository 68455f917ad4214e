------------------------------ MODULE RxRestart -------------------------------
(****************************************************************************)
(* The receive rings when the host process is killed and started again      *)
(* while the FPGA goes on (the constructors of rx_ring_buffer and           *)
(* channel_context).  A new process takes the FPGA's tail as its head, then *)
(* clears its buffer, then tells the FPGA where the buffer is, in two       *)
(* halves.  The manager goes on in between: it uses the address it has.     *)
(* A message that it takes in that time goes to the buffer of the old       *)
(* process, or into the new one and is cleared; its slot is then never      *)
(* flagged, and the thread of this ring waits for it for ever.  The head    *)
(* register is written only when a message has been received: until then    *)
(* the manager works with the head that the process before left.            *)
(*                                                                          *)
(* A process takes seconds to get as far as the tail: DMA writes have       *)
(* landed and register writes have arrived before that, but any number of   *)
(* messages may be unread, and one may wait in the retry register.          *)
(****************************************************************************)
EXTENDS RxRing

CONSTANT MaxRestarts      \* bound on the starts of one ring's process

ASSUME RestartAssumption == MaxRestarts \in Nat

VARIABLES
  restarts,    \* restarts[q]: how often the process of q was started again
  full,        \* full[q]: the register said "full" when it was
  phase,       \* the constructor's next step: "clear", "low", "high"; then "run"
  own,         \* own[q]: the address registers name the new process's buffer
  lost         \* lost[q]: the slots of messages the new process will never see

start == <<restarts, full, phase, own>>

restartVars == <<vars, start, lost>>

\* A process that runs, on a ring that lost nothing.
RestartInit ==
  /\ Init
  /\ restarts = [q \in Queue |-> 0]
  /\ full = [q \in Queue |-> FALSE]
  /\ phase = [q \in Queue |-> "run"]
  /\ own = [q \in Queue |-> TRUE]
  /\ lost = [q \in Queue |-> {}]

------------------------------------------------------------------------------
(* The start of a process *)

\* The old process was killed, at any point of its work or of its own start, and
\* the new one takes the tail (show_tail_with_fpga).  Its buffer may or may not
\* be where the address registers point.
ReadTail(q) ==
  /\ restarts[q] < MaxRestarts
  /\ landed[q] = tidx[q] /\ hidx[q] = posted[q]
  /\ head' = [head EXCEPT ![q] = tidx[q]]
  /\ pc' = [pc EXCEPT ![q] = "poll"]
  /\ phase' = [phase EXCEPT ![q] = "clear"]
  /\ \E same \in BOOLEAN : own' = [own EXCEPT ![q] = same]
  /\ lost' = [lost EXCEPT ![q] = {}]
  /\ restarts' = [restarts EXCEPT ![q] = @ + 1]
  /\ full' = [full EXCEPT ![q] = Succ(tidx[q]) = hidx[q]]
  /\ UNCHANGED <<tidx, landed, hidx, posted, owner, retry>>

\* Fault: the slots are not cleared.
Clear_fault(q) ==
  /\ phase[q] = "clear"
  /\ phase' = [phase EXCEPT ![q] = "low"]
  /\ UNCHANGED <<vars, restarts, full, own, lost>>

\* memset: what has landed in the buffer is gone.
Clear(q) ==
  /\ phase[q] = "clear"
  /\ phase' = [phase EXCEPT ![q] = "low"]
  /\ owner' = [owner EXCEPT ![q] = [i \in Slot |-> FALSE]]
  /\ lost' = [lost EXCEPT ![q] = @ \cup Between(head[q], landed[q])]
  /\ UNCHANGED <<tidx, landed, hidx, posted, head, pc, retry, restarts, full, own>>

\* The low half of the address arrives; it is the whole of it if the high halves
\* are the same.
WriteLow(q) ==
  /\ phase[q] = "low"
  /\ phase' = [phase EXCEPT ![q] = "high"]
  /\ \E same \in BOOLEAN : own' = [own EXCEPT ![q] = own[q] \/ same]
  /\ UNCHANGED <<vars, restarts, full, lost>>

\* The high half arrives, and the thread may start.
WriteHigh(q) ==
  /\ phase[q] = "high"
  /\ phase' = [phase EXCEPT ![q] = "run"]
  /\ own' = [own EXCEPT ![q] = TRUE]
  /\ UNCHANGED <<vars, restarts, full, lost>>

------------------------------------------------------------------------------
(* The manager and the thread, with the address in force *)

\* A message is written where the address registers point when it is taken.
Send(q) ==
  /\ Deliver(q)
  /\ lost' = [lost EXCEPT ![q] = IF HasRoom(q) /\ ~own[q] THEN @ \cup {tidx[q]} ELSE @]
  /\ UNCHANGED start

\* The DMA write ends in the new process's buffer ...
LandHere(q) ==
  /\ Land(q)
  /\ landed[q] \notin lost[q]
  /\ UNCHANGED <<start, lost>>

\* ... or elsewhere, or under the memset, which is not over before the low half
\* is written.
LandLost(q) ==
  /\ landed[q] # tidx[q]
  /\ landed[q] \in lost[q] \/ phase[q] = "low"
  /\ landed' = [landed EXCEPT ![q] = Succ(@)]
  /\ lost' = [lost EXCEPT ![q] = @ \cup {landed[q]}]
  /\ UNCHANGED <<tidx, hidx, posted, head, owner, pc, retry, start>>

Running(q) == phase[q] = "run" /\ UNCHANGED <<start, lost>>

RestartNext ==
  \E q \in Queue :
    \/ ReadTail(q) \/ Clear(q) \/ WriteLow(q) \/ WriteHigh(q)
    \/ Send(q) \/ LandHere(q) \/ LandLost(q)
    \/ RegArrive(q) /\ UNCHANGED <<start, lost>>
    \/ Running(q) /\ (Take(q) \/ StepHead(q) \/ Release(q))

\* The DMA engine, the register path and the manager are hardware; a process that
\* is started runs its constructors, and a thread polls without end.
RestartFairness ==
  \A q \in Queue :
    /\ WF_restartVars(Clear(q) \/ WriteLow(q) \/ WriteHigh(q))
    /\ WF_restartVars(retry = q /\ Send(q))
    /\ WF_restartVars(LandHere(q) \/ LandLost(q))
    /\ WF_restartVars(RegArrive(q) /\ UNCHANGED <<start, lost>>)
    /\ WF_restartVars(Running(q) /\ (Take(q) \/ StepHead(q) \/ Release(q)))

RestartSpec == RestartInit /\ [][RestartNext]_restartVars /\ RestartFairness

------------------------------------------------------------------------------
\* A lost message is one that the new process has not gone past.
LostAhead == \A q \in Queue : lost[q] \subseteq Between(head[q], tidx[q])

\* Whatever the process before left, and whatever is sent while the new one
\* starts: once its buffer is cleared, the flags in it are those of the messages
\* sent after the tail was read, less the ones lost to the start; the thread
\* does not skip one of those either, but stops at it; and no slot is written
\* that holds an unread message or one that is being read.
RestartSafe ==
  /\ \A q \in Queue : phase[q] # "clear" =>
       /\ Flags(owner[q], head[q], landed[q], pc[q], lost[q])
       /\ \A i \in Between(landed[q], tidx[q]) : ~owner[q][i] /\ i \notin Reading(q)
  /\ LostAhead

\* The manager is held up for ever only by a ring whose process was killed with
\* the ring full, or whose process waits for a message that was lost to its start.
RetryEndsUnlessFull ==
  \A q \in Queue : retry = q ~> (retry = none \/ full[q] \/ head[q] \in lost[q])
==============================================================================
