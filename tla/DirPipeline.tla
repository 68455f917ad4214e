----------------------------- MODULE DirPipeline -----------------------------
(****************************************************************************)
(* How messages get to the directory entries, which live in the FPGA's DDR: *)
(* dirCtrlHLS_from_net locks a block and asks for its entry, ddrInstHLS_*   *)
(* read and write the DDR, dirCtrlHLS_to_net joins the message with the     *)
(* entry, writes the new entry back, and the write's acknowledgement comes  *)
(* back to dirCtrlHLS_from_net, which unlocks the block.  Module Directory  *)
(* takes a message and its entry as one atomic step: this module is why it  *)
(* may.                                                                     *)
(*                                                                          *)
(* The contents of an entry are reduced to whether they are the result of   *)
(* the last message that was handled for the block.                         *)
(****************************************************************************)
EXTENDS Integers, Sequences, FiniteSets

CONSTANTS
  Block,      \* directory entries: the values of dir_gblock_index
  Bucket,     \* the rows of reg_gb_index_arr, LOCK_BKT_NUM of LOCK_BKT_SIZE = 1
  BucketOf,   \* dir_gblock_index(LOCK_BKT_WIDTH - 1, 0)
  Depth,      \* capacity of a stream (fifo_depth of the generated wrappers)
  none        \* 0xffffffff

ASSUME PipelineAssumption ==
  /\ BucketOf \in [Block -> Bucket]
  /\ IsFiniteSet(Bucket)
  /\ none \notin Block
  /\ Depth \in Nat

VARIABLES
  toInit,     \* entries whose INIT_DIR has not reached the directory
  table,      \* reg_gb_index_arr: the block that a bucket is locked for
  retry,      \* reg_retry_flag and the block of reg_retry_ctrl_msg
  source,     \* reg_source_flag: the next cycle unlocks
  rq,         \* ctrl_msg_r: blocks of the messages on their way to the handler
  rd,         \* their reads: the block, and the entry once the DDR has read it
  busy,       \* reg_copy_flag of the handler
  wq,         \* entries on their way to the DDR
  cw,         \* ctrl_msg_w: the handled messages on their way to be unlocked
  acks,       \* acknowledged writes on their way to dirCtrlHLS_from_net
  ddr         \* whether the DDR holds the last entry of a block

vars == <<toInit, table, retry, source, rq, rd, busy, wq, cw, acks, ddr>>

Init ==
  /\ toInit = Block
  /\ table = [k \in Bucket |-> none]
  /\ retry = none
  /\ source = FALSE
  /\ rq = <<>> /\ rd = <<>>
  /\ busy = FALSE
  /\ wq = <<>> /\ cw = <<>> /\ acks = 0
  /\ ddr = [b \in Block |-> FALSE]

\* INIT_DIR messages are still on their way.  The messages of other nodes are
\* assumed to come later; nothing in the DSM constructor makes sure of it.
Initialising == toInit # {} \/ \E i \in DOMAIN cw : cw[i].mtype = "INIT_DIR"

------------------------------------------------------------------------------
(* dirCtrlHLS_from_net *)

\* Fault: unlocks before the write is acknowledged.
UnlockTurnEarly_fault ==
  /\ source
  /\ source' = FALSE
  /\ IF cw # <<>>
     THEN /\ cw' = Tail(cw)
          /\ table' = [table EXCEPT ![BucketOf[Head(cw).block]] = none]
     ELSE UNCHANGED <<cw, table>>
  /\ UNCHANGED <<toInit, retry, rq, rd, busy, wq, acks, ddr>>

\* Fault: the lock stays.
UnlockTurnForget_fault ==
  /\ source
  /\ source' = FALSE
  /\ IF acks > 0 /\ cw # <<>>
     THEN acks' = acks - 1 /\ cw' = Tail(cw)
     ELSE UNCHANGED <<acks, cw>>
  /\ UNCHANGED <<toInit, table, retry, rq, rd, busy, wq, ddr>>

\* Every other cycle it unlocks, if a write has been acknowledged.
UnlockTurn ==
  /\ source
  /\ source' = FALSE
  /\ IF acks > 0 /\ cw # <<>>
     THEN /\ acks' = acks - 1
          /\ cw' = Tail(cw)
          /\ table' = [table EXCEPT ![BucketOf[Head(cw).block]] = none]
     ELSE UNCHANGED <<acks, cw, table>>
  /\ UNCHANGED <<toInit, retry, rq, rd, busy, wq, ddr>>

\* Fault: the entry is asked for although the block is locked.
LockTurnAsk_fault(b) ==
  /\ ~source
  /\ source' = TRUE
  /\ retry \in {none, b}
  /\ ~Initialising
  /\ Len(rq) < Depth
  /\ rd' = Append(rd, [block |-> b, val |-> "wait"])
  /\ IF table[BucketOf[b]] # none
     THEN retry' = b /\ UNCHANGED <<table, rq>>
     ELSE /\ retry' = none
          /\ table' = [table EXCEPT ![BucketOf[b]] = b]
          /\ rq' = Append(rq, b)
  /\ UNCHANGED <<toInit, busy, wq, cw, acks, ddr>>

\* Fault: the lock is not looked at.
LockTurnFree_fault(b) ==
  /\ ~source
  /\ source' = TRUE
  /\ retry = none
  /\ ~Initialising
  /\ Len(rq) < Depth
  /\ table' = [table EXCEPT ![BucketOf[b]] = b]
  /\ rq' = Append(rq, b)
  /\ rd' = Append(rd, [block |-> b, val |-> "wait"])
  /\ UNCHANGED <<toInit, retry, busy, wq, cw, acks, ddr>>

\* In between it takes a message, the one that waits for its lock first.
\* Writing to a full stream would stall both kinds of cycle.
LockTurn(b) ==
  /\ ~source
  /\ source' = TRUE
  /\ retry \in {none, b}
  /\ ~Initialising
  /\ IF table[BucketOf[b]] # none
     THEN /\ retry' = b
          /\ UNCHANGED <<table, rq, rd>>
     ELSE /\ Len(rq) < Depth
          /\ retry' = none
          /\ table' = [table EXCEPT ![BucketOf[b]] = b]
          /\ rq' = Append(rq, b)
          /\ rd' = Append(rd, [block |-> b, val |-> "wait"])
  /\ UNCHANGED <<toInit, busy, wq, cw, acks, ddr>>

IdleTurn ==
  /\ ~source
  /\ source' = TRUE
  /\ retry = none
  /\ UNCHANGED <<toInit, table, retry, rq, rd, busy, wq, cw, acks, ddr>>

------------------------------------------------------------------------------
(* ddrInstHLS_ar, _r, _aw_w, _b and the memory behind them *)

\* The memory reads an entry; the answers come back in order of the commands.
DdrRead(i) ==
  /\ rd[i].val = "wait"
  /\ rd' = [rd EXCEPT ![i].val = IF ddr[rd[i].block] THEN "fresh" ELSE "stale"]
  /\ UNCHANGED <<toInit, table, retry, source, rq, busy, wq, cw, acks, ddr>>

\* An entry is written, and acknowledged once it can be read.
DdrWrite ==
  /\ wq # <<>>
  /\ wq' = Tail(wq)
  /\ ddr' = [ddr EXCEPT ![Head(wq).block] = Head(wq).fresh]
  /\ acks' = acks + 1
  /\ UNCHANGED <<toInit, table, retry, source, rq, rd, busy, cw>>

------------------------------------------------------------------------------
(* dirCtrlHLS_to_net *)

\* The entry of b, for the message m; it makes everything else that is held
\* for b old.
WriteBack(b, m, reads) ==
  /\ Len(wq) < Depth /\ Len(cw) < Depth
  /\ wq' = Append([i \in DOMAIN wq |-> [wq[i] EXCEPT !.fresh = @ /\ wq[i].block # b]],
                  [block |-> b, fresh |-> TRUE])
  /\ cw' = Append(cw, m)
  /\ ddr' = [ddr EXCEPT ![b] = FALSE]
  /\ rd' = [i \in DOMAIN reads |->
              IF reads[i].block = b /\ reads[i].val = "fresh"
              THEN [reads[i] EXCEPT !.val = "stale"] ELSE reads[i]]

\* INIT_DIR: it needs no lock, but its acknowledgement unlocks the bucket.
InitDir(b) ==
  /\ b \in toInit
  /\ toInit' = toInit \ {b}
  /\ WriteBack(b, [block |-> b, mtype |-> "INIT_DIR"], rd)
  /\ UNCHANGED <<table, retry, source, rq, busy, acks>>

\* The next message is joined with the next entry, which is written back where
\* it came from.
Handle(copying) ==
  /\ ~busy
  /\ rq # <<>> /\ rd # <<>>
  /\ Head(rd).val # "wait"
  /\ rq' = Tail(rq)
  /\ WriteBack(Head(rd).block, [block |-> Head(rq), mtype |-> "message"], Tail(rd))
  /\ busy' = copying
  /\ UNCHANGED <<toInit, table, retry, source, acks>>

\* The invalidations have all been sent.
CopyEnd ==
  /\ busy
  /\ busy' = FALSE
  /\ UNCHANGED <<toInit, table, retry, source, rq, rd, wq, cw, acks, ddr>>

Next ==
  \/ UnlockTurn \/ IdleTurn \/ \E b \in Block : LockTurn(b)
  \/ DdrWrite \/ \E i \in DOMAIN rd : DdrRead(i)
  \/ \E b \in Block : InitDir(b)
  \/ \E copying \in BOOLEAN : Handle(copying)
  \/ CopyEnd

Spec == Init /\ [][Next]_vars

------------------------------------------------------------------------------
\* Streams hold blocks and entries; a bucket is locked only for its own blocks.
TypeOK ==
  /\ toInit \subseteq Block
  /\ table \in [Bucket -> Block \cup {none}]
  /\ retry \in Block \cup {none}
  /\ source \in BOOLEAN /\ busy \in BOOLEAN
  /\ rq \in Seq(Block)
  /\ cw \in Seq([block : Block, mtype : {"INIT_DIR", "message"}])
  /\ rd \in Seq([block : Block, val : {"wait", "fresh", "stale"}])
  /\ wq \in Seq([block : Block, fresh : BOOLEAN])
  /\ acks \in Nat
  /\ ddr \in [Block -> BOOLEAN]

\* The streams that are joined by position stay in step: the handler gets a
\* message together with the entry of the same block, and an acknowledgement
\* unlocks the block whose entry was written.
Joined ==
  /\ Len(rq) = Len(rd) /\ \A i \in DOMAIN rq : rq[i] = rd[i].block
  /\ Len(cw) = acks + Len(wq) /\ \A i \in DOMAIN wq : wq[i].block = cw[acks + i].block

\* The handler is never given an entry that misses the result of an earlier
\* message, or one that was not initialised.
NoStaleEntry == \A i \in DOMAIN rd : rd[i].val # "stale"

\* The messages between lock and unlock, by their place in a stream, and their blocks.
UnderWay == {<<"r", i>> : i \in DOMAIN rq}
            \cup {<<"w", i>> : i \in {j \in DOMAIN cw : cw[j].mtype # "INIT_DIR"}}

BlockAt(u) == IF u[1] = "r" THEN rq[u[2]] ELSE cw[u[2]].block

\* The bucket of a message between lock and unlock is locked for its block, and
\* for that message alone.
LockHeld ==
  \A u, v \in UnderWay :
    /\ table[BucketOf[BlockAt(u)]] = BlockAt(u)
    /\ u # v => BlockAt(u) # BlockAt(v)

\* Conversely a bucket is locked only while its message is under way: no lock
\* is left behind.
NoLockLeft == \A k \in Bucket : table[k] # none => \E u \in UnderWay : BlockAt(u) = table[k]

\* As many messages fit between lock and unlock as there are buckets, so that a
\* stream with room for them never stalls dirCtrlHLS_from_net, which would keep
\* it from unlocking, and with it the handler, for good.
StreamsFit == Cardinality(UnderWay) <= Cardinality(Bucket)

\* The lock table says exactly which messages are under way, one for each bucket; so
\* the streams, with room for as many, never stall dirCtrlHLS_from_net, which is also
\* the one that unlocks.
LocksMatch == LockHeld /\ NoLockLeft /\ StreamsFit

------------------------------------------------------------------------------
\* All parts are free running hardware pipelines.
Fairness ==
  /\ WF_vars(UnlockTurn)
  /\ WF_vars(IdleTurn \/ \E b \in Block : LockTurn(b))
  /\ WF_vars(DdrWrite) /\ WF_vars(rd # <<>> /\ DdrRead(1))
  /\ WF_vars(\E b \in Block : InitDir(b))
  /\ WF_vars(\E copying \in BOOLEAN : Handle(copying))
  /\ WF_vars(CopyEnd)

FairSpec == Spec /\ Fairness

\* A message that finds its bucket locked gets its turn.
RetryEnds == retry # none ~> retry = none
==============================================================================
