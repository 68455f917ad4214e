----------------------------- MODULE Card_proofs -----------------------------
(****************************************************************************)
(* Proofs about the parts of the card: the handler's entry of one block     *)
(* (module Directory), the pipeline with its lock table in front of it      *)
(* (module DirPipeline), the arbiter in front of the DMA engine (module     *)
(* DmaArbiter) and the way of a message from card to card (NetPath), for    *)
(* any nodes, blocks, buckets, messages, lines and stream depths.           *)
(****************************************************************************)
EXTENDS Directory, DirPipeline, DmaArbiter, NetPath, DirEntry_proofs, SequenceTheorems

------------------------------------------------------------------------------
(* The directory of one block.  The work is done in DirEntry_proofs, step by *)
(* step of the handler.                                                      *)

\* The inductive invariant of DirEntry_proofs, for the directory's variables.
DirInv == EntryInv(entry, copy, owed)

\* Every step keeps the invariant and is a CloseStep.
LEMMA NextInv == DirInv /\ [DirNext]_dvars => DirInv' /\ [CloseStep]_dvars
<1> SUFFICES ASSUME DirInv, [DirNext]_dvars PROVE DirInv' /\ [CloseStep]_dvars
  OBVIOUS
<1>1. ASSUME NEW t \in Request, NEW n \in Node, DirRequest(t, n) PROVE DirInv' /\ CloseStep
  <2>1. Requested(t, n, entry, copy, owed, entry', copy', owed')
    BY <1>1 DEF DirRequest, Write, Requested, Writes
  <2> QED BY <2>1, RequestStep DEF DirInv, CloseStep
<1>2. ASSUME NEW m \in owed, DirAck(m) PROVE DirInv' /\ CloseStep
  <2>1. Answered(m, entry, copy, owed, entry', copy', owed')
    BY <1>2 DEF DirAck, Write, Answered, Writes
  <2> QED BY <2>1, AckStep DEF DirInv, CloseStep
<1>3. ASSUME DirCopy PROVE DirInv' /\ CloseStep
  <2>1. CopiedOne(entry, copy, owed, entry', copy', owed')
    BY <1>3 DEF DirCopy, CopiedOne
  <2>2. DirInv' /\ entry' = entry
    BY <2>1, CopyStep DEF DirInv
  <2> QED BY <2>2 DEF CloseStep, Closes
<1>4. CASE UNCHANGED dvars
  BY <1>4 DEF dvars, DirInv
<1> QED BY <1>1, <1>2, <1>3, <1>4 DEF DirNext

\* The entry that INIT_DIR writes satisfies the invariant.
LEMMA InitInv == DirInit => DirInv
BY InitEntry DEF DirInit, DirInv

\* The handler of dirCtrlHLS_to_net.cpp keeps the directory entry, the copy
\* registers and the answers to come well typed, for any number of nodes up to
\* 255: the last node of a bitmap exists whenever the handler looks for it.
THEOREM DirTypeCorrect == DirSpec => []DirTypeOK
<1>1. DirInv => DirTypeOK
  BY DEF DirInv, EntryInv, DirTypeOK, DirConsistent
<1> QED BY InitInv, NextInv, <1>1, PTL DEF DirSpec

\* In every reachable state of the directory the counter that decides when a
\* write is granted equals the number of nodes that have not answered (plus the
\* requester when it is a sharer), and a stable entry counts its copies exactly.
THEOREM DirIsConsistent == DirSpec => []DirConsistent
<1>1. DirInv => DirConsistent
  BY DEF DirInv, EntryInv, DirTypeOK, DirConsistent
<1> QED BY InitInv, NextInv, <1>1, PTL DEF DirSpec

\* A transient entry is left only for the requester it was opened for.
THEOREM DirTransientCloses == DirSpec => TransientCloses
BY InitInv, NextInv, PTL DEF DirSpec, TransientCloses

------------------------------------------------------------------------------
(* The pipeline keeps its streams in step, never gives the handler an old    *)
(* entry, and neither loses nor leaves a lock.                               *)

PipeMessage == [block : Block, mtype : {"INIT_DIR", "message"}]

PipeRead == [block : Block, val : {"wait", "fresh", "stale"}]

PipeWrite == [block : Block, fresh : BOOLEAN]

\* Every message that has been locked has its bucket, and no other message its block;
\* nor has an entry that is being initialised.
Locked ==
  /\ \A i \in DOMAIN rq : table[BucketOf[rq[i]]] = rq[i]
  /\ \A i \in DOMAIN cw : cw[i].mtype # "INIT_DIR" => table[BucketOf[cw[i].block]] = cw[i].block
  /\ \A i, j \in DOMAIN rq : i # j => rq[i] # rq[j]
  /\ \A i, j \in DOMAIN cw : i # j => cw[i].block # cw[j].block
  /\ \A i \in DOMAIN rq, j \in DOMAIN cw : rq[i] # cw[j].block
  /\ \A j \in DOMAIN cw : cw[j].block \notin toInit

\* A locked bucket is locked for one of its blocks, and a message under way.
Used ==
  \A k \in Bucket : table[k] # none =>
    /\ BucketOf[table[k]] = k
    /\ \/ \E i \in DOMAIN rq : rq[i] = table[k]
       \/ \E j \in DOMAIN cw : cw[j].mtype # "INIT_DIR" /\ cw[j].block = table[k]

\* While entries are being initialised there is no other message.
Starting ==
  Initialising => rq = <<>> /\ \A j \in DOMAIN cw : cw[j].mtype = "INIT_DIR"

\* The newest entry of a block is in the DDR or on its way there, and no older one is
\* on its way behind it.
Newest ==
  /\ \A i \in DOMAIN wq : wq[i].fresh
  /\ \A b \in Block \ toInit : ddr[b] \/ \E i \in DOMAIN wq : wq[i].block = b

PipeInv == TypeOK /\ Joined /\ Locked /\ Used /\ Starting /\ Newest /\ NoStaleEntry

------------------------------------------------------------------------------
\* What Append does, place by place.
LEMMA Appended ==
  ASSUME NEW S, NEW s \in Seq(S), NEW e \in S
  PROVE  /\ Append(s, e) \in Seq(S) /\ Len(Append(s, e)) = Len(s) + 1
         /\ DOMAIN s = 1 .. Len(s) /\ Len(s) \in Nat
         /\ DOMAIN Append(s, e) = 1 .. Len(s) + 1
         /\ \A i \in 1 .. Len(s) : Append(s, e)[i] = s[i]
         /\ Append(s, e)[Len(s) + 1] = e
<1>1. Append(s, e) \in Seq(S) /\ Len(Append(s, e)) = Len(s) + 1
      /\ (\A i \in 1 .. Len(s) : Append(s, e)[i] = s[i]) /\ Append(s, e)[Len(s) + 1] = e
  BY AppendProperties
<1>2. DOMAIN Append(s, e) = 1 .. Len(Append(s, e)) /\ DOMAIN s = 1 .. Len(s) /\ Len(s) \in Nat
  BY <1>1, LenProperties
<1> QED BY <1>1, <1>2

\* What Tail does, place by place.
LEMMA Tailed ==
  ASSUME NEW S, NEW s \in Seq(S), s # <<>>
  PROVE  /\ Tail(s) \in Seq(S) /\ Len(Tail(s)) = Len(s) - 1 /\ Len(s) \in Nat \ {0}
         /\ DOMAIN s = 1 .. Len(s) /\ DOMAIN Tail(s) = 1 .. Len(s) - 1
         /\ \A i \in 1 .. Len(s) - 1 : Tail(s)[i] = s[i + 1]
         /\ Head(s) = s[1] /\ s[1] \in S
<1>1. Tail(s) \in Seq(S) /\ Len(Tail(s)) = Len(s) - 1
      /\ (\A i \in 1 .. Len(Tail(s)) : Tail(s)[i] = s[i + 1]) /\ Head(s) \in S
  BY HeadTailProperties
<1>2. DOMAIN Tail(s) = 1 .. Len(Tail(s)) /\ DOMAIN s = 1 .. Len(s) /\ Len(s) \in Nat
  BY <1>1, LenProperties
<1>3. Len(s) # 0
  BY EmptySeq
<1>4. Head(s) = s[1]
  OBVIOUS
<1> QED BY <1>1, <1>2, <1>3, <1>4

\* Streams in the shape the proofs use.
LEMMA Shapes ==
  ASSUME TypeOK
  PROVE  /\ rq \in Seq(Block) /\ cw \in Seq(PipeMessage) /\ rd \in Seq(PipeRead) /\ wq \in Seq(PipeWrite)
         /\ DOMAIN rq = 1 .. Len(rq) /\ DOMAIN cw = 1 .. Len(cw)
         /\ DOMAIN rd = 1 .. Len(rd) /\ DOMAIN wq = 1 .. Len(wq)
         /\ Len(rq) \in Nat /\ Len(cw) \in Nat /\ Len(rd) \in Nat /\ Len(wq) \in Nat
         /\ \A i \in DOMAIN rq : rq[i] \in Block
         /\ \A i \in DOMAIN cw : cw[i] \in PipeMessage /\ cw[i].block \in Block
         /\ \A i \in DOMAIN rd : rd[i] \in PipeRead
         /\ \A i \in DOMAIN wq : wq[i] \in PipeWrite
<1>1. rq \in Seq(Block) /\ cw \in Seq(PipeMessage) /\ rd \in Seq(PipeRead) /\ wq \in Seq(PipeWrite)
  BY DEF TypeOK, PipeMessage, PipeRead, PipeWrite
<1>2. /\ DOMAIN rq = 1 .. Len(rq) /\ DOMAIN cw = 1 .. Len(cw)
      /\ DOMAIN rd = 1 .. Len(rd) /\ DOMAIN wq = 1 .. Len(wq)
      /\ Len(rq) \in Nat /\ Len(cw) \in Nat /\ Len(rd) \in Nat /\ Len(wq) \in Nat
  BY <1>1, LenProperties
<1>3. /\ \A i \in DOMAIN rq : rq[i] \in Block
      /\ \A i \in DOMAIN cw : cw[i] \in PipeMessage
      /\ \A i \in DOMAIN rd : rd[i] \in PipeRead
      /\ \A i \in DOMAIN wq : wq[i] \in PipeWrite
  BY <1>1, <1>2, ElementOfSeq
<1> QED BY <1>1, <1>2, <1>3 DEF PipeMessage

LEMMA PipeInit == Init => PipeInv
<1> SUFFICES ASSUME Init PROVE PipeInv
  OBVIOUS
<1>1. TypeOK
  <2>1. rq \in Seq(Block) /\ cw \in Seq(PipeMessage) /\ rd \in Seq(PipeRead) /\ wq \in Seq(PipeWrite)
    BY EmptySeq DEF Init
  <2>2. table \in [Bucket -> Block \cup {none}] /\ ddr \in [Block -> BOOLEAN]
    BY DEF Init
  <2> QED BY <2>1, <2>2 DEF Init, TypeOK, PipeMessage, PipeRead, PipeWrite
<1>2. DOMAIN rq = {} /\ DOMAIN cw = {} /\ DOMAIN rd = {} /\ DOMAIN wq = {}
      /\ Len(rq) = 0 /\ Len(cw) = 0 /\ Len(rd) = 0 /\ Len(wq) = 0
  BY DEF Init
<1> QED BY <1>1, <1>2 DEF Init, PipeInv, Joined, Locked, Used, Starting, Newest, NoStaleEntry

\* Handled messages are acknowledged in order, those that are not are being written.
LEMMA Written ==
  ASSUME PipeInv, NEW i \in DOMAIN wq
  PROVE  acks + i \in DOMAIN cw /\ wq[i].block = cw[acks + i].block
BY Shapes DEF PipeInv, Joined, TypeOK

\* Once a message has been locked, no entry is being initialised any more.
LEMMA Started ==
  ASSUME PipeInv, rq # <<>>
  PROVE  toInit = {} /\ \A j \in DOMAIN cw : cw[j].mtype # "INIT_DIR"
BY DEF PipeInv, Starting, Initialising

\* No entry of a message that waits for the handler is on its way to the DDR.
LEMMA NotWritten ==
  ASSUME PipeInv, NEW i \in DOMAIN rq, NEW j \in DOMAIN wq
  PROVE  wq[j].block # rq[i]
BY Written DEF PipeInv, Locked

\* While no other message is there, no bucket is locked.
LEMMA Unlocked ==
  ASSUME PipeInv, Initialising
  PROVE  /\ rq = <<>> /\ rd = <<>> /\ DOMAIN rq = {} /\ DOMAIN rd = {}
         /\ \A k \in Bucket : table[k] = none
<1>1. rq = <<>> /\ \A j \in DOMAIN cw : cw[j].mtype = "INIT_DIR"
  BY DEF PipeInv, Starting
<1>2. Len(rq) = 0 /\ Len(rd) = 0
  BY <1>1 DEF PipeInv, Joined
<1>3. rd = <<>> /\ DOMAIN rq = {} /\ DOMAIN rd = {}
  <2>1. rd \in Seq(PipeRead) /\ DOMAIN rq = 1 .. Len(rq) /\ DOMAIN rd = 1 .. Len(rd)
    BY Shapes DEF PipeInv
  <2> QED BY <2>1, <1>2, EmptySeq
<1>4. \A k \in Bucket : table[k] = none
  BY <1>1, <1>3 DEF PipeInv, Used
<1> QED BY <1>1, <1>3, <1>4

------------------------------------------------------------------------------
\* A step that only moves a register leaves the invariant alone.
LEMMA StepFrame ==
  ASSUME PipeInv, UNCHANGED <<toInit, table, rq, rd, wq, cw, acks, ddr>>,
         source' \in BOOLEAN, busy' \in BOOLEAN, retry' \in Block \cup {none}
  PROVE  PipeInv'
<1>1. TypeOK'
  BY DEF PipeInv, TypeOK
<1>2. Joined' /\ NoStaleEntry'
  BY DEF PipeInv, Joined, NoStaleEntry
<1>3. Locked' /\ Used'
  BY DEF PipeInv, Locked, Used
<1>4. Starting' /\ Newest'
  BY DEF PipeInv, Starting, Initialising, Newest
<1> QED BY <1>1, <1>2, <1>3, <1>4 DEF PipeInv

LEMMA StepIdle ==
  ASSUME PipeInv, IdleTurn \/ CopyEnd \/ UNCHANGED vars
  PROVE  PipeInv'
<1>1. source \in BOOLEAN /\ busy \in BOOLEAN /\ retry \in Block \cup {none}
  BY DEF PipeInv, TypeOK
<1>2. UNCHANGED <<toInit, table, rq, rd, wq, cw, acks, ddr>> /\ source' \in BOOLEAN
      /\ busy' \in BOOLEAN /\ retry' \in Block \cup {none}
  BY <1>1 DEF IdleTurn, CopyEnd, vars
<1> QED BY <1>2, StepFrame

LEMMA StepUnlock ==
  ASSUME PipeInv, UnlockTurn
  PROVE  PipeInv'
<1>1. CASE ~(acks > 0 /\ cw # <<>>)
  <2>1. UNCHANGED <<toInit, table, retry, rq, rd, busy, wq, cw, acks, ddr>> /\ source' = FALSE
    BY <1>1 DEF UnlockTurn
  <2>2. busy \in BOOLEAN /\ retry \in Block \cup {none}
    BY DEF PipeInv, TypeOK
  <2> QED BY <2>1, <2>2, StepFrame
<1>2. CASE acks > 0 /\ cw # <<>>
  <2> DEFINE k == BucketOf[cw[1].block]
  <2>1. /\ acks' = acks - 1 /\ cw' = Tail(cw) /\ table' = [table EXCEPT ![k] = none] /\ source' = FALSE
        /\ UNCHANGED <<toInit, retry, rq, rd, busy, wq, ddr>>
    BY <1>2 DEF UnlockTurn
  <2>2. /\ cw' \in Seq(PipeMessage) /\ Len(cw') = Len(cw) - 1 /\ Len(cw) \in Nat \ {0}
        /\ DOMAIN cw = 1 .. Len(cw) /\ DOMAIN cw' = 1 .. Len(cw) - 1
        /\ \A i \in 1 .. Len(cw) - 1 : cw'[i] = cw[i + 1]
        /\ cw[1] \in PipeMessage
    BY <1>2, <2>1, Shapes, Tailed DEF PipeInv
  <2>3. k \in Bucket /\ table \in [Bucket -> Block \cup {none}] /\ acks \in Nat
        /\ cw[1].block \in Block /\ 1 \in DOMAIN cw
    BY <2>2, PipelineAssumption DEF PipeMessage, PipeInv, TypeOK
  <2>4. TypeOK'
    <3>1. table' \in [Bucket -> Block \cup {none}] /\ acks' \in Nat
      BY <1>2, <2>1, <2>3
    <3> QED BY <2>1, <2>2, <3>1 DEF PipeInv, TypeOK, PipeMessage
  <2>5. Joined'
    <3>1. Len(cw) = acks + Len(wq) /\ Len(wq) \in Nat /\ DOMAIN wq = 1 .. Len(wq)
      BY Shapes DEF PipeInv, Joined
    <3>2. Len(cw') = acks' + Len(wq')
      BY <2>1, <2>2, <2>3, <3>1
    <3>3. ASSUME NEW i \in DOMAIN wq PROVE wq[i].block = cw'[acks - 1 + i].block
      <4>1. acks - 1 + i \in 1 .. Len(cw) - 1 /\ (acks - 1 + i) + 1 = acks + i
        BY <1>2, <2>3, <3>1
      <4>2. cw'[acks - 1 + i] = cw[(acks - 1 + i) + 1]
        BY <2>2, <4>1
      <4> QED BY <4>1, <4>2, Written
    <3> QED BY <2>1, <3>2, <3>3 DEF PipeInv, Joined
  <2>6. \A b \in Block : table[BucketOf[b]] = b /\ b # cw[1].block => table'[BucketOf[b]] = b
    <3> SUFFICES ASSUME NEW b \in Block, table[BucketOf[b]] = b, b # cw[1].block
                 PROVE  table'[BucketOf[b]] = b
      OBVIOUS
    <3>1. table[k] \in {none, cw[1].block}
      <4>1. CASE cw[1].mtype = "INIT_DIR"
        <5>1. Initialising
          BY <2>3, <4>1 DEF Initialising
        <5> QED BY <5>1, <2>3, Unlocked
      <4>2. CASE cw[1].mtype # "INIT_DIR"
        BY <2>3, <4>2 DEF PipeInv, Locked
      <4> QED BY <4>1, <4>2
    <3>2. BucketOf[b] # k
      BY <3>1, PipelineAssumption
    <3>3. BucketOf[b] \in Bucket
      BY PipelineAssumption
    <3> QED BY <2>1, <2>3, <3>2, <3>3
  <2>7. Locked'
    <3>1. \A i \in DOMAIN rq : rq[i] # cw[1].block /\ rq[i] \in Block
      BY <2>3, Shapes DEF PipeInv, Locked
    <3>2. \A i \in DOMAIN cw' : i + 1 \in DOMAIN cw /\ i + 1 # 1 /\ cw'[i] = cw[i + 1]
                                /\ cw'[i].block # cw[1].block /\ cw'[i].block \in Block
      <4>1. \A i \in DOMAIN cw' : i + 1 \in DOMAIN cw /\ i + 1 # 1 /\ cw'[i] = cw[i + 1]
        BY <2>2
      <4>2. \A j \in DOMAIN cw : j # 1 => cw[j].block # cw[1].block
        BY <2>3 DEF PipeInv, Locked
      <4>3. \A j \in DOMAIN cw : cw[j].block \in Block
        BY Shapes DEF PipeInv
      <4> QED BY <4>1, <4>2, <4>3
    <3>3. \A i, j \in DOMAIN cw' : i # j => i + 1 # j + 1
      BY <2>2
    <3>4. \A i \in DOMAIN rq' : table'[BucketOf[rq'[i]]] = rq'[i]
      BY <2>1, <2>6, <3>1 DEF PipeInv, Locked
    <3>5. \A i \in DOMAIN cw' : cw'[i].mtype # "INIT_DIR" => table'[BucketOf[cw'[i].block]] = cw'[i].block
      BY <2>6, <3>2 DEF PipeInv, Locked
    <3> QED BY <2>1, <3>2, <3>3, <3>4, <3>5 DEF PipeInv, Locked
  <2>8. Used'
    <3> SUFFICES ASSUME NEW h \in Bucket, table'[h] # none
                 PROVE  /\ BucketOf[table'[h]] = h
                        /\ \/ \E i \in DOMAIN rq' : rq'[i] = table'[h]
                           \/ \E j \in DOMAIN cw' : cw'[j].mtype # "INIT_DIR" /\ cw'[j].block = table'[h]
      BY DEF Used
    <3>1. h # k /\ table'[h] = table[h]
      BY <2>1, <2>3
    <3>2. (\E i \in DOMAIN rq : rq[i] = table[h]) => \E i \in DOMAIN rq' : rq'[i] = table'[h]
      BY <2>1, <3>1
    <3>3. ASSUME NEW j \in DOMAIN cw, cw[j].mtype # "INIT_DIR", cw[j].block = table[h]
          PROVE  \E l \in DOMAIN cw' : cw'[l].mtype # "INIT_DIR" /\ cw'[l].block = table'[h]
      <4>1. j # 1
        <5>1. j = 1 => BucketOf[table[h]] = k
          BY <3>3
        <5>2. BucketOf[table[h]] = h
          BY <3>1 DEF PipeInv, Used
        <5> QED BY <3>1, <5>1, <5>2
      <4>2. j - 1 \in DOMAIN cw' /\ cw'[j - 1] = cw[j]
        <5>1. j - 1 \in 1 .. Len(cw) - 1 /\ (j - 1) + 1 = j
          BY <2>2, <4>1
        <5> QED BY <2>2, <5>1
      <4> QED BY <3>1, <3>3, <4>2
    <3> QED BY <3>1, <3>2, <3>3 DEF PipeInv, Used
  <2>9. Starting'
    BY <2>1, <2>2 DEF PipeInv, Starting, Initialising
  <2> QED BY <2>1, <2>4, <2>5, <2>7, <2>8, <2>9 DEF PipeInv, Newest, NoStaleEntry
<1> QED BY <1>1, <1>2

LEMMA StepLock ==
  ASSUME PipeInv, NEW b \in Block, LockTurn(b)
  PROVE  PipeInv'
<1>1. CASE table[BucketOf[b]] # none
  <2>1. UNCHANGED <<toInit, table, rq, rd, wq, cw, acks, ddr, busy>> /\ source' = TRUE /\ retry' = b
    BY <1>1 DEF LockTurn
  <2> QED BY <2>1, StepFrame DEF PipeInv, TypeOK
<1>2. CASE table[BucketOf[b]] = none
  <2> DEFINE k == BucketOf[b]
             e == [block |-> b, val |-> "wait"]
  <2>1. /\ table' = [table EXCEPT ![k] = b] /\ rq' = Append(rq, b) /\ rd' = Append(rd, e)
        /\ source' = TRUE /\ retry' = none /\ ~Initialising
        /\ UNCHANGED <<toInit, busy, wq, cw, acks, ddr>>
    BY <1>2 DEF LockTurn
  <2>2. k \in Bucket /\ table \in [Bucket -> Block \cup {none}] /\ e \in PipeRead
    BY PipelineAssumption DEF PipeInv, TypeOK, PipeRead
  <2>3. /\ rq' \in Seq(Block) /\ Len(rq') = Len(rq) + 1 /\ Len(rq) \in Nat
        /\ DOMAIN rq = 1 .. Len(rq) /\ DOMAIN rq' = 1 .. Len(rq) + 1
        /\ \A i \in 1 .. Len(rq) : rq'[i] = rq[i]
        /\ rq'[Len(rq) + 1] = b
    BY <2>1, Shapes, Appended DEF PipeInv
  <2>4. /\ rd' \in Seq(PipeRead) /\ Len(rd') = Len(rd) + 1
        /\ DOMAIN rd = 1 .. Len(rd) /\ DOMAIN rd' = 1 .. Len(rd) + 1
        /\ \A i \in 1 .. Len(rd) : rd'[i] = rd[i]
        /\ rd'[Len(rd) + 1] = e
    BY <2>1, <2>2, Shapes, Appended DEF PipeInv
  <2>5. TypeOK'
    <3>1. table' \in [Bucket -> Block \cup {none}]
      BY <2>1, <2>2
    <3> QED BY <2>1, <2>3, <2>4, <3>1 DEF PipeInv, TypeOK, PipeRead
  <2>6. Joined'
    <3>1. Len(rq) = Len(rd) /\ \A i \in DOMAIN rq : rq[i] = rd[i].block
      BY DEF PipeInv, Joined
    <3>2. Len(rq') = Len(rd') /\ \A i \in DOMAIN rq' : rq'[i] = rd'[i].block
      BY <2>3, <2>4, <3>1
    <3> QED BY <2>1, <3>2 DEF PipeInv, Joined
  <2>7. /\ \A i \in DOMAIN rq : rq[i] \in Block /\ rq[i] # b /\ table'[BucketOf[rq[i]]] = rq[i]
        /\ \A j \in DOMAIN cw : cw[j].mtype # "INIT_DIR" /\ cw[j].block \in Block /\ cw[j].block # b
                               /\ table'[BucketOf[cw[j].block]] = cw[j].block
        /\ table'[BucketOf[b]] = b
    <3>1. \A c \in Block : table[BucketOf[c]] = c => c # b /\ table'[BucketOf[c]] = c
      BY <1>2, <2>1, <2>2, PipelineAssumption
    <3>2. \A i \in DOMAIN rq : rq[i] \in Block /\ table[BucketOf[rq[i]]] = rq[i]
      BY Shapes DEF PipeInv, Locked
    <3>3. \A j \in DOMAIN cw : cw[j].mtype # "INIT_DIR"
      BY <2>1 DEF Initialising
    <3>4. \A j \in DOMAIN cw : cw[j].block \in Block /\ table[BucketOf[cw[j].block]] = cw[j].block
      BY <3>3, Shapes DEF PipeInv, Locked
    <3> QED BY <2>1, <2>2, <3>1, <3>2, <3>3, <3>4
  <2>8. Locked'
    <3>1. \A i \in DOMAIN rq' : table'[BucketOf[rq'[i]]] = rq'[i]
      BY <2>3, <2>7
    <3>2. \A i, j \in DOMAIN rq' : i # j => rq'[i] # rq'[j]
      BY <2>3, <2>7 DEF PipeInv, Locked
    <3>3. \A i \in DOMAIN rq', j \in DOMAIN cw : rq'[i] # cw[j].block
      BY <2>3, <2>7 DEF PipeInv, Locked
    <3> QED BY <2>1, <2>7, <3>1, <3>2, <3>3 DEF PipeInv, Locked
  <2>9. Used'
    <3>1. Len(rq) + 1 \in DOMAIN rq' /\ rq'[Len(rq) + 1] = table'[k] /\ BucketOf[table'[k]] = k
      BY <2>1, <2>2, <2>3
    <3>2. \A h \in Bucket : h # k => table'[h] = table[h]
      BY <2>1, <2>2
    <3>3. \A i \in DOMAIN rq : i \in DOMAIN rq' /\ rq'[i] = rq[i]
      BY <2>3
    <3>4. \A h \in Bucket : h # k /\ table'[h] # none =>
            /\ BucketOf[table'[h]] = h
            /\ \/ \E i \in DOMAIN rq' : rq'[i] = table'[h]
               \/ \E j \in DOMAIN cw' : cw'[j].mtype # "INIT_DIR" /\ cw'[j].block = table'[h]
      BY <2>1, <3>2, <3>3 DEF PipeInv, Used
    <3> QED BY <3>1, <3>4 DEF Used
  <2>10. Starting'
    BY <2>1 DEF Starting, Initialising
  <2>11. NoStaleEntry'
    BY <2>4 DEF PipeInv, NoStaleEntry
  <2> QED BY <2>1, <2>5, <2>6, <2>8, <2>9, <2>10, <2>11 DEF PipeInv, Newest
<1> QED BY <1>1, <1>2

LEMMA StepRead ==
  ASSUME PipeInv, NEW i \in DOMAIN rd, DdrRead(i)
  PROVE  PipeInv'
<1> DEFINE b == rd[i].block
<1>1. /\ rd' = [rd EXCEPT ![i].val = IF ddr[b] THEN "fresh" ELSE "stale"]
      /\ UNCHANGED <<toInit, table, retry, source, rq, busy, wq, cw, acks, ddr>>
  BY DEF DdrRead
<1>2. rd \in Seq(PipeRead) /\ DOMAIN rd = 1 .. Len(rd) /\ DOMAIN rq = 1 .. Len(rq) /\ rd[i] \in PipeRead
  BY Shapes DEF PipeInv
<1>3. i \in DOMAIN rq /\ rq[i] = b /\ b \in Block /\ rq # <<>>
  <2>1. i \in DOMAIN rq /\ rq[i] = b
    BY <1>2 DEF PipeInv, Joined
  <2>2. rq # <<>>
    BY <2>1
  <2> QED BY <1>2, <2>1, <2>2 DEF PipeRead
<1>4. ddr[b]
  BY <1>3, Started, NotWritten DEF PipeInv, Newest
<1>5. /\ rd' \in Seq(PipeRead) /\ DOMAIN rd' = DOMAIN rd /\ Len(rd') = Len(rd)
      /\ \A j \in DOMAIN rd : rd'[j].block = rd[j].block /\ (j # i => rd'[j] = rd[j])
      /\ rd'[i].val = "fresh"
  <2> DEFINE x == [rd[i] EXCEPT !.val = "fresh"]
  <2>1. x \in PipeRead /\ x.block = rd[i].block /\ x.val = "fresh"
    BY <1>2 DEF PipeRead
  <2>2. rd' = [rd EXCEPT ![i] = x]
    BY <1>1, <1>4
  <2> HIDE DEF x
  <2>3. rd' \in Seq(PipeRead) /\ Len(rd') = Len(rd)
        /\ \A j \in 1 .. Len(rd) : rd'[j] = IF j = i THEN x ELSE rd[j]
    BY <1>2, <2>1, <2>2, ExceptSeq
  <2>4. DOMAIN rd' = DOMAIN rd
    BY <2>2
  <2> QED BY <1>2, <2>1, <2>3, <2>4
<1>6. TypeOK'
  BY <1>1, <1>5 DEF PipeInv, TypeOK, PipeRead
<1>7. Joined'
  <2>1. Len(rq) = Len(rd) /\ \A j \in DOMAIN rq : rq[j] = rd[j].block
    BY DEF PipeInv, Joined
  <2>2. Len(rq') = Len(rd') /\ \A j \in DOMAIN rq' : rq'[j] = rd'[j].block
    BY <1>1, <1>2, <1>5, <2>1
  <2> QED BY <1>1, <2>2 DEF PipeInv, Joined
<1>8. NoStaleEntry'
  BY <1>5 DEF PipeInv, NoStaleEntry
<1>9. Locked' /\ Used'
  BY <1>1 DEF PipeInv, Locked, Used
<1>10. Starting' /\ Newest'
  BY <1>1 DEF PipeInv, Starting, Initialising, Newest
<1> QED BY <1>6, <1>7, <1>8, <1>9, <1>10 DEF PipeInv

LEMMA StepWrite ==
  ASSUME PipeInv, DdrWrite
  PROVE  PipeInv'
<1>1. /\ wq # <<>> /\ wq' = Tail(wq) /\ ddr' = [ddr EXCEPT ![Head(wq).block] = Head(wq).fresh]
      /\ acks' = acks + 1
      /\ UNCHANGED <<toInit, table, retry, source, rq, rd, busy, cw>>
  BY DEF DdrWrite
<1>2. /\ wq' \in Seq(PipeWrite) /\ Len(wq') = Len(wq) - 1 /\ Len(wq) \in Nat \ {0}
      /\ DOMAIN wq = 1 .. Len(wq) /\ DOMAIN wq' = 1 .. Len(wq) - 1
      /\ \A i \in 1 .. Len(wq) - 1 : wq'[i] = wq[i + 1]
      /\ Head(wq) = wq[1] /\ wq[1] \in PipeWrite
  BY <1>1, Shapes, Tailed DEF PipeInv
<1>3. wq[1].block \in Block /\ wq[1].fresh /\ ddr \in [Block -> BOOLEAN] /\ acks \in Nat
  BY <1>2 DEF PipeWrite, PipeInv, Newest, TypeOK
<1>4. ddr' = [ddr EXCEPT ![wq[1].block] = TRUE]
  <2>1. wq[1].fresh = TRUE
    BY <1>2, <1>3 DEF PipeWrite
  <2> QED BY <1>1, <1>2, <2>1
<1>5. TypeOK'
  <2>1. ddr' \in [Block -> BOOLEAN]
    BY <1>3, <1>4
  <2>2. acks' \in Nat
    BY <1>1, <1>3
  <2> QED BY <1>1, <1>2, <2>1, <2>2 DEF PipeInv, TypeOK, PipeWrite
<1>6. Joined'
  <2>1. Len(cw) = acks + Len(wq) /\ \A i \in DOMAIN wq : wq[i].block = cw[acks + i].block
    BY DEF PipeInv, Joined
  <2>2. Len(cw) = acks' + Len(wq')
    BY <1>1, <1>2, <1>3, <2>1
  <2>3. ASSUME NEW i \in DOMAIN wq' PROVE wq'[i].block = cw[acks + 1 + i].block
    <3>1. i + 1 \in DOMAIN wq /\ wq'[i] = wq[i + 1] /\ acks + (i + 1) = acks + 1 + i
      BY <1>2, <1>3
    <3>2. wq[i + 1].block = cw[acks + (i + 1)].block
      BY <2>1, <3>1
    <3> QED BY <3>1, <3>2
  <2> QED BY <1>1, <2>2, <2>3 DEF PipeInv, Joined
<1>7. Newest'
  <2>1. \A i \in DOMAIN wq' : wq'[i].fresh
    BY <1>2 DEF PipeInv, Newest
  <2>2. ASSUME NEW b \in Block \ toInit PROVE ddr'[b] \/ \E i \in DOMAIN wq' : wq'[i].block = b
    <3>1. CASE b = wq[1].block
      BY <1>3, <1>4, <3>1
    <3>2. ASSUME NEW i \in DOMAIN wq, wq[i].block = b, b # wq[1].block
          PROVE  \E j \in DOMAIN wq' : wq'[j].block = b
      <4>1. i - 1 \in DOMAIN wq' /\ wq'[i - 1] = wq[i]
        <5>1. i # 1
          BY <3>2
        <5>2. i - 1 \in 1 .. Len(wq) - 1 /\ (i - 1) + 1 = i
          BY <1>2, <5>1
        <5> QED BY <1>2, <5>2
      <4> QED BY <3>2, <4>1
    <3>3. CASE ddr[b]
      BY <1>3, <1>4, <3>3
    <3> QED BY <3>1, <3>2, <3>3 DEF PipeInv, Newest
  <2> QED BY <1>1, <2>1, <2>2 DEF Newest
<1>8. Locked' /\ Used'
  BY <1>1 DEF PipeInv, Locked, Used
<1>9. Starting' /\ NoStaleEntry'
  BY <1>1 DEF PipeInv, Starting, Initialising, NoStaleEntry
<1> QED BY <1>5, <1>6, <1>7, <1>8, <1>9 DEF PipeInv

\* Writing back an entry of which no older one is under way makes nothing old.
LEMMA WrittenBack ==
  ASSUME PipeInv, NEW b \in Block, NEW m \in PipeMessage, NEW reads \in Seq(PipeRead), WriteBack(b, m, reads),
         \A i \in DOMAIN wq : wq[i].block # b, \A i \in DOMAIN reads : reads[i].block # b
  PROVE  /\ wq' = Append(wq, [block |-> b, fresh |-> TRUE]) /\ cw' = Append(cw, m)
         /\ ddr' = [ddr EXCEPT ![b] = FALSE] /\ rd' = reads
<1>1. wq \in Seq(PipeWrite) /\ wq \in [1 .. Len(wq) -> PipeWrite] /\ DOMAIN wq = 1 .. Len(wq)
  BY Shapes, LenProperties DEF PipeInv
<1>2. reads \in [1 .. Len(reads) -> PipeRead] /\ DOMAIN reads = 1 .. Len(reads)
  BY LenProperties
<1>3. [i \in DOMAIN wq |-> [wq[i] EXCEPT !.fresh = @ /\ wq[i].block # b]] = wq
  <2>1. \A i \in DOMAIN wq : [wq[i] EXCEPT !.fresh = @ /\ wq[i].block # b] = wq[i]
    <3> SUFFICES ASSUME NEW i \in DOMAIN wq
                 PROVE  [wq[i] EXCEPT !.fresh = @ /\ wq[i].block # b] = wq[i]
      OBVIOUS
    <3>1. wq[i] \in PipeWrite /\ wq[i].block # b /\ wq[i].fresh
      BY <1>1 DEF PipeInv, Newest
    <3>2. wq[i].fresh = TRUE /\ wq[i] = [block |-> wq[i].block, fresh |-> TRUE]
      BY <3>1 DEF PipeWrite
    <3>3. (wq[i].fresh /\ wq[i].block # b) = TRUE
      BY <3>1
    <3> QED BY <3>2, <3>3
  <2> QED BY <1>1, <2>1
<1>4. [i \in DOMAIN reads |-> IF reads[i].block = b /\ reads[i].val = "fresh"
                             THEN [reads[i] EXCEPT !.val = "stale"] ELSE reads[i]] = reads
  BY <1>2
<1> QED BY <1>3, <1>4 DEF WriteBack

\* What an entry written back does to the streams behind the handler.
LEMMA Behind ==
  ASSUME PipeInv, NEW b \in Block, NEW m \in PipeMessage, m.block = b,
         \A j \in DOMAIN cw : cw[j].block # b,
         wq' = Append(wq, [block |-> b, fresh |-> TRUE]), cw' = Append(cw, m),
         ddr' = [ddr EXCEPT ![b] = FALSE], acks' = acks, toInit' \in {toInit, toInit \ {b}}
  PROVE  /\ wq' \in Seq(PipeWrite) /\ cw' \in Seq(PipeMessage) /\ ddr' \in [Block -> BOOLEAN]
         /\ DOMAIN cw = 1 .. Len(cw) /\ DOMAIN cw' = 1 .. Len(cw) + 1 /\ Len(cw) \in Nat
         /\ \A j \in DOMAIN cw : cw'[j] = cw[j]
         /\ cw'[Len(cw) + 1] = m
         /\ Len(cw') = acks' + Len(wq') /\ \A i \in DOMAIN wq' : wq'[i].block = cw'[acks' + i].block
         /\ Newest'
         /\ \A i, j \in DOMAIN cw' : i # j => cw'[i].block # cw'[j].block
<1> DEFINE e == [block |-> b, fresh |-> TRUE]
<1>1. e \in PipeWrite /\ e.block = b /\ e.fresh
  BY DEF PipeWrite
<1> HIDE DEF e
<1>2. /\ wq' \in Seq(PipeWrite) /\ Len(wq') = Len(wq) + 1 /\ Len(wq) \in Nat
      /\ DOMAIN wq = 1 .. Len(wq) /\ DOMAIN wq' = 1 .. Len(wq) + 1
      /\ \A i \in 1 .. Len(wq) : wq'[i] = wq[i]
      /\ wq'[Len(wq) + 1] = e
  BY <1>1, Shapes, Appended DEF PipeInv, e
<1>3. /\ cw' \in Seq(PipeMessage) /\ Len(cw') = Len(cw) + 1 /\ Len(cw) \in Nat
      /\ DOMAIN cw = 1 .. Len(cw) /\ DOMAIN cw' = 1 .. Len(cw) + 1
      /\ \A i \in 1 .. Len(cw) : cw'[i] = cw[i]
      /\ cw'[Len(cw) + 1] = m
  BY Shapes, Appended DEF PipeInv
<1>4. ddr' \in [Block -> BOOLEAN] /\ \A c \in Block : c # b => ddr'[c] = ddr[c]
  BY DEF PipeInv, TypeOK
<1>5. Len(cw') = acks' + Len(wq') /\ \A i \in DOMAIN wq' : wq'[i].block = cw'[acks' + i].block
  <2>1. Len(cw) = acks + Len(wq) /\ acks \in Nat
    BY DEF PipeInv, Joined, TypeOK
  <2>2. ASSUME NEW i \in DOMAIN wq' PROVE wq'[i].block = cw'[acks + i].block
    <3>1. CASE i \in DOMAIN wq
      <4>1. wq[i].block = cw[acks + i].block /\ acks + i \in DOMAIN cw
        BY <3>1, Written
      <4> QED BY <1>2, <1>3, <3>1, <4>1
    <3>2. CASE i = Len(wq) + 1
      <4>1. acks + i = Len(cw) + 1
        BY <1>2, <2>1, <3>2
      <4> QED BY <1>1, <1>2, <1>3, <3>2, <4>1
    <3>3. i \in 1 .. Len(wq) \/ i = Len(wq) + 1
      BY <1>2
    <3> QED BY <1>2, <3>1, <3>2, <3>3
  <2> QED BY <1>2, <1>3, <2>1, <2>2
<1>6. Newest'
  <2>1. \A i \in DOMAIN wq' : wq'[i].fresh
    BY <1>1, <1>2 DEF PipeInv, Newest
  <2>2. ASSUME NEW c \in Block \ toInit' PROVE ddr'[c] \/ \E i \in DOMAIN wq' : wq'[i].block = c
    <3>1. CASE c = b
      <4>1. Len(wq) + 1 \in DOMAIN wq' /\ wq'[Len(wq) + 1].block = b
        BY <1>1, <1>2
      <4> QED BY <3>1, <4>1
    <3>2. CASE c # b
      <4>1. ddr[c] \/ \E i \in DOMAIN wq : wq[i].block = c
        BY <3>2 DEF PipeInv, Newest
      <4> QED BY <1>2, <1>4, <3>2, <4>1
    <3> QED BY <3>1, <3>2
  <2> QED BY <2>1, <2>2 DEF Newest
<1>7. \A i, j \in DOMAIN cw' : i # j => cw'[i].block # cw'[j].block
  BY <1>3 DEF PipeInv, Locked
<1> QED BY <1>2, <1>3, <1>4, <1>5, <1>6, <1>7

LEMMA StepInitDir ==
  ASSUME PipeInv, NEW b \in Block, InitDir(b)
  PROVE  PipeInv'
<1> DEFINE m == [block |-> b, mtype |-> "INIT_DIR"]
<1>1. /\ b \in toInit /\ toInit' = toInit \ {b} /\ WriteBack(b, m, rd)
      /\ UNCHANGED <<table, retry, source, rq, busy, acks>>
  BY DEF InitDir
<1>2. m \in PipeMessage /\ m.block = b /\ m.mtype = "INIT_DIR"
  BY DEF PipeMessage
<1> HIDE DEF m
<1>3. Initialising
  BY <1>1 DEF Initialising
<1>4. \A j \in DOMAIN cw : cw[j].block # b
  BY <1>1 DEF PipeInv, Locked
<1>5. \A i \in DOMAIN wq : wq[i].block # b
  BY <1>4, Written
<1>6. rd \in Seq(PipeRead) /\ \A i \in DOMAIN rd : rd[i].block # b
  BY <1>3, Unlocked, Shapes DEF PipeInv
<1>7. /\ wq' = Append(wq, [block |-> b, fresh |-> TRUE]) /\ cw' = Append(cw, m)
      /\ ddr' = [ddr EXCEPT ![b] = FALSE] /\ rd' = rd
  BY <1>1, <1>2, <1>5, <1>6, WrittenBack
<1>8. /\ wq' \in Seq(PipeWrite) /\ cw' \in Seq(PipeMessage) /\ ddr' \in [Block -> BOOLEAN]
      /\ DOMAIN cw = 1 .. Len(cw) /\ DOMAIN cw' = 1 .. Len(cw) + 1 /\ Len(cw) \in Nat
      /\ \A j \in DOMAIN cw : cw'[j] = cw[j]
      /\ cw'[Len(cw) + 1] = m
      /\ Len(cw') = acks' + Len(wq') /\ \A i \in DOMAIN wq' : wq'[i].block = cw'[acks' + i].block
      /\ Newest'
      /\ \A i, j \in DOMAIN cw' : i # j => cw'[i].block # cw'[j].block
  BY <1>1, <1>2, <1>4, <1>7, Behind
<1>9. TypeOK'
  BY <1>1, <1>7, <1>8 DEF PipeInv, TypeOK, PipeMessage, PipeWrite
<1>10. Joined' /\ NoStaleEntry'
  BY <1>1, <1>7, <1>8 DEF PipeInv, Joined, NoStaleEntry
<1>11. DOMAIN rq' = {} /\ rq' = <<>> /\ \A k \in Bucket : table'[k] = none
  BY <1>1, <1>3, Unlocked
<1>12. \A j \in DOMAIN cw' : cw'[j].mtype = "INIT_DIR"
  BY <1>2, <1>3, <1>8 DEF PipeInv, Starting
<1>13. Locked'
  <2>1. \A j \in DOMAIN cw' : cw'[j].block \notin toInit'
    BY <1>1, <1>2, <1>8 DEF PipeInv, Locked
  <2> QED BY <1>8, <1>11, <1>12, <2>1 DEF Locked
<1>14. Used' /\ Starting'
  BY <1>11, <1>12 DEF Used, Starting
<1> QED BY <1>8, <1>9, <1>10, <1>13, <1>14 DEF PipeInv

LEMMA StepHandle ==
  ASSUME PipeInv, NEW copying \in BOOLEAN, Handle(copying)
  PROVE  PipeInv'
<1> DEFINE b == rq[1]
           m == [block |-> b, mtype |-> "message"]
<1>1. /\ rq # <<>> /\ rd # <<>> /\ rq' = Tail(rq)
      /\ WriteBack(Head(rd).block, [block |-> Head(rq), mtype |-> "message"], Tail(rd))
      /\ busy' = copying
      /\ UNCHANGED <<toInit, table, retry, source, acks>>
  BY DEF Handle
<1>2. /\ rq' \in Seq(Block) /\ Len(rq') = Len(rq) - 1 /\ Len(rq) \in Nat \ {0}
      /\ DOMAIN rq = 1 .. Len(rq) /\ DOMAIN rq' = 1 .. Len(rq) - 1
      /\ \A i \in 1 .. Len(rq) - 1 : rq'[i] = rq[i + 1]
      /\ Head(rq) = b /\ b \in Block
  BY <1>1, Shapes, Tailed DEF PipeInv
<1>3. /\ Tail(rd) \in Seq(PipeRead) /\ Len(Tail(rd)) = Len(rd) - 1
      /\ DOMAIN rd = 1 .. Len(rd) /\ DOMAIN Tail(rd) = 1 .. Len(rd) - 1
      /\ \A i \in 1 .. Len(rd) - 1 : Tail(rd)[i] = rd[i + 1]
      /\ Head(rd) = rd[1]
  BY <1>1, Shapes, Tailed DEF PipeInv
<1>4. Len(rq) = Len(rd) /\ \A i \in DOMAIN rq : rq[i] = rd[i].block
  BY DEF PipeInv, Joined
<1>5. 1 \in DOMAIN rq /\ rd[1].block = b
  BY <1>2, <1>4
<1>6. m \in PipeMessage /\ m.block = b /\ m.mtype # "INIT_DIR" /\ WriteBack(b, m, Tail(rd))
  BY <1>1, <1>2, <1>3, <1>5 DEF PipeMessage
<1> HIDE DEF m
<1>7. \A i \in DOMAIN wq : wq[i].block # b
  BY <1>5, NotWritten
<1>8. \A i \in DOMAIN rq' : i + 1 \in DOMAIN rq /\ i + 1 # 1 /\ rq'[i] = rq[i + 1] /\ rq'[i] # b
                            /\ Tail(rd)[i] = rd[i + 1] /\ rd[i + 1].block = rq[i + 1]
  <2>1. \A i \in DOMAIN rq' : i + 1 \in DOMAIN rq /\ i + 1 # 1 /\ rq'[i] = rq[i + 1] /\ Tail(rd)[i] = rd[i + 1]
    BY <1>2, <1>3, <1>4
  <2>2. \A i \in DOMAIN rq : i # 1 => rq[i] # b
    BY <1>5 DEF PipeInv, Locked
  <2> QED BY <1>4, <2>1, <2>2
<1>9. \A i \in DOMAIN Tail(rd) : Tail(rd)[i].block # b
  BY <1>2, <1>3, <1>4, <1>8
<1>10. \A j \in DOMAIN cw : cw[j].block # b /\ cw[j].mtype # "INIT_DIR"
  BY <1>1, <1>5, Started DEF PipeInv, Locked
<1>11. /\ wq' = Append(wq, [block |-> b, fresh |-> TRUE]) /\ cw' = Append(cw, m)
       /\ ddr' = [ddr EXCEPT ![b] = FALSE] /\ rd' = Tail(rd)
  <2> DEFINE reads == Tail(rd)
  <2>1. reads \in Seq(PipeRead) /\ WriteBack(b, m, reads) /\ \A i \in DOMAIN reads : reads[i].block # b
    BY <1>3, <1>6, <1>9
  <2> HIDE DEF reads
  <2>2. /\ wq' = Append(wq, [block |-> b, fresh |-> TRUE]) /\ cw' = Append(cw, m)
        /\ ddr' = [ddr EXCEPT ![b] = FALSE] /\ rd' = reads
    BY <1>2, <1>6, <1>7, <2>1, WrittenBack
  <2> QED BY <2>2 DEF reads
<1>12. /\ wq' \in Seq(PipeWrite) /\ cw' \in Seq(PipeMessage) /\ ddr' \in [Block -> BOOLEAN]
       /\ DOMAIN cw = 1 .. Len(cw) /\ DOMAIN cw' = 1 .. Len(cw) + 1 /\ Len(cw) \in Nat
       /\ \A j \in DOMAIN cw : cw'[j] = cw[j]
       /\ cw'[Len(cw) + 1] = m
       /\ Len(cw') = acks' + Len(wq') /\ \A i \in DOMAIN wq' : wq'[i].block = cw'[acks' + i].block
       /\ Newest'
       /\ \A i, j \in DOMAIN cw' : i # j => cw'[i].block # cw'[j].block
  BY <1>1, <1>2, <1>6, <1>10, <1>11, Behind
<1>13. TypeOK'
  BY <1>1, <1>2, <1>3, <1>11, <1>12 DEF PipeInv, TypeOK, PipeMessage, PipeWrite, PipeRead
<1>14. Joined'
  <2>1. Len(rq') = Len(rd')
    BY <1>2, <1>3, <1>4, <1>11
  <2>2. \A i \in DOMAIN rq' : rq'[i] = rd'[i].block
    BY <1>8, <1>11
  <2> QED BY <1>12, <2>1, <2>2 DEF Joined
<1>15. NoStaleEntry'
  <2>1. \A i \in DOMAIN Tail(rd) : Tail(rd)[i].val # "stale"
    BY <1>3 DEF PipeInv, NoStaleEntry
  <2> QED BY <1>11, <2>1 DEF NoStaleEntry
<1>16. Locked'
  <2>1. \A i \in DOMAIN rq' : table[BucketOf[rq'[i]]] = rq'[i]
    BY <1>8 DEF PipeInv, Locked
  <2>2. table[BucketOf[b]] = b
    BY <1>5 DEF PipeInv, Locked
  <2>3. \A i \in DOMAIN cw' : table[BucketOf[cw'[i].block]] = cw'[i].block
    BY <1>6, <1>10, <1>12, <2>2 DEF PipeInv, Locked
  <2>4. \A i, j \in DOMAIN rq' : i # j => rq'[i] # rq'[j]
    <3>1. \A i, j \in DOMAIN rq' : i # j => i + 1 # j + 1
      BY <1>2
    <3> QED BY <1>8, <3>1 DEF PipeInv, Locked
  <2>5. \A i \in DOMAIN rq', j \in DOMAIN cw' : rq'[i] # cw'[j].block
    BY <1>6, <1>8, <1>12 DEF PipeInv, Locked
  <2>6. \A j \in DOMAIN cw' : cw'[j].block \notin toInit'
    BY <1>1, Started
  <2> QED BY <1>1, <1>12, <2>1, <2>3, <2>4, <2>5, <2>6 DEF Locked
<1>17. Used'
  <2> SUFFICES ASSUME NEW k \in Bucket, table[k] # none
               PROVE  /\ BucketOf[table[k]] = k
                      /\ \/ \E i \in DOMAIN rq' : rq'[i] = table[k]
                         \/ \E j \in DOMAIN cw' : cw'[j].mtype # "INIT_DIR" /\ cw'[j].block = table[k]
    BY <1>1 DEF Used
  <2>1. BucketOf[table[k]] = k
    BY DEF PipeInv, Used
  <2>2. ASSUME NEW i \in DOMAIN rq, rq[i] = table[k]
        PROVE  \/ \E l \in DOMAIN rq' : rq'[l] = table[k]
               \/ \E j \in DOMAIN cw' : cw'[j].mtype # "INIT_DIR" /\ cw'[j].block = table[k]
    <3>1. CASE i = 1
      BY <1>6, <1>12, <2>2, <3>1
    <3>2. CASE i # 1
      <4>1. i - 1 \in DOMAIN rq' /\ (i - 1) + 1 = i
        BY <1>2, <3>2
      <4> QED BY <1>8, <2>2, <4>1
    <3> QED BY <3>1, <3>2
  <2>3. (\E j \in DOMAIN cw : cw[j].mtype # "INIT_DIR" /\ cw[j].block = table[k])
        => \E j \in DOMAIN cw' : cw'[j].mtype # "INIT_DIR" /\ cw'[j].block = table[k]
    BY <1>12
  <2> QED BY <2>1, <2>2, <2>3 DEF PipeInv, Used
<1>18. Starting'
  <2>1. toInit' = {} /\ \A j \in DOMAIN cw' : cw'[j].mtype # "INIT_DIR"
    <3>1. toInit = {}
      BY <1>1, Started
    <3>2. \A j \in DOMAIN cw' : j \in DOMAIN cw \/ j = Len(cw) + 1
      BY <1>12
    <3>3. \A j \in DOMAIN cw' : cw'[j].mtype # "INIT_DIR"
      BY <1>6, <1>10, <1>12, <3>2
    <3> QED BY <1>1, <3>1, <3>3
  <2> QED BY <2>1 DEF Starting, Initialising
<1> QED BY <1>12, <1>13, <1>14, <1>15, <1>16, <1>17, <1>18 DEF PipeInv

LEMMA PipeStep == PipeInv /\ [Next]_vars => PipeInv'
<1> SUFFICES ASSUME PipeInv, [Next]_vars PROVE PipeInv'
  OBVIOUS
<1>1. CASE UnlockTurn BY <1>1, StepUnlock
<1>2. CASE IdleTurn \/ CopyEnd \/ UNCHANGED vars BY <1>2, StepIdle
<1>3. ASSUME NEW b \in Block, LockTurn(b) PROVE PipeInv' BY <1>3, StepLock
<1>4. CASE DdrWrite BY <1>4, StepWrite
<1>5. ASSUME NEW i \in DOMAIN rd, DdrRead(i) PROVE PipeInv' BY <1>5, StepRead
<1>6. ASSUME NEW b \in Block, InitDir(b) PROVE PipeInv' BY <1>6, StepInitDir
<1>7. ASSUME NEW copying \in BOOLEAN, Handle(copying) PROVE PipeInv' BY <1>7, StepHandle
<1> QED BY <1>1, <1>2, <1>3, <1>4, <1>5, <1>6, <1>7 DEF Next

\* The blocks of the messages under way are different, and so are their buckets: there
\* are no more of them than buckets.
LEMMA PipeLocks == PipeInv => LocksMatch
<1> SUFFICES ASSUME PipeInv PROVE LocksMatch
  OBVIOUS
<1>1. \A u \in UnderWay : \/ u = <<"r", u[2]>> /\ u[1] = "r" /\ u[2] \in DOMAIN rq
                          \/ u = <<"w", u[2]>> /\ u[1] = "w" /\ u[2] \in DOMAIN cw /\ cw[u[2]].mtype # "INIT_DIR"
  BY DEF UnderWay
<1>2. \A u \in UnderWay : BlockAt(u) \in Block /\ table[BucketOf[BlockAt(u)]] = BlockAt(u)
  BY <1>1, Shapes DEF BlockAt, PipeInv, Locked
<1>3. \A u, v \in UnderWay : u # v => BlockAt(u) # BlockAt(v)
  <2> SUFFICES ASSUME NEW u \in UnderWay, NEW v \in UnderWay, u # v PROVE BlockAt(u) # BlockAt(v)
    OBVIOUS
  <2>1. CASE u[1] = "r" /\ v[1] = "r"
    BY <1>1, <2>1 DEF BlockAt, PipeInv, Locked
  <2>2. CASE u[1] = "w" /\ v[1] = "w"
    BY <1>1, <2>2 DEF BlockAt, PipeInv, Locked
  <2>3. CASE u[1] # v[1]
    BY <1>1, <2>3 DEF BlockAt, PipeInv, Locked
  <2> QED BY <1>1, <2>1, <2>2, <2>3
<1>4. LockHeld
  BY <1>2, <1>3 DEF LockHeld
<1>5. NoLockLeft
  <2> SUFFICES ASSUME NEW k \in Bucket, table[k] # none PROVE \E u \in UnderWay : BlockAt(u) = table[k]
    BY DEF NoLockLeft
  <2>1. ASSUME NEW i \in DOMAIN rq, rq[i] = table[k] PROVE \E u \in UnderWay : BlockAt(u) = table[k]
    <3>1. <<"r", i>> \in UnderWay /\ BlockAt(<<"r", i>>) = rq[i]
      BY DEF UnderWay, BlockAt
    <3> QED BY <2>1, <3>1
  <2>2. ASSUME NEW j \in DOMAIN cw, cw[j].mtype # "INIT_DIR", cw[j].block = table[k]
        PROVE  \E u \in UnderWay : BlockAt(u) = table[k]
    <3>1. <<"w", j>> \in UnderWay /\ BlockAt(<<"w", j>>) = cw[j].block
      BY <2>2 DEF UnderWay, BlockAt
    <3> QED BY <2>2, <3>1
  <2> QED BY <2>1, <2>2 DEF PipeInv, Used
<1>6. StreamsFit
  <2> DEFINE f == [u \in UnderWay |-> BucketOf[BlockAt(u)]]
  <2>1. \A u \in UnderWay : BucketOf[BlockAt(u)] \in Bucket
    BY <1>2, PipelineAssumption
  <2>2. \A u, v \in UnderWay : u # v => BucketOf[BlockAt(u)] # BucketOf[BlockAt(v)]
    BY <1>2, <1>3
  <2>3. f \in Injection(UnderWay, Bucket)
    BY <2>1, <2>2 DEF Injection, IsInjective
  <2> QED BY <2>3, FS_Injection, PipelineAssumption DEF StreamsFit
<1> QED BY <1>4, <1>5, <1>6 DEF LocksMatch

------------------------------------------------------------------------------
\* The streams, the lock table and the DDR keep their types.
THEOREM PipelineTypeCorrect == Spec => []TypeOK
<1>1. PipeInv => TypeOK
  BY DEF PipeInv
<1> QED BY <1>1, PipeInit, PipeStep, PTL DEF Spec

\* dirCtrlHLS_to_net, which joins its streams by position, always joins a message
\* with the entry of its own block, and an acknowledgement always unlocks the block that
\* was written, for any number of blocks and buckets.
THEOREM PipelineJoined == Spec => []Joined
<1>1. PipeInv => Joined
  BY DEF PipeInv
<1> QED BY <1>1, PipeInit, PipeStep, PTL DEF Spec

\* The handler is never given an entry that misses the result of an earlier message,
\* in whatever order the DDR reads and writes: the lock is held from the read to the
\* acknowledgement of the write.
THEOREM PipelineNoStaleEntry == Spec => []NoStaleEntry
<1>1. PipeInv => NoStaleEntry
  BY DEF PipeInv
<1> QED BY <1>1, PipeInit, PipeStep, PTL DEF Spec

\* The lock table of dirCtrlHLS_from_net says exactly which messages are under way; so
\* no lock is lost or left, and there are never more messages than buckets.
THEOREM PipelineLocksMatch == Spec => []LocksMatch
BY PipeLocks, PipeInit, PipeStep, PTL DEF Spec

------------------------------------------------------------------------------
(* The arbiter in front of the DMA engine.  Commands and beats side by side: *)
(* the engine pairs them by position, so the invariant pairs them so too.    *)

\* Beats D are those of the packets C one after the other, from beat u + 1 of the
\* first on.  Beat i belongs to packet k[i] and is beat q[i] of it; the beat that
\* comes after the last of D is beat p of the last packet, or p is 0 and the last
\* packet is complete.
Paired(k, q, C, D, u, p) ==
  /\ k \in [1 .. Len(D) + 1 -> 1 .. Len(C) + 1] /\ q \in [1 .. Len(D) + 1 -> 1 .. Beats]
  /\ k[1] = 1 /\ q[1] = u + 1
  /\ \A i, j \in 1 .. Len(D) + 1 : i <= j => k[i] <= k[j]
  /\ \A i \in 1 .. Len(D) :
       /\ k[i] <= Len(C) /\ q[i] <= Length(C[k[i]].src)
       /\ D[i] = [pkt |-> C[k[i]], pos |-> q[i]]
       /\ IF q[i] = Length(C[k[i]].src) THEN k[i + 1] = k[i] + 1 /\ q[i + 1] = 1
          ELSE k[i + 1] = k[i] /\ q[i + 1] = q[i] + 1
  /\ IF p = 0 THEN k[Len(D) + 1] = Len(C) + 1 /\ q[Len(D) + 1] = 1
     ELSE k[Len(D) + 1] = Len(C) /\ q[Len(D) + 1] = p /\ p <= Length(C[Len(C)].src)

Stream(C, D, u, p) ==
  \E k \in [1 .. Len(D) + 1 -> 1 .. Len(C) + 1], q \in [1 .. Len(D) + 1 -> 1 .. Beats] :
    Paired(k, q, C, D, u, p)

\* The packets whose beats are in dat[s]: the one within a burst has given its
\* command away.
Waiting(s, u) == IF u # 0 /\ burst = s THEN <<cmdOut[Len(cmdOut)]>> \o cmd[s] ELSE cmd[s]

\* The beats of D are those of W, packets of source s; while the last packet is
\* written, up to beat p, it has the number m.
SourceOK(s, W, D, v, p, m) ==
  /\ Stream(W, D, v, p)
  /\ \A i \in DOMAIN W : W[i].src = s
  /\ p > 0 => W[Len(W)].num = m
  /\ s # 2 => p = 0

\* u beats of the current packet have gone through.
Flow(u) ==
  /\ endFlag <=> u = 0
  /\ Stream(cmdOut, datOut, left, IF u = 0 THEN 0 ELSE u + 1)
  /\ \A s \in Source :
       SourceOK(s, Waiting(s, u), dat[s], IF u # 0 /\ burst = s THEN u ELSE 0, part[s], made[s])

\* What the source will number next comes after packet x.
Expected(x, m, p) == m = IF p > 0 THEN x.num ELSE (x.num + 1) % Round

\* The packets of source s in O, then those in c, then the next one of the source.
NumbersOK(s, O, c, m, p) ==
  /\ \A i, j \in DOMAIN O :
       /\ i < j /\ O[i].src = s /\ O[j].src = s
       /\ \A k \in i + 1 .. j - 1 : O[k].src # s
       => Succeeds(O[j], O[i])
  /\ \A i \in DOMAIN O :
       O[i].src = s /\ (\A j \in DOMAIN O : j > i => O[j].src # s) =>
         IF c # <<>> THEN Succeeds(c[1], O[i]) ELSE Expected(O[i], m, p)
  /\ \A i \in 1 .. Len(c) - 1 : Succeeds(c[i + 1], c[i])
  /\ c # <<>> => Expected(c[Len(c)], m, p)

Numbered == \A s \in Source : NumbersOK(s, cmdOut, cmd[s], made[s], part[s])

\* The index names a source within a packet, and what it says of the sources that wait.
Index == (endFlag \/ idx \in Source) /\ StallOnlyWhenFull

DmaInv == DmaTypeOK /\ Index /\ Numbered /\ \E u \in 0 .. Beats - 1 : Flow(u)

------------------------------------------------------------------------------
(* What happens to the streams *)

LEMMA Sizes ==
  /\ Beats \in Nat /\ Beats >= 1 /\ Round \in Nat /\ Round > 2 /\ DmaDepth \in Nat
  /\ Wrap \in Nat /\ NoSource \in Nat /\ NoSource >= 3 /\ NoSource <= Wrap - 2
  /\ \A s : Length(s) \in 1 .. Beats
  /\ \A a \in Nat : a % Round \in 0 .. Round - 1
BY ArbiterAssumption DEF Length

\* Sequences without their first and with a new last element.
LEMMA Ends1 ==
  ASSUME NEW S, NEW c \in Seq(S)
  PROVE  /\ Len(c) \in Nat /\ DOMAIN c = 1 .. Len(c) /\ c \in [1 .. Len(c) -> S]
         /\ c # <<>> <=> Len(c) > 0
         /\ \A x \in S : /\ Append(c, x) \in Seq(S) /\ Len(Append(c, x)) = Len(c) + 1
                         /\ \A i \in 1 .. Len(c) : Append(c, x)[i] = c[i]
                         /\ Append(c, x)[Len(c) + 1] = x
         /\ c # <<>> => /\ Head(c) = c[1] /\ c[1] \in S /\ Tail(c) \in Seq(S)
                        /\ Len(Tail(c)) = Len(c) - 1
                        /\ \A i \in 1 .. Len(c) - 1 : Tail(c)[i] = c[i + 1]
<1>1. Len(c) \in Nat /\ DOMAIN c = 1 .. Len(c) /\ c \in [1 .. Len(c) -> S] /\ (c # <<>> <=> Len(c) > 0)
  BY LenProperties, EmptySeq
<1>2. ASSUME NEW x \in S
      PROVE  /\ Append(c, x) \in Seq(S) /\ Len(Append(c, x)) = Len(c) + 1
             /\ \A i \in 1 .. Len(c) : Append(c, x)[i] = c[i]
             /\ Append(c, x)[Len(c) + 1] = x
  BY AppendProperties
<1>3. c # <<>> => /\ Head(c) = c[1] /\ c[1] \in S /\ Tail(c) \in Seq(S)
                  /\ Len(Tail(c)) = Len(c) - 1
                  /\ \A i \in 1 .. Len(c) - 1 : Tail(c)[i] = c[i + 1]
  BY HeadTailProperties, <1>1
<1> QED BY <1>1, <1>2, <1>3

\* A command is written when the packet before it is complete.
LEMMA WriteCommand ==
  ASSUME NEW C \in Seq(Packet), NEW D \in Seq(Beat), NEW u, NEW x \in Packet, Stream(C, D, u, 0)
  PROVE  Stream(Append(C, x), D, u, 1)
<1>1. PICK k \in [1 .. Len(D) + 1 -> 1 .. Len(C) + 1], q \in [1 .. Len(D) + 1 -> 1 .. Beats] :
        Paired(k, q, C, D, u, 0)
  BY DEF Stream
<1> DEFINE E == Append(C, x)
<1>2. /\ Len(C) \in Nat /\ Len(D) \in Nat /\ Len(E) = Len(C) + 1
      /\ \A i \in 1 .. Len(C) : E[i] = C[i]
  BY Ends1
<1>3. E[Len(E)].src \in Source /\ 1 <= Length(E[Len(E)].src)
  <2>1. E[Len(E)] = x
    BY Ends1, <1>2
  <2>2. x.src \in Source
    BY DEF Packet
  <2>3. Length(x.src) \in 1 .. Beats
    BY Sizes
  <2> QED BY <2>1, <2>2, <2>3, Sizes
<1> HIDE DEF E
<1>4. k \in [1 .. Len(D) + 1 -> 1 .. Len(E) + 1]
  BY <1>2
<1>5. Paired(k, q, E, D, u, 1)
  <2>1. ASSUME NEW i \in 1 .. Len(D) PROVE k[i] \in 1 .. Len(C) /\ E[k[i]] = C[k[i]]
    <3>0. k[i] <= Len(C)
      BY <1>1 DEF Paired
    <3>1. i \in 1 .. Len(D) + 1 /\ k[i] <= Len(C)
      BY <1>2, <3>0
    <3>2. k[i] \in 1 .. Len(C) + 1
      BY <3>1
    <3>3. k[i] \in 1 .. Len(C)
      BY <1>2, <3>1, <3>2
    <3> QED BY <1>2, <3>3
  <2>2. /\ q \in [1 .. Len(D) + 1 -> 1 .. Beats] /\ k[1] = 1 /\ q[1] = u + 1
        /\ \A i, j \in 1 .. Len(D) + 1 : i <= j => k[i] <= k[j]
    BY <1>1 DEF Paired
  <2>3. ASSUME NEW i \in 1 .. Len(D)
        PROVE  /\ k[i] <= Len(E) /\ q[i] <= Length(E[k[i]].src)
               /\ D[i] = [pkt |-> E[k[i]], pos |-> q[i]]
               /\ IF q[i] = Length(E[k[i]].src) THEN k[i + 1] = k[i] + 1 /\ q[i + 1] = 1
                  ELSE k[i + 1] = k[i] /\ q[i + 1] = q[i] + 1
    <3>1. k[i] \in 1 .. Len(C) /\ E[k[i]] = C[k[i]]
      BY <2>1
    <3>2. k[i] <= Len(E)
      BY <1>2, <3>1
    <3> QED BY <1>1, <3>1, <3>2 DEF Paired
  <2>4. k[Len(D) + 1] = Len(E) /\ q[Len(D) + 1] = 1
    BY <1>1, <1>2 DEF Paired
  <2> QED BY <1>3, <1>4, <2>2, <2>3, <2>4 DEF Paired
<1> QED BY <1>4, <1>5 DEF Stream, E

\* Beat p of the last packet is written.
LEMMA WriteBeat ==
  ASSUME NEW C \in Seq(Packet), NEW D \in Seq(Beat), NEW u, NEW p \in 1 .. Beats, Stream(C, D, u, p),
         NEW b \in Beat, b = [pkt |-> C[Len(C)], pos |-> p]
  PROVE  /\ C # <<>> /\ p <= Length(C[Len(C)].src)
         /\ Stream(C, Append(D, b), u, IF p = Length(C[Len(C)].src) THEN 0 ELSE p + 1)
<1>1. PICK k \in [1 .. Len(D) + 1 -> 1 .. Len(C) + 1], q \in [1 .. Len(D) + 1 -> 1 .. Beats] :
        Paired(k, q, C, D, u, p)
  BY DEF Stream
<1> DEFINE E == Append(D, b)
           n == Len(C)
           z == Length(C[Len(C)].src)
<1>2. /\ Len(C) \in Nat /\ Len(D) \in Nat /\ Len(E) = Len(D) + 1
      /\ \A i \in 1 .. Len(D) : E[i] = D[i]
      /\ E[Len(D) + 1] = [pkt |-> C[n], pos |-> p]
  BY Ends1
<1>3. /\ k[Len(D) + 1] = n /\ q[Len(D) + 1] = p /\ p <= z /\ z \in 1 .. Beats
      /\ n >= 1 /\ C # <<>> /\ \A i \in 1 .. Len(D) + 1 : k[i] \in 1 .. n
  <2>1. k[Len(D) + 1] = n /\ q[Len(D) + 1] = p /\ p <= z /\ z \in 1 .. Beats
    BY <1>1, Sizes DEF Paired
  <2>2. \A i \in 1 .. Len(D) + 1 : k[i] \in 1 .. n
    BY <1>1, <1>2, <2>1 DEF Paired
  <2>3. n >= 1
    <3>1. Len(D) + 1 \in 1 .. Len(D) + 1
      BY <1>2
    <3>2. n \in 1 .. n
      BY <2>1, <2>2, <3>1
    <3> QED BY <1>2, <3>2
  <2> QED BY <2>1, <2>2, <2>3, Ends1
<1> DEFINE r == IF p = z THEN 0 ELSE p + 1
           k1 == [i \in 1 .. Len(D) + 2 |-> IF i = Len(D) + 2 THEN (IF p = z THEN n + 1 ELSE n) ELSE k[i]]
           q1 == [i \in 1 .. Len(D) + 2 |-> IF i = Len(D) + 2 THEN (IF p = z THEN 1 ELSE p + 1) ELSE q[i]]
<1> HIDE DEF E, n, z
<1>4. k1 \in [1 .. Len(E) + 1 -> 1 .. n + 1] /\ q1 \in [1 .. Len(E) + 1 -> 1 .. Beats]
  <2>1. p # z => p + 1 \in 1 .. Beats
    BY <1>3, Sizes
  <2>2. Len(E) + 1 = Len(D) + 2 /\ 1 \in 1 .. Beats /\ n + 1 \in 1 .. n + 1 /\ n \in 1 .. n + 1
    <3>1. n \in Nat /\ n >= 1
      BY <1>2, <1>3 DEF n
    <3>2. Beats \in Nat /\ Beats >= 1
      BY Sizes
    <3> QED BY <1>2, <3>1, <3>2
  <2>3. \A i \in 1 .. Len(D) + 2 : i # Len(D) + 2 => i \in 1 .. Len(D) + 1
    BY <1>2
  <2> QED BY <1>3, <2>1, <2>2, <2>3 DEF n
<1>5. /\ \A i \in 1 .. Len(D) + 1 : k1[i] = k[i] /\ q1[i] = q[i]
      /\ k1[Len(D) + 2] = IF p = z THEN n + 1 ELSE n
      /\ q1[Len(D) + 2] = IF p = z THEN 1 ELSE p + 1
  BY <1>2
<1> HIDE DEF k1, q1
<1>6. Paired(k1, q1, C, E, u, r)
  <2>1. k1[1] = 1 /\ q1[1] = u + 1
    BY <1>1, <1>2, <1>5 DEF Paired
  <2>2. \A i, j \in 1 .. Len(E) + 1 : i <= j => k1[i] <= k1[j]
    <3> SUFFICES ASSUME NEW i \in 1 .. Len(D) + 2, NEW j \in 1 .. Len(D) + 2, i <= j PROVE k1[i] <= k1[j]
      BY <1>2
    <3>1. CASE j \in 1 .. Len(D) + 1
      BY <1>1, <1>2, <1>5, <3>1 DEF Paired
    <3>2. CASE j = Len(D) + 2 /\ i \in 1 .. Len(D) + 1
      BY <1>3, <1>5, <3>2
    <3>3. CASE i = Len(D) + 2
      BY <1>2, <1>3, <1>5, <3>3, SMTT(30)
    <3> QED BY <1>2, <3>1, <3>2, <3>3
  <2>3. ASSUME NEW i \in 1 .. Len(E)
        PROVE  /\ k1[i] <= Len(C) /\ q1[i] <= Length(C[k1[i]].src)
               /\ E[i] = [pkt |-> C[k1[i]], pos |-> q1[i]]
               /\ IF q1[i] = Length(C[k1[i]].src) THEN k1[i + 1] = k1[i] + 1 /\ q1[i + 1] = 1
                  ELSE k1[i + 1] = k1[i] /\ q1[i + 1] = q1[i] + 1
    <3>1. CASE i \in 1 .. Len(D)
      <4>1. i + 1 \in 1 .. Len(D) + 1 /\ i \in 1 .. Len(D) + 1 /\ E[i] = D[i]
        BY <1>2, <3>1
      <4>2. k1[i] = k[i] /\ q1[i] = q[i] /\ k1[i + 1] = k[i + 1] /\ q1[i + 1] = q[i + 1]
        BY <1>5, <4>1
      <4> QED BY <1>1, <3>1, <4>1, <4>2 DEF Paired
    <3>2. CASE i = Len(D) + 1
      <4>1. k1[i] = n /\ q1[i] = p /\ i + 1 = Len(D) + 2 /\ i \in 1 .. Len(D) + 1
        BY <1>2, <1>3, <1>5, <3>2
      <4>2. E[i] = [pkt |-> C[n], pos |-> p]
        BY <1>2, <3>2
      <4>3. Length(C[n].src) = z
        BY DEF z, n
      <4> QED BY <1>3, <1>5, <4>1, <4>2, <4>3, SMTT(30) DEF n
    <3> QED BY <1>2, <3>1, <3>2
  <2>4. IF r = 0 THEN k1[Len(E) + 1] = Len(C) + 1 /\ q1[Len(E) + 1] = 1
        ELSE k1[Len(E) + 1] = Len(C) /\ q1[Len(E) + 1] = r /\ r <= Length(C[Len(C)].src)
    <3>1. Len(E) + 1 = Len(D) + 2
      BY <1>2
    <3>2. r = 0 <=> p = z
      OBVIOUS
    <3>3. p # z => p + 1 <= z
      BY <1>3
    <3> QED BY <1>5, <3>1, <3>2, <3>3 DEF n, z
  <2> QED BY <1>4, <2>1, <2>2, <2>3, <2>4 DEF Paired, n
<1>7. Stream(C, E, u, r)
  BY <1>4, <1>6 DEF Stream, n
<1> QED BY <1>3, <1>7 DEF E, z

\* A beat is taken, and with the last beat of a packet its command.
LEMMA TakeBeat ==
  ASSUME NEW C \in Seq(Packet), NEW D \in Seq(Beat), NEW u, NEW p, Stream(C, D, u, p), D # <<>>
  PROVE  /\ C # <<>> /\ D[1] = [pkt |-> C[1], pos |-> u + 1] /\ u + 1 \in 1 .. Beats
         /\ D[1].pos <= Length(D[1].pkt.src)
         /\ IF IsLast(D[1]) THEN Stream(Tail(C), Tail(D), 0, p) ELSE Stream(C, Tail(D), u + 1, p)
<1>1. PICK k \in [1 .. Len(D) + 1 -> 1 .. Len(C) + 1], q \in [1 .. Len(D) + 1 -> 1 .. Beats] :
        Paired(k, q, C, D, u, p)
  BY DEF Stream
<1> DEFINE E == Tail(D)
<1>2. /\ Len(C) \in Nat /\ Len(D) \in Nat /\ Len(D) >= 1 /\ Len(E) = Len(D) - 1
      /\ \A i \in 1 .. Len(D) - 1 : E[i] = D[i + 1]
  BY Ends1
<1> HIDE DEF E
<1>3. /\ k[1] = 1 /\ q[1] = u + 1 /\ Len(C) >= 1 /\ D[1] = [pkt |-> C[1], pos |-> u + 1]
      /\ u + 1 <= Length(C[1].src) /\ u + 1 \in 1 .. Beats
  BY <1>1, <1>2 DEF Paired
<1>4. C # <<>> /\ (IsLast(D[1]) <=> q[1] = Length(C[k[1]].src))
  BY <1>2, <1>3, Ends1 DEF IsLast
<1> DEFINE q1 == [i \in 1 .. Len(D) |-> q[i + 1]]
<1>5. q1 \in [1 .. Len(E) + 1 -> 1 .. Beats] /\ \A i \in 1 .. Len(D) : q1[i] = q[i + 1]
  BY <1>2
<1> HIDE DEF q1
<1>6. CASE IsLast(D[1])
  <2> DEFINE B == Tail(C)
             k1 == [i \in 1 .. Len(D) |-> k[i + 1] - 1]
  <2>1. Len(B) = Len(C) - 1 /\ \A i \in 1 .. Len(C) - 1 : B[i] = C[i + 1]
    BY <1>4, Ends1
  <2> HIDE DEF B
  <2>2. k[2] = 2 /\ q[2] = 1
    BY <1>1, <1>2, <1>3, <1>4, <1>6 DEF Paired
  <2>3. ASSUME NEW i \in 1 .. Len(D) PROVE k[i + 1] \in 2 .. Len(C) + 1
    <3>1. 2 \in 1 .. Len(D) + 1 /\ i + 1 \in 1 .. Len(D) + 1 /\ 2 <= i + 1
      BY <1>2
    <3>2. k[2] <= k[i + 1]
      BY <1>1, <3>1 DEF Paired
    <3>3. k[i + 1] \in 1 .. Len(C) + 1
      BY <3>1
    <3> QED BY <1>2, <2>2, <3>2, <3>3
  <2>4. k1 \in [1 .. Len(E) + 1 -> 1 .. Len(B) + 1] /\ \A i \in 1 .. Len(D) : k1[i] = k[i + 1] - 1
    BY <1>2, <2>1, <2>3
  <2> HIDE DEF k1
  <2>5. Paired(k1, q1, B, E, 0, p)
    <3>1. k1[1] = 1 /\ q1[1] = 0 + 1
      BY <1>2, <1>5, <2>2, <2>4
    <3>2. \A i, j \in 1 .. Len(E) + 1 : i <= j => k1[i] <= k1[j]
      <4> SUFFICES ASSUME NEW i \in 1 .. Len(D), NEW j \in 1 .. Len(D), i <= j PROVE k1[i] <= k1[j]
        BY <1>2
      <4>1. k[i + 1] <= k[j + 1]
        BY <1>1, <1>2 DEF Paired
      <4> QED BY <2>3, <2>4, <4>1
    <3>3. ASSUME NEW i \in 1 .. Len(E)
          PROVE  /\ k1[i] <= Len(B) /\ q1[i] <= Length(B[k1[i]].src)
                 /\ E[i] = [pkt |-> B[k1[i]], pos |-> q1[i]]
                 /\ IF q1[i] = Length(B[k1[i]].src) THEN k1[i + 1] = k1[i] + 1 /\ q1[i + 1] = 1
                    ELSE k1[i + 1] = k1[i] /\ q1[i + 1] = q1[i] + 1
      <4> DEFINE j == i + 1
      <4>1. j \in 1 .. Len(D) /\ i \in 1 .. Len(D) - 1 /\ i \in 1 .. Len(D) /\ j + 1 \in 1 .. Len(D) + 1
        BY <1>2
      <4>2. /\ k[j] <= Len(C) /\ q[j] <= Length(C[k[j]].src)
            /\ D[j] = [pkt |-> C[k[j]], pos |-> q[j]]
            /\ IF q[j] = Length(C[k[j]].src) THEN k[j + 1] = k[j] + 1 /\ q[j + 1] = 1
               ELSE k[j + 1] = k[j] /\ q[j + 1] = q[j] + 1
        BY <1>1, <4>1 DEF Paired
      <4>3. k1[i] = k[j] - 1 /\ k1[i + 1] = k[j + 1] - 1 /\ q1[i] = q[j] /\ q1[i + 1] = q[j + 1]
        BY <1>5, <2>4, <4>1
      <4>4. k[j] \in 2 .. Len(C) + 1 /\ k[j + 1] \in 2 .. Len(C) + 1
        BY <2>3, <4>1
      <4>5. k[j] - 1 \in 1 .. Len(C) - 1 /\ B[k[j] - 1] = C[k[j]]
        <5>1. k[j] \in Nat /\ k[j] >= 2 /\ k[j] <= Len(C)
          BY <1>2, <4>2, <4>4
        <5>2. k[j] - 1 \in 1 .. Len(C) - 1 /\ (k[j] - 1) + 1 = k[j]
          BY <1>2, <5>1
        <5> QED BY <2>1, <5>2
      <4> HIDE DEF j
      <4>6. E[i] = D[j]
        BY <1>2, <4>1 DEF j
      <4>7. k1[i] = k[j] - 1 /\ k1[i] <= Len(B) /\ B[k1[i]] = C[k[j]]
        BY <1>2, <2>1, <4>3, <4>5
      <4>8. k[j + 1] = k[j] + 1 => k1[i + 1] = k1[i] + 1
        BY <1>2, <4>3, <4>4
      <4>9. k[j + 1] = k[j] => k1[i + 1] = k1[i]
        BY <4>3
      <4> QED BY <4>2, <4>3, <4>6, <4>7, <4>8, <4>9
    <3>4. IF p = 0 THEN k1[Len(E) + 1] = Len(B) + 1 /\ q1[Len(E) + 1] = 1
          ELSE k1[Len(E) + 1] = Len(B) /\ q1[Len(E) + 1] = p /\ p <= Length(B[Len(B)].src)
      <4>1. k1[Len(E) + 1] = k[Len(D) + 1] - 1 /\ q1[Len(E) + 1] = q[Len(D) + 1]
        BY <1>2, <1>5, <2>4
      <4>2. k[Len(D) + 1] \in 2 .. Len(C) + 1
        BY <1>2, <2>3
      <4>3. CASE p = 0
        BY <1>1, <1>2, <2>1, <4>1, <4>3 DEF Paired
      <4>4. CASE p # 0
        <5>1. k[Len(D) + 1] = Len(C) /\ q[Len(D) + 1] = p /\ p <= Length(C[Len(C)].src)
          BY <1>1, <4>4 DEF Paired
        <5>0. Len(C) \in 2 .. Len(C) + 1
          BY ONLY <4>2, <5>1
        <5>4. Len(C) - 1 \in 1 .. Len(C) - 1 /\ (Len(C) - 1) + 1 = Len(C)
          BY ONLY <1>2, <5>0
        <5>2. B[Len(B)] = C[Len(C)]
          BY ONLY <2>1, <5>4
        <5>3. k1[Len(E) + 1] = Len(B)
          BY ONLY <2>1, <4>1, <5>1
        <5> QED BY <4>1, <4>4, <5>1, <5>2, <5>3
      <4> QED BY <4>3, <4>4
    <3> QED BY <1>5, <2>4, <3>1, <3>2, <3>3, <3>4 DEF Paired
  <2>6. Stream(B, E, 0, p)
    BY <1>5, <2>4, <2>5 DEF Stream
  <2> QED BY <1>3, <1>4, <1>6, <2>6 DEF B, E
<1>7. CASE ~IsLast(D[1])
  <2> DEFINE k1 == [i \in 1 .. Len(D) |-> k[i + 1]]
  <2>2. k[2] = 1
    BY <1>1, <1>2, <1>3, <1>4, <1>7 DEF Paired
  <2>4. k1 \in [1 .. Len(E) + 1 -> 1 .. Len(C) + 1] /\ \A i \in 1 .. Len(D) : k1[i] = k[i + 1]
    BY <1>2
  <2> HIDE DEF k1
  <2>5. Paired(k1, q1, C, E, u + 1, p)
    <3>1. k1[1] = 1 /\ q1[1] = (u + 1) + 1
      <4>1. q[2] = q[1] + 1
        BY <1>1, <1>2, <1>3, <1>4, <1>7 DEF Paired
      <4> QED BY <1>2, <1>3, <1>5, <2>2, <2>4, <4>1
    <3>2. \A i, j \in 1 .. Len(E) + 1 : i <= j => k1[i] <= k1[j]
      <4> SUFFICES ASSUME NEW i \in 1 .. Len(D), NEW j \in 1 .. Len(D), i <= j PROVE k1[i] <= k1[j]
        BY <1>2
      <4>1. k[i + 1] <= k[j + 1]
        BY <1>1, <1>2 DEF Paired
      <4> QED BY <2>4, <4>1
    <3>3. ASSUME NEW i \in 1 .. Len(E)
          PROVE  /\ k1[i] <= Len(C) /\ q1[i] <= Length(C[k1[i]].src)
                 /\ E[i] = [pkt |-> C[k1[i]], pos |-> q1[i]]
                 /\ IF q1[i] = Length(C[k1[i]].src) THEN k1[i + 1] = k1[i] + 1 /\ q1[i + 1] = 1
                    ELSE k1[i + 1] = k1[i] /\ q1[i + 1] = q1[i] + 1
      <4> DEFINE j == i + 1
      <4>1. j \in 1 .. Len(D) /\ i \in 1 .. Len(D) - 1 /\ i \in 1 .. Len(D) /\ j + 1 \in 1 .. Len(D) + 1
        BY <1>2
      <4>2. /\ k[j] <= Len(C) /\ q[j] <= Length(C[k[j]].src)
            /\ D[j] = [pkt |-> C[k[j]], pos |-> q[j]]
            /\ IF q[j] = Length(C[k[j]].src) THEN k[j + 1] = k[j] + 1 /\ q[j + 1] = 1
               ELSE k[j + 1] = k[j] /\ q[j + 1] = q[j] + 1
        BY <1>1, <4>1 DEF Paired
      <4>3. k1[i] = k[j] /\ k1[i + 1] = k[j + 1] /\ q1[i] = q[j] /\ q1[i + 1] = q[j + 1] /\ E[i] = D[j]
        BY <1>2, <1>5, <2>4, <4>1
      <4> HIDE DEF j
      <4> QED BY <4>2, <4>3
    <3>4. IF p = 0 THEN k1[Len(E) + 1] = Len(C) + 1 /\ q1[Len(E) + 1] = 1
          ELSE k1[Len(E) + 1] = Len(C) /\ q1[Len(E) + 1] = p /\ p <= Length(C[Len(C)].src)
      <4>1. k1[Len(E) + 1] = k[Len(D) + 1] /\ q1[Len(E) + 1] = q[Len(D) + 1]
        BY <1>2, <1>5, <2>4
      <4> QED BY <1>1, <4>1 DEF Paired
    <3> QED BY <1>5, <2>4, <3>1, <3>2, <3>3, <3>4 DEF Paired
  <2>6. Stream(C, E, u + 1, p)
    BY <1>5, <2>4, <2>5 DEF Stream
  <2> QED BY <1>3, <1>4, <1>7, <2>6 DEF E
<1> QED BY <1>6, <1>7

------------------------------------------------------------------------------
(* The streams of one source *)

\* An open stream has a packet to which its next beat belongs.
LEMMA OpenStream ==
  ASSUME NEW C \in Seq(Packet), NEW D \in Seq(Beat), NEW u, NEW p, Stream(C, D, u, p), p # 0
  PROVE  C # <<>> /\ C[Len(C)] \in Packet /\ p <= Length(C[Len(C)].src) /\ p \in 1 .. Beats
<1>1. PICK k \in [1 .. Len(D) + 1 -> 1 .. Len(C) + 1], q \in [1 .. Len(D) + 1 -> 1 .. Beats] :
        Paired(k, q, C, D, u, p)
  BY DEF Stream
<1>2. Len(C) \in Nat /\ Len(D) + 1 \in 1 .. Len(D) + 1
  BY Ends1
<1>3. k[Len(D) + 1] = Len(C) /\ q[Len(D) + 1] = p /\ p <= Length(C[Len(C)].src)
  BY <1>1 DEF Paired
<1>4. Len(C) >= 1
  <2>1. Len(C) \in 1 .. Len(C) + 1
    BY <1>2, <1>3
  <2> QED BY <1>2, <2>1
<1>5. C # <<>> /\ C \in [1 .. Len(C) -> Packet] /\ Len(C) \in 1 .. Len(C)
  BY <1>2, <1>4, Ends1
<1>6. p \in 1 .. Beats
  BY <1>2, <1>3
<1> QED BY <1>3, <1>5, <1>6

LEMMA NoStream == Stream(<<>>, <<>>, 0, 0)
<1> DEFINE f == [i \in 1 .. 1 |-> 1]
<1>1. Len(<<>>) = 0 /\ Beats \in Nat /\ Beats >= 1
  BY Sizes
<1>2. f \in [1 .. 0 + 1 -> 1 .. 0 + 1] /\ f \in [1 .. 0 + 1 -> 1 .. Beats] /\ f[1] = 1 /\ f[0 + 1] = 1
  BY <1>1
<1> HIDE DEF f
<1>3. Paired(f, f, <<>>, <<>>, 0, 0)
  BY <1>1, <1>2 DEF Paired
<1> QED BY <1>1, <1>2, <1>3 DEF Stream

LEMMA SourceTakes ==
  ASSUME NEW s \in Source, NEW W \in Seq(Packet), NEW D \in Seq(Beat), NEW v, NEW p \in 0 .. Beats, NEW m,
         SourceOK(s, W, D, v, p, m), D # <<>>
  PROVE  /\ W # <<>> /\ W[1] \in Packet /\ W[1].src = s
         /\ D[1] = [pkt |-> W[1], pos |-> v + 1] /\ v + 1 \in 1 .. Beats /\ D[1].pos <= Length(s)
         /\ IF IsLast(D[1]) THEN SourceOK(s, Tail(W), Tail(D), 0, p, m) ELSE SourceOK(s, W, Tail(D), v + 1, p, m)
<1>1. Stream(W, D, v, p)
  BY DEF SourceOK
<1>2. /\ W # <<>> /\ D[1] = [pkt |-> W[1], pos |-> v + 1] /\ v + 1 \in 1 .. Beats
      /\ D[1].pos <= Length(D[1].pkt.src)
      /\ IF IsLast(D[1]) THEN Stream(Tail(W), Tail(D), 0, p) ELSE Stream(W, Tail(D), v + 1, p)
  BY <1>1, TakeBeat
<1>3. W[1] \in Packet /\ W[1].src = s
  BY <1>2, Ends1 DEF SourceOK
<1>6. D[1].pos <= Length(s)
  BY <1>2, <1>3
<1>4. CASE IsLast(D[1])
  <2>1. /\ Tail(W) \in Seq(Packet) /\ Tail(D) \in Seq(Beat) /\ Len(Tail(W)) = Len(W) - 1 /\ Len(W) \in Nat
        /\ DOMAIN Tail(W) = 1 .. Len(W) - 1 /\ DOMAIN W = 1 .. Len(W)
        /\ \A i \in 1 .. Len(W) - 1 : Tail(W)[i] = W[i + 1]
    BY <1>2, Ends1
  <2>2. \A i \in DOMAIN Tail(W) : Tail(W)[i].src = s
    BY <2>1 DEF SourceOK
  <2>3. ASSUME p > 0 PROVE Tail(W)[Len(Tail(W))].num = m
    <3>1. Tail(W) # <<>>
      <4>1. p # 0 /\ Stream(Tail(W), Tail(D), 0, p)
        BY <1>2, <1>4, <2>3
      <4> QED BY <2>1, <4>1, OpenStream
    <3>2. Len(Tail(W)) \in 1 .. Len(W) - 1
      BY <2>1, <3>1, Ends1
    <3>3. Tail(W)[Len(Tail(W))] = W[Len(W)]
      BY <2>1, <3>2
    <3> QED BY <2>3, <3>3 DEF SourceOK
  <2>4. SourceOK(s, Tail(W), Tail(D), 0, p, m)
    BY <1>2, <1>4, <2>2, <2>3 DEF SourceOK
  <2> QED BY <1>2, <1>3, <1>4, <1>6, <2>4
<1>5. CASE ~IsLast(D[1])
  <2>1. SourceOK(s, W, Tail(D), v + 1, p, m)
    BY <1>2, <1>5 DEF SourceOK
  <2> QED BY <1>2, <1>3, <1>5, <1>6, <2>1
<1> QED BY <1>4, <1>5

LEMMA SourceCommands ==
  ASSUME NEW s \in Source, NEW W \in Seq(Packet), NEW D \in Seq(Beat), NEW v, NEW m \in 0 .. Round - 1,
         SourceOK(s, W, D, v, 0, m)
  PROVE  /\ Stream(Append(W, Pkt(s, m)), D, v, 1)
         /\ \A i \in DOMAIN Append(W, Pkt(s, m)) : Append(W, Pkt(s, m))[i].src = s
         /\ Append(W, Pkt(s, m))[Len(Append(W, Pkt(s, m)))] = Pkt(s, m)
<1>1. Pkt(s, m) \in Packet /\ Pkt(s, m).src = s
  BY DEF Pkt, Packet
<1>2. Stream(Append(W, Pkt(s, m)), D, v, 1)
  BY <1>1, WriteCommand DEF SourceOK
<1> DEFINE E == Append(W, Pkt(s, m))
<1>3. /\ Len(W) \in Nat /\ Len(E) = Len(W) + 1 /\ DOMAIN E = 1 .. Len(E) /\ DOMAIN W = 1 .. Len(W)
      /\ \A i \in 1 .. Len(W) : E[i] = W[i]
      /\ E[Len(W) + 1] = Pkt(s, m)
  BY <1>1, Ends1
<1> HIDE DEF E
<1>4. ASSUME NEW i \in DOMAIN E PROVE E[i].src = s
  <2>1. CASE i \in 1 .. Len(W)
    BY <1>3, <2>1 DEF SourceOK
  <2>2. CASE i = Len(W) + 1
    BY <1>1, <1>3, <2>2
  <2> QED BY <1>3, <2>1, <2>2
<1> QED BY <1>2, <1>3, <1>4 DEF E

LEMMA SourceWrites ==
  ASSUME NEW s \in Source, NEW W \in Seq(Packet), NEW D \in Seq(Beat), NEW v, NEW m \in 0 .. Round - 1,
         NEW p \in 1 .. Beats, Stream(W, D, v, p), \A i \in DOMAIN W : W[i].src = s, W[Len(W)].num = m
  PROVE  /\ [pkt |-> Pkt(s, m), pos |-> p] \in Beat /\ p <= Length(s)
         /\ Stream(W, Append(D, [pkt |-> Pkt(s, m), pos |-> p]), v, IF p = Length(s) THEN 0 ELSE p + 1)
<1>1. W # <<>> /\ W[Len(W)] \in Packet
  BY OpenStream
<1>2. W[Len(W)] = Pkt(s, m)
  <2>1. Len(W) \in DOMAIN W
    BY <1>1, Ends1
  <2>2. W[Len(W)].src = s
    BY <2>1
  <2> QED BY <1>1, <2>2 DEF Packet, Pkt
<1> DEFINE b == [pkt |-> Pkt(s, m), pos |-> p]
<1>3. b \in Beat /\ b = [pkt |-> W[Len(W)], pos |-> p] /\ W[Len(W)].src = s
  BY <1>1, <1>2 DEF Beat, Packet, Pkt
<1> HIDE DEF b
<1>4. p <= Length(s) /\ Stream(W, Append(D, b), v, IF p = Length(s) THEN 0 ELSE p + 1)
  BY <1>3, WriteBeat
<1> QED BY <1>3, <1>4 DEF b

\* The packet within a burst stands in front of the commands that wait.
LEMMA InFront ==
  ASSUME NEW y \in Packet, NEW c \in Seq(Packet)
  PROVE  /\ <<y>> \o c \in Seq(Packet) /\ <<y>> \o c # <<>> /\ (<<y>> \o c)[1] = y
         /\ Tail(<<y>> \o c) = c
         /\ \A x \in Packet : <<y>> \o Append(c, x) = Append(<<y>> \o c, x)
         /\ c # <<>> /\ y = c[1] => <<y>> \o Tail(c) = c
<1>1. /\ <<y>> \in Seq(Packet) /\ Len(<<y>>) = 1 /\ <<y>>[1] = y
  OBVIOUS
<1>2. /\ Len(c) \in Nat /\ <<y>> \o c \in Seq(Packet) /\ Len(<<y>> \o c) = Len(c) + 1
      /\ \A i \in 1 .. 1 + Len(c) : (<<y>> \o c)[i] = IF i <= 1 THEN y ELSE c[i - 1]
  BY <1>1, ConcatProperties, Ends1
<1>3. <<y>> \o c # <<>> /\ (<<y>> \o c)[1] = y
  BY <1>2, Ends1
<1>4. Tail(<<y>> \o c) = c
  <2> DEFINE e == Tail(<<y>> \o c)
  <2>1. e \in Seq(Packet) /\ Len(e) = Len(c) /\ \A i \in 1 .. Len(c) : e[i] = (<<y>> \o c)[i + 1]
    BY <1>2, <1>3, Ends1
  <2>2. \A i \in 1 .. Len(c) : e[i] = c[i]
    BY <1>2, <2>1
  <2> QED BY <2>1, <2>2, SeqEqual
<1>5. ASSUME NEW x \in Packet PROVE <<y>> \o Append(c, x) = Append(<<y>> \o c, x)
  <2>1. <<x>> \in Seq(Packet)
    OBVIOUS
  <2> QED BY <1>1, <1>2, <2>1, AppendIsConcat, ConcatAssociative
<1>6. ASSUME c # <<>>, y = c[1] PROVE <<y>> \o Tail(c) = c
  <2>1. Tail(c) \in Seq(Packet) /\ Len(Tail(c)) = Len(c) - 1 /\ \A i \in 1 .. Len(c) - 1 : Tail(c)[i] = c[i + 1]
    BY <1>6, Ends1
  <2> DEFINE e == <<y>> \o Tail(c)
  <2>2. /\ e \in Seq(Packet) /\ Len(e) = 1 + Len(Tail(c))
        /\ \A i \in 1 .. 1 + Len(Tail(c)) : e[i] = IF i <= 1 THEN <<y>>[i] ELSE Tail(c)[i - 1]
    BY <1>1, <2>1, ConcatProperties
  <2> HIDE DEF e
  <2>3. Len(e) = Len(c)
    BY <1>2, <2>1, <2>2
  <2>4. \A i \in 1 .. Len(c) : e[i] = c[i]
    BY <1>1, <1>2, <1>6, <2>1, <2>2
  <2> QED BY <2>2, <2>3, <2>4, SeqEqual DEF e
<1> QED BY <1>2, <1>3, <1>4, <1>5, <1>6

------------------------------------------------------------------------------
(* The numbers of one source *)

\* The source writes its next command.
LEMMA NumberWritten ==
  ASSUME NEW s \in Source, NEW O, NEW c \in Seq(Packet), NEW m \in 0 .. Round - 1, NumbersOK(s, O, c, m, 0),
         NEW m1, NEW p1, Expected(Pkt(s, m), m1, p1)
  PROVE  NumbersOK(s, O, Append(c, Pkt(s, m)), m1, p1)
<1> DEFINE x == Pkt(s, m)
           e == Append(c, x)
<1>1. x \in Packet /\ x.num = m
  BY DEF Pkt, Packet
<1> HIDE DEF x
<1>2. /\ Len(c) \in Nat /\ Len(e) = Len(c) + 1 /\ \A i \in 1 .. Len(c) : e[i] = c[i]
      /\ e[Len(c) + 1] = x /\ (c # <<>> <=> Len(c) > 0)
  BY <1>1, Ends1
<1>3. e # <<>>
  BY <1>1, <1>2, Ends1
<1> HIDE DEF e
<1>4. ASSUME NEW i \in 1 .. Len(e) - 1 PROVE Succeeds(e[i + 1], e[i])
  <2>1. CASE i \in 1 .. Len(c) - 1
    <3>1. e[i] = c[i] /\ e[i + 1] = c[i + 1]
      BY <1>2, <2>1
    <3> QED BY <2>1, <3>1 DEF NumbersOK
  <2>2. CASE i = Len(c)
    <3>1. e[i] = c[Len(c)] /\ e[i + 1] = x /\ c # <<>>
      BY <1>2, <2>2
    <3> QED BY <1>1, <3>1 DEF NumbersOK, Expected, Succeeds
  <2> QED BY <1>2, <2>1, <2>2
<1>5. ASSUME NEW i \in DOMAIN O, O[i].src = s, \A j \in DOMAIN O : j > i => O[j].src # s
      PROVE  Succeeds(e[1], O[i])
  <2>1. CASE c # <<>>
    <3>1. e[1] = c[1]
      BY <1>2, <2>1
    <3> QED BY <1>5, <2>1, <3>1 DEF NumbersOK
  <2>2. CASE c = <<>>
    <3>1. e[1] = x
      BY <1>2, <2>2
    <3> QED BY <1>1, <1>5, <2>2, <3>1 DEF NumbersOK, Expected, Succeeds
  <2> QED BY <2>1, <2>2
<1>6. Expected(e[Len(e)], m1, p1)
  BY <1>2 DEF x
<1> QED BY <1>3, <1>4, <1>5, <1>6 DEF NumbersOK, e, x

\* The newest command in c is on its way; what the source expects next changes along.
LEMMA NumberKept ==
  ASSUME NEW s, NEW O, NEW c, NEW m, NEW p, NumbersOK(s, O, c, m, p), NEW m1, NEW p1,
         \A x : Expected(x, m, p) => Expected(x, m1, p1)
  PROVE  NumbersOK(s, O, c, m1, p1)
BY DEF NumbersOK

\* The arbiter takes the first command of source s.
LEMMA NumberTaken ==
  ASSUME NEW s \in Source, NEW O \in Seq(Packet), NEW c \in Seq(Packet), NEW m, NEW p, NumbersOK(s, O, c, m, p),
         c # <<>>, c[1].src = s
  PROVE  NumbersOK(s, Append(O, c[1]), Tail(c), m, p)
<1> DEFINE x == c[1]
           e == Append(O, x)
           d == Tail(c)
<1>1. /\ x \in Packet /\ x.src = s /\ Len(c) \in Nat /\ Len(c) >= 1 /\ Len(d) = Len(c) - 1
      /\ \A i \in 1 .. Len(c) - 1 : d[i] = c[i + 1]
      /\ d # <<>> <=> Len(c) - 1 > 0
  <2>1. x \in Packet /\ x.src = s /\ Len(c) \in Nat /\ Len(c) >= 1
    BY Ends1
  <2>2. d \in Seq(Packet) /\ Len(d) = Len(c) - 1 /\ \A i \in 1 .. Len(c) - 1 : d[i] = c[i + 1]
    BY Ends1
  <2> HIDE DEF d
  <2>3. d # <<>> <=> Len(d) > 0
    BY <2>2, Ends1
  <2> QED BY <2>1, <2>2, <2>3
<1> HIDE DEF x, d
<1>2. /\ Len(O) \in Nat /\ DOMAIN O = 1 .. Len(O) /\ DOMAIN e = 1 .. Len(O) + 1
      /\ \A i \in 1 .. Len(O) : e[i] = O[i]
      /\ e[Len(O) + 1] = x
  BY <1>1, Ends1
<1> HIDE DEF e
<1>3. ASSUME NEW i \in DOMAIN e, NEW j \in DOMAIN e, i < j, e[i].src = s, e[j].src = s,
             \A k \in i + 1 .. j - 1 : e[k].src # s
      PROVE  Succeeds(e[j], e[i])
  <2>0. i \in 1 .. Len(O) /\ e[i] = O[i]
    BY <1>2, <1>3
  <2>1. CASE j \in 1 .. Len(O)
    <3>1. e[j] = O[j] /\ \A k \in i + 1 .. j - 1 : k \in 1 .. Len(O) /\ e[k] = O[k]
      BY <1>2, <2>0, <2>1
    <3>2. \A k \in i + 1 .. j - 1 : O[k].src # s
      BY <1>3, <3>1
    <3>3. i \in DOMAIN O /\ j \in DOMAIN O /\ i < j /\ O[i].src = s /\ O[j].src = s
      BY <1>2, <1>3, <2>0, <2>1, <3>1
    <3> QED BY <2>0, <3>1, <3>2, <3>3 DEF NumbersOK
  <2>2. CASE j = Len(O) + 1
    <3>1. ASSUME NEW k \in DOMAIN O, k > i PROVE O[k].src # s
      <4>1. k \in i + 1 .. j - 1 /\ e[k] = O[k]
        BY <1>2, <2>0, <2>2, <3>1
      <4> QED BY <1>3, <4>1
    <3>2. Succeeds(x, O[i])
      BY <1>2, <1>3, <2>0, <3>1 DEF NumbersOK, x
    <3> QED BY <1>2, <2>0, <2>2, <3>2
  <2> QED BY <1>2, <2>1, <2>2
<1>4. ASSUME NEW i \in DOMAIN e, e[i].src = s, \A j \in DOMAIN e : j > i => e[j].src # s
      PROVE  IF d # <<>> THEN Succeeds(d[1], e[i]) ELSE Expected(e[i], m, p)
  <2>1. i = Len(O) + 1 /\ e[i] = x
    <3>1. Len(O) + 1 \in DOMAIN e /\ e[Len(O) + 1].src = s
      BY <1>1, <1>2
    <3>2. ~(Len(O) + 1 > i)
      BY <1>4, <3>1
    <3> QED BY <1>2, <3>2
  <2>2. CASE d # <<>>
    <3>1. d[1] = c[2] /\ Succeeds(c[1 + 1], c[1])
      BY <1>1, <2>2 DEF NumbersOK
    <3> QED BY <2>1, <2>2, <3>1 DEF x
  <2>3. CASE d = <<>>
    <3>1. Len(c) = 1
      BY <1>1, <2>3
    <3> QED BY <2>1, <2>3, <3>1 DEF x, NumbersOK
  <2> QED BY <2>2, <2>3
<1>5. ASSUME NEW i \in 1 .. Len(d) - 1 PROVE Succeeds(d[i + 1], d[i])
  <2>1. d[i] = c[i + 1] /\ d[i + 1] = c[(i + 1) + 1] /\ i + 1 \in 1 .. Len(c) - 1
    BY <1>1
  <2> QED BY <2>1 DEF NumbersOK
<1>6. d # <<>> => d[Len(d)] = c[Len(c)]
  BY <1>1
<1> QED BY <1>3, <1>4, <1>5, <1>6 DEF NumbersOK, e, d, x

\* ... which leaves the other sources as they are.
LEMMA NumberOther ==
  ASSUME NEW s, NEW O \in Seq(Packet), NEW c, NEW m, NEW p, NumbersOK(s, O, c, m, p),
         NEW x \in Packet, x.src # s
  PROVE  NumbersOK(s, Append(O, x), c, m, p)
<1> DEFINE e == Append(O, x)
<1>2. /\ Len(O) \in Nat /\ DOMAIN O = 1 .. Len(O) /\ DOMAIN e = 1 .. Len(O) + 1
      /\ \A i \in 1 .. Len(O) : e[i] = O[i]
      /\ e[Len(O) + 1] = x
  BY Ends1
<1> HIDE DEF e
<1>1. \A i \in DOMAIN e : e[i].src = s => i \in DOMAIN O /\ e[i] = O[i]
  BY <1>2
<1>3. ASSUME NEW i \in DOMAIN e, NEW j \in DOMAIN e, i < j, e[i].src = s, e[j].src = s,
             \A k \in i + 1 .. j - 1 : e[k].src # s
      PROVE  Succeeds(e[j], e[i])
  <2>1. i \in DOMAIN O /\ j \in DOMAIN O /\ e[i] = O[i] /\ e[j] = O[j]
    BY <1>1, <1>3
  <2>2. \A k \in i + 1 .. j - 1 : O[k].src # s
    <3>1. \A k \in i + 1 .. j - 1 : e[k] = O[k]
      BY <1>2, <2>1
    <3> QED BY <1>3, <3>1
  <2> QED BY <1>3, <2>1, <2>2 DEF NumbersOK
<1>4. ASSUME NEW i \in DOMAIN e, e[i].src = s, \A j \in DOMAIN e : j > i => e[j].src # s
      PROVE  IF c # <<>> THEN Succeeds(c[1], e[i]) ELSE Expected(e[i], m, p)
  <2>1. i \in DOMAIN O /\ e[i] = O[i]
    BY <1>1, <1>4
  <2>2. \A j \in DOMAIN O : j \in DOMAIN e /\ e[j] = O[j]
    BY <1>2
  <2> QED BY <1>4, <2>1, <2>2 DEF NumbersOK
<1> QED BY <1>3, <1>4 DEF NumbersOK, e

\* The engine is done with the oldest command.
LEMMA NumberDone ==
  ASSUME NEW s, NEW O \in Seq(Packet), NEW c, NEW m, NEW p, NumbersOK(s, O, c, m, p), O # <<>>
  PROVE  NumbersOK(s, Tail(O), c, m, p)
<1> DEFINE e == Tail(O)
<1>2. /\ Len(O) \in Nat /\ DOMAIN O = 1 .. Len(O) /\ DOMAIN e = 1 .. Len(O) - 1
      /\ \A i \in 1 .. Len(O) - 1 : e[i] = O[i + 1]
  BY Ends1
<1> HIDE DEF e
<1>3. ASSUME NEW i \in DOMAIN e, NEW j \in DOMAIN e, i < j, e[i].src = s, e[j].src = s,
             \A k \in i + 1 .. j - 1 : e[k].src # s
      PROVE  Succeeds(e[j], e[i])
  <2>1. i + 1 \in DOMAIN O /\ j + 1 \in DOMAIN O /\ e[i] = O[i + 1] /\ e[j] = O[j + 1] /\ i + 1 < j + 1
    BY <1>2, <1>3
  <2>2. ASSUME NEW k \in (i + 1) + 1 .. (j + 1) - 1 PROVE O[k].src # s
    <3>1. k - 1 \in i + 1 .. j - 1 /\ k - 1 \in 1 .. Len(O) - 1 /\ (k - 1) + 1 = k
      BY <1>2
    <3>2. e[k - 1] = O[k]
      BY <1>2, <3>1
    <3> QED BY <1>3, <3>1, <3>2
  <2> QED BY <1>3, <2>1, <2>2 DEF NumbersOK
<1>4. ASSUME NEW i \in DOMAIN e, e[i].src = s, \A j \in DOMAIN e : j > i => e[j].src # s
      PROVE  IF c # <<>> THEN Succeeds(c[1], e[i]) ELSE Expected(e[i], m, p)
  <2>1. i + 1 \in DOMAIN O /\ e[i] = O[i + 1]
    BY <1>2
  <2>2. ASSUME NEW k \in DOMAIN O, k > i + 1 PROVE O[k].src # s
    <3>1. k - 1 \in DOMAIN e /\ k - 1 > i /\ (k - 1) + 1 = k
      BY <1>2, <2>2
    <3>2. e[k - 1] = O[k]
      BY <1>2, <3>1
    <3> QED BY <1>4, <3>1, <3>2
  <2> QED BY <1>4, <2>1, <2>2 DEF NumbersOK
<1> QED BY <1>3, <1>4 DEF NumbersOK, e

------------------------------------------------------------------------------
(* The index *)

\* Who is served waits; the index leaves the sources for NoSource, or when all wait.
LEMMA Chosen ==
  ASSUME NEW V \in SUBSET Source, NEW i \in 0 .. Wrap - 1
  PROVE  /\ Choose(V, i) \in 0 .. Wrap - 1
         /\ Choose(V, i) \in Source => Choose(V, i) \in V
         /\ Choose(V, i) \notin Source \cup {NoSource} => V = Source
<1>1. /\ Wrap \in Nat /\ NoSource \in 3 .. Wrap - 2 /\ Source = {0, 1, 2}
  BY ArbiterAssumption DEF Source
<1>2. V = {} \/ V = {0} \/ V = {1} \/ V = {2} \/ V = {0, 1} \/ V = {0, 2} \/ V = {1, 2} \/ V = {0, 1, 2}
  BY <1>1
<1>3. CASE V = {}
  <2>1. Choose(V, i) = NoSource
    BY <1>3 DEF Choose
  <2> QED BY <1>1, <2>1
<1>4. CASE V = {0, 1}
  <2>1. Choose(V, i) = IF i = 0 THEN 1 ELSE 0
    BY <1>4 DEF Choose
  <2> QED BY <1>1, <1>4, <2>1
<1>5. CASE V = {0, 2}
  <2>1. Choose(V, i) = IF i = 2 THEN 0 ELSE 2
    BY <1>5 DEF Choose
  <2> QED BY <1>1, <1>5, <2>1
<1>6. CASE V = {1, 2}
  <2>1. Choose(V, i) = IF i = 1 THEN 2 ELSE 1
    BY <1>6 DEF Choose
  <2> QED BY <1>1, <1>6, <2>1
<1>7. CASE V = {0, 1, 2}
  <2>1. Choose(V, i) = IF i = 2 THEN 0 ELSE (i + 1) % Wrap
    BY <1>7 DEF Choose
  <2>2. (i + 1) % Wrap \in 0 .. Wrap - 1
    BY <1>1
  <2> QED BY <1>1, <1>7, <2>1, <2>2
<1>8. ASSUME NEW s \in Source, V = {s} PROVE Choose(V, i) = s
  <2>1. V # {} /\ V # {0, 1} /\ V # {0, 2} /\ V # {1, 2} /\ V # {0, 1, 2}
    BY <1>8
  <2>2. Choose(V, i) = CHOOSE r \in V : TRUE
    BY ONLY <2>1 DEF Choose
  <2> QED BY <1>8, <2>2
<1>9. CASE \E s \in Source : V = {s}
  BY <1>1, <1>8, <1>9
<1> QED BY <1>1, <1>2, <1>3, <1>4, <1>5, <1>6, <1>7, <1>9

------------------------------------------------------------------------------
(* The steps *)

LEMMA DmaTypes ==
  ASSUME DmaTypeOK
  PROVE  /\ \A s \in Source : /\ cmd[s] \in Seq(Packet) /\ dat[s] \in Seq(Beat)
                              /\ made[s] \in 0 .. Round - 1 /\ part[s] \in 0 .. Beats
         /\ cmdOut \in Seq(Packet) /\ datOut \in Seq(Beat) /\ left \in 0 .. Beats - 1
         /\ idx \in 0 .. Wrap - 1 /\ endFlag \in BOOLEAN /\ burst \in Source
         /\ 2 \in Source
BY DEF DmaTypeOK, Source

\* What the streams say of the commands in front of the arbiter.
LEMMA WaitingIs ==
  ASSUME DmaTypeOK, NEW u \in 0 .. Beats - 1, Flow(u), NEW s \in Source
  PROVE  /\ Waiting(s, u) \in Seq(Packet)
         /\ u # 0 => cmdOut # <<>> /\ cmdOut[Len(cmdOut)] \in Packet
         /\ u # 0 /\ burst = s => /\ Waiting(s, u) = <<cmdOut[Len(cmdOut)]>> \o cmd[s]
                                  /\ Waiting(s, u)[1] = cmdOut[Len(cmdOut)]
                                  /\ Tail(Waiting(s, u)) = cmd[s]
         /\ ~(u # 0 /\ burst = s) => Waiting(s, u) = cmd[s]
<1>1. ASSUME u # 0 PROVE cmdOut # <<>> /\ cmdOut[Len(cmdOut)] \in Packet
  <2>1. Stream(cmdOut, datOut, left, u + 1) /\ u + 1 # 0
    BY <1>1, Sizes DEF Flow
  <2> QED BY <2>1, DmaTypes, OpenStream
<1>2. CASE u # 0 /\ burst = s
  <2> DEFINE y == cmdOut[Len(cmdOut)]
             c == cmd[s]
  <2>1. y \in Packet /\ c \in Seq(Packet) /\ Waiting(s, u) = <<y>> \o c
    BY <1>1, <1>2, DmaTypes DEF Waiting
  <2> HIDE DEF y, c
  <2>2. <<y>> \o c \in Seq(Packet) /\ (<<y>> \o c)[1] = y /\ Tail(<<y>> \o c) = c
    BY <2>1, InFront
  <2> QED BY <1>1, <1>2, <2>1, <2>2 DEF y, c
<1>3. CASE ~(u # 0 /\ burst = s)
  BY <1>1, <1>3, DmaTypes DEF Waiting
<1> QED BY <1>2, <1>3

LEMMA DmaInitInv == DmaInit => DmaInv
<1> SUFFICES ASSUME DmaInit PROVE DmaInv
  OBVIOUS
<1>0. <<>> \in Seq(Packet) /\ <<>> \in Seq(Beat) /\ Len(<<>>) = 0 /\ DOMAIN <<>> = {}
  OBVIOUS
<1>1. DmaTypeOK
  BY <1>0, Sizes DEF DmaInit, DmaTypeOK, Source
<1>2. Index
  BY DEF DmaInit, Index, StallOnlyWhenFull, Source
<1>3. Numbered
  BY <1>0 DEF DmaInit, Numbered, NumbersOK
<1>4. 0 \in 0 .. Beats - 1
  BY Sizes
<1>5. Flow(0)
  <2>1. \A s \in Source : SourceOK(s, <<>>, <<>>, 0, 0, 0)
    BY <1>0, NoStream DEF SourceOK
  <2>2. \A s \in Source : Waiting(s, 0) = <<>>
    BY DEF Waiting, DmaInit
  <2> QED BY <2>1, <2>2, NoStream DEF Flow, DmaInit
<1> QED BY <1>1, <1>2, <1>3, <1>4, <1>5 DEF DmaInv

\* A step of source s that writes a command x, a beat, or both.
Wrote(s, x) ==
  /\ UNCHANGED <<arbVars, cmdOut, datOut, left>>
  /\ \A r \in Source : r # s => /\ cmd'[r] = cmd[r] /\ dat'[r] = dat[r]
                               /\ made'[r] = made[r] /\ part'[r] = part[r]
  /\ cmd'[s] = cmd[s] \/ cmd'[s] = Append(cmd[s], x)
  /\ cmd[s] # <<>> => cmd'[s] # <<>>
  /\ dat[s] # <<>> => dat'[s] # <<>>

LEMMA WroteStep ==
  ASSUME DmaInv, DmaTypeOK', NEW s \in Source, NEW x \in Packet, Wrote(s, x),
         NumbersOK(s, cmdOut, cmd'[s], made'[s], part'[s]),
         \A W \in Seq(Packet) : \A v :
           SourceOK(s, W, dat[s], v, part[s], made[s]) =>
             SourceOK(s, IF cmd'[s] = cmd[s] THEN W ELSE Append(W, x), dat'[s], v, part'[s], made'[s])
  PROVE  DmaInv'
<1>1. /\ idx' = idx /\ endFlag' = endFlag /\ burst' = burst
      /\ cmdOut' = cmdOut /\ datOut' = datOut /\ left' = left
  BY DEF Wrote, arbVars
<1>2. Index'
  <2>1. Valid \subseteq Valid' /\ Valid' \subseteq Source
    BY DEF Wrote, Valid
  <2> QED BY <1>1, <2>1 DEF DmaInv, Index, StallOnlyWhenFull, Valid
<1>3. Numbered'
  BY <1>1 DEF DmaInv, Numbered, Wrote
<1>4. PICK u \in 0 .. Beats - 1 : Flow(u)
  BY DEF DmaInv
<1>5. ASSUME NEW r \in Source, r # s PROVE Waiting(r, u)' = Waiting(r, u)
  BY <1>1, <1>5 DEF Waiting, Wrote
<1>6. Waiting(s, u)' = IF cmd'[s] = cmd[s] THEN Waiting(s, u) ELSE Append(Waiting(s, u), x)
  <2>1. CASE cmd'[s] = cmd[s]
    BY <1>1, <2>1 DEF Waiting
  <2>2. CASE cmd'[s] # cmd[s] /\ u # 0 /\ burst = s
    <3> DEFINE y == cmdOut[Len(cmdOut)]
               c == cmd[s]
    <3>1. y \in Packet /\ c \in Seq(Packet) /\ Waiting(s, u) = <<y>> \o c
      BY <1>4, <2>2, DmaTypes, WaitingIs DEF DmaInv
    <3>2. Waiting(s, u)' = <<y>> \o Append(c, x)
      BY <1>1, <2>2 DEF Waiting, Wrote
    <3> HIDE DEF y, c
    <3>3. <<y>> \o Append(c, x) = Append(<<y>> \o c, x)
      BY <3>1, InFront
    <3> QED BY <2>2, <3>1, <3>2, <3>3
  <2>3. CASE cmd'[s] # cmd[s] /\ ~(u # 0 /\ burst = s)
    BY <1>1, <2>3 DEF Waiting, Wrote
  <2> QED BY <2>1, <2>2, <2>3
<1>7. ASSUME NEW r \in Source
      PROVE  SourceOK(r, Waiting(r, u)', dat'[r], IF u # 0 /\ burst' = r THEN u ELSE 0, part'[r], made'[r])
  <2>1. SourceOK(r, Waiting(r, u), dat[r], IF u # 0 /\ burst = r THEN u ELSE 0, part[r], made[r])
    BY <1>4 DEF Flow
  <2>2. CASE r # s
    BY <1>1, <1>5, <2>1, <2>2 DEF Wrote
  <2>3. CASE r = s
    <3>1. Waiting(s, u) \in Seq(Packet)
      BY <1>4, WaitingIs DEF DmaInv
    <3> DEFINE v == IF u # 0 /\ burst = s THEN u ELSE 0
    <3>2. SourceOK(s, Waiting(s, u), dat[s], v, part[s], made[s])
      BY <2>1, <2>3
    <3> HIDE DEF v
    <3>3. SourceOK(s, Waiting(s, u)', dat'[s], v, part'[s], made'[s])
      BY <1>6, <3>1, <3>2
    <3> QED BY <1>1, <2>3, <3>3 DEF v
  <2> QED BY <2>2, <2>3
<1>8. Flow(u)'
  BY <1>1, <1>4, <1>7 DEF Flow
<1> QED BY <1>2, <1>3, <1>4, <1>8 DEF DmaInv

LEMMA PktIs ==
  ASSUME NEW s \in Source, NEW m \in 0 .. Round - 1
  PROVE  /\ Pkt(s, m) \in Packet /\ Pkt(s, m).src = s /\ Pkt(s, m).num = m
         /\ (m + 1) % Round \in 0 .. Round - 1
BY Sizes DEF Pkt, Packet

LEMMA ManagerStep ==
  ASSUME DmaInv, NEW s \in Source, Manager(s)
  PROVE  DmaInv'
<1> DEFINE m == made[s]
           x == Pkt(s, m)
           b == [pkt |-> x, pos |-> 1]
<1>0. m \in 0 .. Round - 1 /\ cmd[s] \in Seq(Packet) /\ dat[s] \in Seq(Beat) /\ DmaTypeOK /\ Length(s) = 1 /\ s # 2
  BY DmaTypes DEF DmaInv, Manager, Length
<1>1. /\ cmd' = [cmd EXCEPT ![s] = Append(cmd[s], x)] /\ dat' = [dat EXCEPT ![s] = Append(dat[s], b)]
      /\ made' = [made EXCEPT ![s] = (m + 1) % Round] /\ part' = part
      /\ UNCHANGED <<arbVars, cmdOut, datOut, left>>
  BY DEF Manager, arbVars
<1> HIDE DEF m
<1>2. x \in Packet /\ (m + 1) % Round \in 0 .. Round - 1 /\ b \in Beat /\ x.num = m
  <2>1. x \in Packet /\ (m + 1) % Round \in 0 .. Round - 1 /\ x.num = m
    BY <1>0, PktIs
  <2>2. 1 \in 1 .. Beats
    BY Sizes
  <2> QED BY <2>1, <2>2 DEF Beat
<1> HIDE DEF x, b
<1>3. Append(cmd[s], x) \in Seq(Packet) /\ Append(dat[s], b) \in Seq(Beat) /\ Append(cmd[s], x) # <<>> /\ Append(dat[s], b) # <<>>
  BY <1>0, <1>2, AppendProperties
<1>4. DmaTypeOK'
  BY <1>0, <1>1, <1>2, <1>3 DEF DmaTypeOK, arbVars
<1>5. Wrote(s, x)
  BY <1>0, <1>1, <1>3 DEF Wrote, DmaTypeOK
<1>6. cmd'[s] = Append(cmd[s], x) /\ dat'[s] = Append(dat[s], b) /\ made'[s] = (m + 1) % Round /\ part'[s] = part[s]
  BY <1>0, <1>1 DEF DmaTypeOK
<1>7. part[s] = 0
  BY <1>0 DEF DmaInv, Flow, SourceOK
<1>8. NumbersOK(s, cmdOut, cmd'[s], made'[s], part'[s])
  <2>1. NumbersOK(s, cmdOut, cmd[s], m, 0)
    BY <1>7 DEF DmaInv, Numbered, m
  <2>2. Expected(Pkt(s, m), (m + 1) % Round, 0)
    BY <1>2 DEF Expected, x
  <2>3. NumbersOK(s, cmdOut, Append(cmd[s], Pkt(s, m)), (m + 1) % Round, 0)
    BY <1>0, <2>1, <2>2, NumberWritten
  <2> QED BY <1>6, <1>7, <2>3 DEF x
<1>9. ASSUME NEW W \in Seq(Packet), NEW v, SourceOK(s, W, dat[s], v, part[s], made[s])
      PROVE  SourceOK(s, IF cmd'[s] = cmd[s] THEN W ELSE Append(W, x), dat'[s], v, part'[s], made'[s])
  <2>1. SourceOK(s, W, dat[s], v, 0, m)
    BY <1>7, <1>9 DEF m
  <2> DEFINE E == Append(W, x)
  <2>2. Stream(E, dat[s], v, 1) /\ (\A i \in DOMAIN E : E[i].src = s) /\ E[Len(E)] = x
    BY <1>0, <2>1, SourceCommands DEF x
  <2>3. E \in Seq(Packet)
    BY <1>2, AppendProperties
  <2> HIDE DEF E
  <2>4. Stream(E, Append(dat[s], b), v, 0)
    <3>1. E[Len(E)].num = m /\ 1 \in 1 .. Beats
      BY <1>2, <2>2, Sizes
    <3>2. Stream(E, Append(dat[s], [pkt |-> Pkt(s, m), pos |-> 1]), v, IF 1 = Length(s) THEN 0 ELSE 1 + 1)
      BY <1>0, <2>2, <2>3, <3>1, SourceWrites
    <3> QED BY <1>0, <3>2 DEF b, x
  <2>5. SourceOK(s, E, dat'[s], v, part'[s], made'[s])
    BY <1>6, <1>7, <2>2, <2>4 DEF SourceOK
  <2>6. cmd'[s] # cmd[s]
    <3>1. Len(Append(cmd[s], x)) = Len(cmd[s]) + 1 /\ Len(cmd[s]) \in Nat
      BY <1>0, <1>2, Ends1
    <3> QED BY <1>6, <3>1
  <2> QED BY <2>5, <2>6 DEF E
<1> QED BY <1>2, <1>4, <1>5, <1>8, <1>9, WroteStep

LEMMA DeparserCmdStep ==
  ASSUME DmaInv, DeparserCmd
  PROVE  DmaInv'
<1> DEFINE s == 2
           m == made[s]
           x == Pkt(s, m)
<1>0. /\ m \in 0 .. Round - 1 /\ cmd[s] \in Seq(Packet) /\ dat[s] \in Seq(Beat) /\ DmaTypeOK /\ s \in Source
      /\ part[s] = 0
  BY DmaTypes DEF DmaInv, DeparserCmd
<1>1. /\ cmd' = [cmd EXCEPT ![s] = Append(cmd[s], x)] /\ dat' = dat
      /\ made' = made /\ part' = [part EXCEPT ![s] = 1]
      /\ UNCHANGED <<arbVars, cmdOut, datOut, left>>
  BY DEF DeparserCmd, arbVars
<1> HIDE DEF m
<1>2. x \in Packet /\ x.num = m
  BY <1>0, PktIs
<1> HIDE DEF x
<1>3. Append(cmd[s], x) \in Seq(Packet) /\ Append(cmd[s], x) # <<>>
  BY <1>0, <1>2, AppendProperties
<1>4. DmaTypeOK'
  <2>1. 1 \in 0 .. Beats
    BY Sizes
  <2> QED BY <1>0, <1>1, <1>3, <2>1 DEF DmaTypeOK, arbVars
<1>5. Wrote(s, x)
  BY <1>0, <1>1, <1>3 DEF Wrote, DmaTypeOK
<1>6. cmd'[s] = Append(cmd[s], x) /\ dat'[s] = dat[s] /\ made'[s] = m /\ part'[s] = 1
  BY <1>0, <1>1 DEF DmaTypeOK, m
<1>8. NumbersOK(s, cmdOut, cmd'[s], made'[s], part'[s])
  <2>1. NumbersOK(s, cmdOut, cmd[s], m, 0)
    BY <1>0 DEF DmaInv, Numbered, m
  <2>2. Expected(Pkt(s, m), m, 1)
    BY <1>2 DEF Expected, x
  <2>3. NumbersOK(s, cmdOut, Append(cmd[s], Pkt(s, m)), m, 1)
    BY <1>0, <2>1, <2>2, NumberWritten
  <2> QED BY <1>6, <2>3 DEF x
<1>9. ASSUME NEW W \in Seq(Packet), NEW v, SourceOK(s, W, dat[s], v, part[s], made[s])
      PROVE  SourceOK(s, IF cmd'[s] = cmd[s] THEN W ELSE Append(W, x), dat'[s], v, part'[s], made'[s])
  <2>1. SourceOK(s, W, dat[s], v, 0, m)
    BY <1>0, <1>9 DEF m
  <2> DEFINE E == Append(W, x)
  <2>2. Stream(E, dat[s], v, 1) /\ (\A i \in DOMAIN E : E[i].src = s) /\ E[Len(E)] = x
    BY <1>0, <2>1, SourceCommands DEF x
  <2> HIDE DEF E
  <2>5. SourceOK(s, E, dat'[s], v, part'[s], made'[s])
    BY <1>2, <1>6, <2>2 DEF SourceOK
  <2>6. cmd'[s] # cmd[s]
    <3>1. Len(Append(cmd[s], x)) = Len(cmd[s]) + 1 /\ Len(cmd[s]) \in Nat
      BY <1>0, <1>2, Ends1
    <3> QED BY <1>6, <3>1
  <2> QED BY <2>5, <2>6 DEF E
<1> HIDE DEF s
<1> QED BY <1>0, <1>2, <1>4, <1>5, <1>8, <1>9, WroteStep

LEMMA DeparserBeatStep ==
  ASSUME DmaInv, DeparserBeat
  PROVE  DmaInv'
<1> DEFINE s == 2
           m == made[s]
           p == part[s]
           x == Pkt(s, m)
           b == [pkt |-> x, pos |-> p]
           p1 == IF p = Beats THEN 0 ELSE p + 1
           m1 == IF p = Beats THEN (m + 1) % Round ELSE m
<1>0. /\ m \in 0 .. Round - 1 /\ cmd[s] \in Seq(Packet) /\ dat[s] \in Seq(Beat) /\ DmaTypeOK /\ s \in Source
      /\ p \in 1 .. Beats /\ Length(s) = Beats
  <2>1. /\ m \in 0 .. Round - 1 /\ cmd[s] \in Seq(Packet) /\ dat[s] \in Seq(Beat) /\ DmaTypeOK /\ s \in Source
        /\ p \in 0 .. Beats
    BY DmaTypes DEF DmaInv
  <2>2. p > 0 /\ Length(s) = Beats
    BY DEF DeparserBeat, Length
  <2>3. Beats \in Nat
    BY Sizes
  <2> QED BY <2>1, <2>2, <2>3
<1>1. /\ cmd' = cmd /\ dat' = [dat EXCEPT ![s] = Append(dat[s], b)]
      /\ made' = [made EXCEPT ![s] = m1] /\ part' = [part EXCEPT ![s] = p1]
      /\ UNCHANGED <<arbVars, cmdOut, datOut, left>>
  BY DEF DeparserBeat, arbVars
<1> HIDE DEF m, p
<1>2. x \in Packet /\ m1 \in 0 .. Round - 1 /\ p1 \in 0 .. Beats /\ b \in Beat /\ x.num = m
  <2>1. x \in Packet /\ x.num = m /\ (m + 1) % Round \in 0 .. Round - 1
    BY <1>0, PktIs
  <2>2. p1 \in 0 .. Beats
    BY <1>0, Sizes
  <2> QED BY <1>0, <2>1, <2>2 DEF Beat
<1>p. /\ p1 > 0 => p # Beats
      /\ p = Beats => p1 = 0 /\ m1 = (m + 1) % Round
      /\ p # Beats => p1 = p + 1 /\ p1 > 0 /\ m1 = m
  BY <1>0, Sizes
<1> HIDE DEF x, b, m1, p1
<1>3. Append(dat[s], b) \in Seq(Beat) /\ Append(dat[s], b) # <<>>
  BY <1>0, <1>2, AppendProperties
<1>4. DmaTypeOK'
  BY <1>0, <1>1, <1>2, <1>3 DEF DmaTypeOK, arbVars
<1>5. Wrote(s, x)
  BY <1>0, <1>1, <1>3 DEF Wrote, DmaTypeOK
<1>6. cmd'[s] = cmd[s] /\ dat'[s] = Append(dat[s], b) /\ made'[s] = m1 /\ part'[s] = p1
  BY <1>0, <1>1 DEF DmaTypeOK
<1>8. NumbersOK(s, cmdOut, cmd'[s], made'[s], part'[s])
  <2>1. NumbersOK(s, cmdOut, cmd[s], m, p)
    BY <1>0 DEF DmaInv, Numbered, m, p
  <2>2. \A y : Expected(y, m, p) => Expected(y, m1, p1)
    BY <1>0, <1>p DEF Expected
  <2>3. NumbersOK(s, cmdOut, cmd[s], m1, p1)
    BY <2>1, <2>2, NumberKept
  <2> QED BY <1>6, <2>3
<1>9. ASSUME NEW W \in Seq(Packet), NEW v, SourceOK(s, W, dat[s], v, part[s], made[s])
      PROVE  SourceOK(s, IF cmd'[s] = cmd[s] THEN W ELSE Append(W, x), dat'[s], v, part'[s], made'[s])
  <2>1. Stream(W, dat[s], v, p) /\ (\A i \in DOMAIN W : W[i].src = s) /\ W[Len(W)].num = m
    BY <1>0, <1>9 DEF m, p, SourceOK
  <2>2. Stream(W, Append(dat[s], b), v, IF p = Length(s) THEN 0 ELSE p + 1)
    BY <1>0, <2>1, SourceWrites DEF b, x
  <2>3. Stream(W, Append(dat[s], b), v, p1)
    BY <1>0, <2>2 DEF p1
  <2>4. p1 > 0 => m1 = m
    BY <1>p
  <2> QED BY <1>6, <2>1, <2>3, <2>4 DEF SourceOK
<1> HIDE DEF s
<1> QED BY <1>0, <1>2, <1>4, <1>5, <1>8, <1>9, WroteStep

\* A beat is handed on, with its command when it is the first.
LEMMA ServeStep ==
  ASSUME DmaInv, endFlag, NEW s \in Valid, Forward(s, TRUE), idx' = s, UNCHANGED <<made, part, left>>
  PROVE  DmaInv'
<1> DEFINE c == cmd[s]
           d == dat[s]
           b == d[1]
           x == c[1]
           p == part[s]
           m == made[s]
<1>0. /\ s \in Source /\ c \in Seq(Packet) /\ d \in Seq(Beat) /\ c # <<>> /\ d # <<>> /\ p \in 0 .. Beats
      /\ cmdOut \in Seq(Packet) /\ datOut \in Seq(Beat) /\ DmaTypeOK
  BY DmaTypes DEF Valid, DmaInv
<1>1. /\ Head(c) = x /\ Head(d) = b /\ x \in Packet /\ b \in Beat
      /\ Tail(c) \in Seq(Packet) /\ Tail(d) \in Seq(Beat)
  BY <1>0, Ends1
<1>2. /\ datOut' = Append(datOut, b) /\ dat' = [dat EXCEPT ![s] = Tail(d)]
      /\ cmdOut' = Append(cmdOut, x) /\ cmd' = [cmd EXCEPT ![s] = Tail(c)]
      /\ endFlag' = IsLast(b) /\ burst' = IF ~IsLast(b) THEN x.src ELSE burst
      /\ idx' = s /\ made' = made /\ part' = part /\ left' = left
  BY <1>1 DEF Forward, Ends
<1>3. PICK w \in 0 .. Beats - 1 : Flow(w)
  BY DEF DmaInv
<1>4. /\ Stream(cmdOut, datOut, left, 0)
      /\ \A r \in Source : SourceOK(r, cmd[r], dat[r], 0, part[r], made[r])
  <2>1. w = 0
    BY <1>3 DEF Flow
  <2>2. \A r \in Source : Waiting(r, w) = cmd[r]
    BY <2>1 DEF Waiting
  <2> QED BY <1>3, <2>1, <2>2 DEF Flow
<1> HIDE DEF c, d, p, m
<1>5. /\ x.src = s /\ b = [pkt |-> x, pos |-> 0 + 1] /\ b.pos <= Length(s)
      /\ IF IsLast(b) THEN SourceOK(s, Tail(c), Tail(d), 0, p, m) ELSE SourceOK(s, c, Tail(d), 0 + 1, p, m)
  <2>1. SourceOK(s, c, d, 0, p, m)
    BY <1>0, <1>4 DEF c, d, p, m
  <2> QED BY <1>0, <2>1, SourceTakes
<1>6. IsLast(b) <=> 1 = Length(s)
  BY <1>5 DEF IsLast
<1>u. PICK u \in {0, 1} : u = IF IsLast(b) THEN 0 ELSE 1
  OBVIOUS
<1> HIDE DEF b, x
<1>7. Stream(cmdOut', datOut', left, IF u = 0 THEN 0 ELSE u + 1)
  <2> DEFINE E == Append(cmdOut, x)
  <2>1. Stream(E, datOut, left, 1) /\ E \in Seq(Packet) /\ E[Len(E)] = x
    BY <1>0, <1>1, <1>4, WriteCommand, Ends1
  <2> HIDE DEF E
  <2>2. b = [pkt |-> E[Len(E)], pos |-> 1] /\ 1 \in 1 .. Beats
    BY <1>5, <2>1, Sizes
  <2>3. Stream(E, Append(datOut, b), left, IF 1 = Length(E[Len(E)].src) THEN 0 ELSE 1 + 1)
    BY <1>0, <1>1, <2>1, <2>2, WriteBeat
  <2> QED BY <1>u, <1>2, <1>5, <1>6, <2>1, <2>3 DEF E
<1>8. u \in 0 .. Beats - 1 /\ (endFlag' <=> u = 0)
  <2>1. Length(s) \in 1 .. Beats /\ Beats \in Nat /\ Beats >= 1
    BY Sizes
  <2>2. ~IsLast(b) => Beats - 1 >= 1
    BY <1>6, <2>1
  <2> QED BY <1>u, <1>2, <2>1, <2>2
<1>9. ASSUME NEW r \in Source
      PROVE  SourceOK(r, Waiting(r, u)', dat'[r], IF u # 0 /\ burst' = r THEN u ELSE 0, part'[r], made'[r])
  <2>1. CASE r # s
    <3>1. cmd'[r] = cmd[r] /\ dat'[r] = dat[r] /\ ~(u # 0 /\ burst' = r)
      BY <1>u, <1>0, <1>2, <1>5, <2>1 DEF DmaTypeOK
    <3>2. Waiting(r, u)' = cmd[r]
      BY <3>1 DEF Waiting
    <3> QED BY <1>2, <1>4, <3>1, <3>2
  <2>2. CASE r = s /\ IsLast(b)
    <3>1. cmd'[r] = Tail(c) /\ dat'[r] = Tail(d) /\ u = 0
      BY <1>u, <1>0, <1>2, <2>2 DEF DmaTypeOK
    <3>2. Waiting(r, u)' = Tail(c)
      BY <3>1 DEF Waiting
    <3> QED BY <1>2, <1>5, <2>2, <3>1, <3>2 DEF p, m
  <2>3. CASE r = s /\ ~IsLast(b)
    <3>1. cmd'[r] = Tail(c) /\ dat'[r] = Tail(d) /\ u = 1 /\ burst' = s
      BY <1>u, <1>0, <1>2, <1>5, <2>3 DEF DmaTypeOK
    <3>2. cmdOut'[Len(cmdOut')] = x
      BY <1>0, <1>1, <1>2, Ends1
    <3>3. Waiting(r, u)' = <<x>> \o Tail(c)
      BY <2>3, <3>1, <3>2 DEF Waiting
    <3>4. <<x>> \o Tail(c) = c
      BY <1>0, <1>1, InFront DEF x
    <3>5. SourceOK(s, c, Tail(d), 1, p, m)
      <4>1. 0 + 1 = 1
        OBVIOUS
      <4> QED BY <1>5, <2>3, <4>1
    <3> QED BY <1>2, <2>3, <3>1, <3>3, <3>4, <3>5 DEF p, m
  <2> QED BY <2>1, <2>2, <2>3
<1>10. Flow(u)'
  BY <1>2, <1>7, <1>8, <1>9 DEF Flow
<1>11. Numbered'
  <2> SUFFICES ASSUME NEW r \in Source PROVE NumbersOK(r, cmdOut', cmd'[r], made'[r], part'[r])
    BY DEF Numbered
  <2>0. NumbersOK(r, cmdOut, cmd[r], made[r], part[r])
    BY DEF DmaInv, Numbered
  <2>1. CASE r = s
    <3>1. NumbersOK(s, Append(cmdOut, c[1]), Tail(c), made[r], part[r])
      BY <1>0, <1>5, <2>0, <2>1, NumberTaken DEF c, x
    <3>2. cmd'[s] = Tail(c)
      BY <1>0, <1>2 DEF DmaTypeOK
    <3> QED BY <1>2, <2>1, <3>1, <3>2 DEF x
  <2>2. CASE r # s
    <3>1. cmd'[r] = cmd[r] /\ x.src # r
      BY <1>0, <1>2, <1>5, <2>2 DEF DmaTypeOK
    <3>2. NumbersOK(r, Append(cmdOut, x), cmd[r], made[r], part[r])
      BY <1>0, <1>1, <2>0, <3>1, NumberOther
    <3> QED BY <1>2, <3>1, <3>2
  <2> QED BY <2>1, <2>2
<1>12. Index'
  BY <1>0, <1>2 DEF Index, StallOnlyWhenFull
<1>13. DmaTypeOK'
  <2>1. cmdOut' \in Seq(Packet) /\ datOut' \in Seq(Beat)
    BY <1>0, <1>1, <1>2, AppendProperties
  <2>2. cmd' \in [Source -> Seq(Packet)] /\ dat' \in [Source -> Seq(Beat)]
    BY <1>0, <1>1, <1>2 DEF DmaTypeOK
  <2>3. idx' \in 0 .. Wrap - 1 /\ endFlag' \in BOOLEAN /\ burst' \in Source
    <3>1. s \in 0 .. Wrap - 1
      BY <1>0, ArbiterAssumption DEF Source
    <3> QED BY <1>0, <1>2, <1>5, <3>1 DEF DmaTypeOK, IsLast
  <2> QED BY <1>0, <1>2, <2>1, <2>2, <2>3 DEF DmaTypeOK
<1> QED BY <1>8, <1>10, <1>11, <1>12, <1>13 DEF DmaInv

LEMMA ArbitrateStep == ASSUME DmaInv, Arbitrate PROVE DmaInv'
<1>1. /\ endFlag /\ idx' = Choose(Valid, idx) /\ UNCHANGED <<made, part, left>>
      /\ IF idx' \in Source THEN Forward(idx', TRUE)
         ELSE UNCHANGED <<endFlag, burst, cmd, dat, cmdOut, datOut>>
  BY DEF Arbitrate
<1>2. /\ idx' \in 0 .. Wrap - 1 /\ (idx' \in Source => idx' \in Valid)
      /\ (idx' \notin Source \cup {NoSource} => Valid = Source)
  <2>1. Valid \in SUBSET Source /\ idx \in 0 .. Wrap - 1
    BY DmaTypes DEF Valid, DmaInv
  <2> QED BY <1>1, <2>1, Chosen
<1>3. CASE idx' \in Source
  <2>1. PICK s \in Valid : s = idx'
    BY <1>2, <1>3
  <2> QED BY <1>1, <1>3, <2>1, ServeStep
<1>4. CASE idx' \notin Source
  <2>1. UNCHANGED <<made, part, left, endFlag, burst, cmd, dat, cmdOut, datOut>>
    BY <1>1, <1>4
  <2>2. DmaTypeOK'
    BY <1>2, <2>1 DEF DmaInv, DmaTypeOK
  <2>3. Index'
    <3>1. Valid' = Valid
      BY <2>1 DEF Valid
    <3> QED BY <1>1, <1>2, <2>1, <3>1 DEF Index, StallOnlyWhenFull
  <2>4. Numbered'
    BY <2>1 DEF DmaInv, Numbered
  <2>5. PICK u \in 0 .. Beats - 1 : Flow(u)
    BY DEF DmaInv
  <2>6. \A r \in Source : Waiting(r, u)' = Waiting(r, u)
    BY <2>1 DEF Waiting
  <2>7. Flow(u)'
    BY <2>1, <2>5, <2>6 DEF Flow
  <2> QED BY <2>2, <2>3, <2>4, <2>5, <2>7 DEF DmaInv
<1> QED BY <1>3, <1>4

LEMMA ContinueStep == ASSUME DmaInv, Continue PROVE DmaInv'
<1>s. PICK s \in Source : s = burst
  BY DEF DmaInv, DmaTypeOK
<1> DEFINE d == dat[s]
           b == d[1]
           p == part[s]
           m == made[s]
<1>0. /\ s \in Source /\ d \in Seq(Beat) /\ d # <<>> /\ p \in 0 .. Beats
      /\ cmdOut \in Seq(Packet) /\ datOut \in Seq(Beat) /\ DmaTypeOK /\ ~endFlag
  BY <1>s, DmaTypes DEF Continue, DmaInv
<1>1. /\ Head(d) = b /\ b \in Beat /\ Tail(d) \in Seq(Beat)
  BY <1>0, Ends1
<1>2. /\ datOut' = Append(datOut, b) /\ dat' = [dat EXCEPT ![s] = Tail(d)]
      /\ cmdOut' = cmdOut /\ cmd' = cmd
      /\ endFlag' = IsLast(b) /\ burst' = burst
      /\ idx' = idx /\ made' = made /\ part' = part /\ left' = left
  BY <1>s, <1>1 DEF Continue, Forward, Ends
<1>3. PICK w \in 0 .. Beats - 1 : Flow(w)
  BY DEF DmaInv
<1> DEFINE W == Waiting(s, w)
           y == cmdOut[Len(cmdOut)]
<1>4. w # 0 /\ Stream(cmdOut, datOut, left, w + 1)
  BY <1>0, <1>3 DEF Flow
<1>5. /\ W \in Seq(Packet) /\ W[1] = y /\ Tail(W) = cmd[s] /\ cmdOut # <<>> /\ y \in Packet
      /\ W = <<y>> \o cmd[s]
  BY <1>s, <1>0, <1>3, <1>4, WaitingIs
<1>6. SourceOK(s, W, d, w, p, m)
  BY <1>s, <1>0, <1>3, <1>4 DEF Flow
<1> HIDE DEF d, p, m, W, y
<1>7. /\ y.src = s /\ b = [pkt |-> y, pos |-> w + 1] /\ w + 1 \in 1 .. Beats /\ b.pos <= Length(s)
      /\ IF IsLast(b) THEN SourceOK(s, Tail(W), Tail(d), 0, p, m) ELSE SourceOK(s, W, Tail(d), w + 1, p, m)
  <2>0. W \in Seq(Packet) /\ d \in Seq(Beat) /\ p \in 0 .. Beats /\ d # <<>> /\ SourceOK(s, W, d, w, p, m)
    BY <1>0, <1>5, <1>6
  <2> HIDE DEF b
  <2>1. /\ W[1].src = s /\ d[1] = [pkt |-> W[1], pos |-> w + 1] /\ w + 1 \in 1 .. Beats /\ d[1].pos <= Length(s)
        /\ IF IsLast(d[1]) THEN SourceOK(s, Tail(W), Tail(d), 0, p, m) ELSE SourceOK(s, W, Tail(d), w + 1, p, m)
    BY ONLY <2>0, SourceTakes, s \in Source
  <2> QED BY <1>5, <2>1 DEF b
<1>8. IsLast(b) <=> w + 1 = Length(s)
  BY <1>7 DEF IsLast
<1>u. PICK u : u = IF IsLast(b) THEN 0 ELSE w + 1
  OBVIOUS
<1> HIDE DEF b
<1>9. Stream(cmdOut, Append(datOut, b), left, IF u = 0 THEN 0 ELSE u + 1)
  <2>1. Stream(cmdOut, Append(datOut, b), left, IF w + 1 = Length(y.src) THEN 0 ELSE (w + 1) + 1)
    BY <1>0, <1>1, <1>4, <1>7, WriteBeat DEF y
  <2>2. w + 1 # 0
    BY <1>7
  <2> QED BY <1>u, <1>7, <1>8, <2>1, <2>2
<1>10. u \in 0 .. Beats - 1 /\ (endFlag' <=> u = 0)
  <2>1. Length(s) \in 1 .. Beats /\ Beats \in Nat /\ Beats >= 1
    BY Sizes
  <2>2. w + 1 <= Length(s)
    BY <1>7
  <2> QED BY <1>u, <1>2, <1>7, <1>8, <2>1, <2>2
<1>11. ASSUME NEW r \in Source
       PROVE  SourceOK(r, Waiting(r, u)', dat'[r], IF u # 0 /\ burst' = r THEN u ELSE 0, part'[r], made'[r])
  <2>1. CASE r # s
    <3>1. cmd'[r] = cmd[r] /\ dat'[r] = dat[r] /\ ~(u # 0 /\ burst' = r) /\ ~(w # 0 /\ burst = r)
      BY <1>s, <1>0, <1>2, <2>1 DEF DmaTypeOK
    <3>2. Waiting(r, u)' = cmd[r] /\ Waiting(r, w) = cmd[r]
      BY <3>1 DEF Waiting
    <3>3. SourceOK(r, Waiting(r, w), dat[r], IF w # 0 /\ burst = r THEN w ELSE 0, part[r], made[r])
      BY <1>3 DEF Flow
    <3> QED BY <1>2, <3>1, <3>2, <3>3
  <2>2. CASE r = s /\ IsLast(b)
    <3>1. cmd'[r] = Tail(W) /\ dat'[r] = Tail(d) /\ u = 0
      BY <1>s, <1>u, <1>0, <1>2, <1>5, <2>2 DEF DmaTypeOK
    <3>2. Waiting(r, u)' = Tail(W)
      BY <3>1 DEF Waiting
    <3> QED BY <1>2, <1>7, <2>2, <3>1, <3>2 DEF p, m
  <2>3. CASE r = s /\ ~IsLast(b)
    <3>1. cmd'[r] = cmd[r] /\ dat'[r] = Tail(d) /\ u = w + 1 /\ u # 0 /\ burst' = r
      BY <1>s, <1>u, <1>0, <1>2, <1>7, <2>3 DEF DmaTypeOK
    <3>2. Waiting(r, u)' = W
      BY <1>s, <1>2, <1>5, <2>3, <3>1 DEF Waiting, y
    <3> QED BY <1>2, <1>7, <2>3, <3>1, <3>2 DEF p, m
  <2> QED BY <2>1, <2>2, <2>3
<1>12. Flow(u)'
  BY <1>u, <1>2, <1>9, <1>10, <1>11 DEF Flow
<1>13. Numbered'
  BY <1>2 DEF DmaInv, Numbered
<1>14. Index'
  BY <1>0, <1>2 DEF DmaInv, Index, StallOnlyWhenFull
<1>15. DmaTypeOK'
  <2>1. datOut' \in Seq(Beat)
    BY <1>0, <1>1, <1>2, AppendProperties
  <2>2. dat' \in [Source -> Seq(Beat)] /\ endFlag' \in BOOLEAN
    BY <1>0, <1>1, <1>2 DEF DmaTypeOK, IsLast
  <2> QED BY <1>0, <1>2, <2>1, <2>2 DEF DmaTypeOK
<1> QED BY <1>10, <1>12, <1>13, <1>14, <1>15 DEF DmaInv

LEMMA EngineStep == ASSUME DmaInv, Engine PROVE DmaInv'
<1> DEFINE b == datOut[1]
<1>0. /\ cmdOut \in Seq(Packet) /\ datOut \in Seq(Beat) /\ DmaTypeOK /\ cmdOut # <<>> /\ datOut # <<>>
      /\ Head(datOut) = b /\ Tail(datOut) \in Seq(Beat) /\ Tail(cmdOut) \in Seq(Packet)
  BY DmaTypes, Ends1 DEF Engine, DmaInv
<1>1. /\ datOut' = Tail(datOut)
      /\ IF IsLast(b) THEN cmdOut' = Tail(cmdOut) /\ left' = 0 ELSE left' = left + 1 /\ cmdOut' = cmdOut
      /\ UNCHANGED <<made, part, cmd, dat, idx, endFlag, burst>>
  BY <1>0 DEF Engine, srcVars, arbVars
<1>2. PICK u \in 0 .. Beats - 1 : Flow(u)
  BY DEF DmaInv
<1> DEFINE p == IF u = 0 THEN 0 ELSE u + 1
<1>3. Stream(cmdOut, datOut, left, p)
  BY <1>2 DEF Flow
<1>4. u # 0 => p # 0
  BY <1>2, Sizes
<1> HIDE DEF p
<1>5. /\ b = [pkt |-> cmdOut[1], pos |-> left + 1] /\ left + 1 \in 1 .. Beats /\ b.pos <= Length(b.pkt.src)
      /\ IF IsLast(b) THEN Stream(Tail(cmdOut), Tail(datOut), 0, p) ELSE Stream(cmdOut, Tail(datOut), left + 1, p)
  BY <1>0, <1>3, TakeBeat
<1> HIDE DEF b
<1>6. Stream(cmdOut', datOut', left', p)
  BY <1>1, <1>5
<1>7. u # 0 => cmdOut'[Len(cmdOut')] = cmdOut[Len(cmdOut)]
  <2>1. CASE IsLast(b) /\ u # 0
    <3>1. Tail(cmdOut) # <<>>
      BY <1>0, <1>4, <1>5, <2>1, OpenStream
    <3>2. /\ Len(Tail(cmdOut)) = Len(cmdOut) - 1 /\ Len(cmdOut) \in Nat /\ Len(Tail(cmdOut)) > 0
          /\ \A i \in 1 .. Len(cmdOut) - 1 : Tail(cmdOut)[i] = cmdOut[i + 1]
      BY <1>0, <3>1, Ends1
    <3>3. Tail(cmdOut)[Len(Tail(cmdOut))] = cmdOut[Len(cmdOut)]
      BY <3>2
    <3> QED BY <1>1, <2>1, <3>3
  <2>2. CASE ~IsLast(b)
    BY <1>1, <2>2
  <2> QED BY <2>1, <2>2
<1>8. \A r \in Source : Waiting(r, u)' = Waiting(r, u)
  BY <1>1, <1>7 DEF Waiting
<1>9. Flow(u)'
  BY <1>1, <1>2, <1>6, <1>8 DEF Flow, p
<1>10. Numbered'
  <2> SUFFICES ASSUME NEW r \in Source PROVE NumbersOK(r, cmdOut', cmd[r], made[r], part[r])
    BY <1>1 DEF Numbered
  <2>0. NumbersOK(r, cmdOut, cmd[r], made[r], part[r])
    BY DEF DmaInv, Numbered
  <2>1. NumbersOK(r, Tail(cmdOut), cmd[r], made[r], part[r])
    BY <1>0, <2>0, NumberDone
  <2> QED BY <1>1, <2>0, <2>1
<1>11. Index'
  <2>1. Valid' = Valid
    BY <1>1 DEF Valid
  <2> QED BY <1>1, <2>1 DEF DmaInv, Index, StallOnlyWhenFull
<1>12. left' \in 0 .. Beats - 1
  <2>1. Beats \in Nat /\ Beats >= 1 /\ Length(b.pkt.src) \in 1 .. Beats /\ left \in 0 .. Beats - 1
    BY <1>0, Sizes, DmaTypes
  <2>2. CASE IsLast(b)
    BY <1>1, <2>1, <2>2
  <2>3. CASE ~IsLast(b)
    <3>1. left + 1 # Length(b.pkt.src) /\ left + 1 <= Length(b.pkt.src)
      BY <1>5, <2>3 DEF IsLast
    <3> QED BY <1>1, <2>1, <2>3, <3>1
  <2> QED BY <2>2, <2>3
<1>13. DmaTypeOK'
  BY <1>0, <1>1, <1>12 DEF DmaTypeOK
<1> QED BY <1>2, <1>9, <1>10, <1>11, <1>13 DEF DmaInv

LEMMA DmaNextInv == DmaInv /\ [DmaNext]_dmaVars => DmaInv'
<1> SUFFICES ASSUME DmaInv, [DmaNext]_dmaVars PROVE DmaInv'
  OBVIOUS
<1>1. CASE DmaNext
  BY <1>1, ManagerStep, DeparserCmdStep, DeparserBeatStep, ArbitrateStep, ContinueStep, EngineStep DEF DmaNext
<1>2. CASE UNCHANGED dmaVars
  <2>1. UNCHANGED <<made, part, cmd, dat, idx, endFlag, burst, cmdOut, datOut, left>>
    BY <1>2 DEF dmaVars, srcVars, arbVars
  <2>2. DmaTypeOK' /\ Numbered'
    BY <2>1 DEF DmaInv, DmaTypeOK, Numbered
  <2>3. Index'
    BY <2>1 DEF DmaInv, Index, StallOnlyWhenFull, Valid
  <2>4. PICK u \in 0 .. Beats - 1 : Flow(u)
    BY DEF DmaInv
  <2>5. Flow(u)'
    BY <2>1, <2>4 DEF Flow, Waiting
  <2> QED BY <2>2, <2>3, <2>4, <2>5 DEF DmaInv
<1> QED BY <1>1, <1>2

\* The arbiter in front of the DMA engine keeps commands and beats in step: every
\* beat goes to the address of its own packet, the packets of each source stay
\* consecutive, and only a cycle in which all three sources wait is lost.  For
\* any length of a line, any depth of the streams and any width of the index.
THEOREM DmaKeepsOrder == DmaSpec => []DmaInOrder
<1>1. DmaInv => DmaInOrder
  <2> SUFFICES ASSUME DmaInv PROVE DmaInOrder
    OBVIOUS
  <2>1. DmaTypeOK /\ StallOnlyWhenFull
    BY DEF DmaInv, Index
  <2>2. OwnAddress
    <3>1. PICK u \in 0 .. Beats - 1 : Flow(u)
      BY DEF DmaInv
    <3>2. PICK p : Stream(cmdOut, datOut, left, p)
      BY <3>1 DEF Flow
    <3>3. cmdOut \in Seq(Packet) /\ datOut \in Seq(Beat)
      BY <2>1, DmaTypes
    <3> SUFFICES ASSUME cmdOut # <<>>, datOut # <<>>
                 PROVE  Head(datOut) = [pkt |-> Head(cmdOut), pos |-> left + 1]
      BY DEF OwnAddress
    <3>4. datOut[1] = [pkt |-> cmdOut[1], pos |-> left + 1]
      BY <3>2, <3>3, TakeBeat
    <3> QED BY <3>3, <3>4, Ends1
  <2>3. Consecutive
    BY DEF DmaInv, Numbered, NumbersOK, Consecutive, NewestOut
  <2> QED BY <2>1, <2>2, <2>3 DEF DmaInOrder
<1> QED BY DmaInitInv, DmaNextInv, <1>1, PTL DEF DmaSpec

------------------------------------------------------------------------------
(* From card to card no line goes astray.  The proof keeps track of two      *)
(* orders: O, in which the parser gets the messages, and G, in which data is *)
(* fetched.                                                                  *)

LineBeat == [msg : Message, pos : 1 .. LineBeats]

Stage == {"MAC", "CTRL", "DATA"}

OnWire == [kind : Stage, msg : Message, pos : 0 .. LineBeats]

Command == [msg : Message, at : {"dir_gblock_addr", "req_cline_addr"}]

NetTypes ==
  /\ sent \in [Sender -> Nat]
  /\ inq \in [Sender -> Seq(Message)] /\ merged \in Seq(Message)
  /\ held \in Message \cup {NoMsg} /\ loop \in Seq(Message)
  /\ fetch \in Seq(LineBeat) /\ fetched \in Seq(LineBeat) /\ data \in Seq(LineBeat)
  /\ inLine \in BOOLEAN
  /\ ctrl \in Seq(Message)
  /\ stage \in Stage /\ rstage \in Stage
  /\ sending \in Message \cup {NoMsg}
  /\ wire \in Seq(OnWire)
  /\ toCtrl \in Seq([msg : Message, goal : Sender])
  /\ toHost \in [cmd : Seq(Command), beat : Seq(OnWire)]

\* The beats of the first k lines.
Upto(k) == LineBeats * k

\* Beat b is the n-th of all beats, when the lines are those of the messages G.
IsBeat(G, b, n) ==
  \E k \in 1 .. Len(G) : \E p \in 1 .. LineBeats : n = Upto(k - 1) + p /\ b.msg = G[k] /\ b.pos = p

\* n beats end within line k, or just before it.
InLine(n, k) == \E p \in 0 .. LineBeats - 1 : n = Upto(k - 1) + p

\* rk: how many of the first messages of O have data, and so how many of G's are in O.
Ranked(O, G, rk) ==
  /\ O \in Seq(Message) /\ G \in Seq(Message) /\ rk \in [0 .. Len(O) -> Nat] /\ rk[0] = 0
  /\ \A i \in 1 .. Len(O) :
       \/ HasData(O[i]) /\ rk[i] = rk[i - 1] + 1 /\ rk[i] <= Len(G) /\ G[rk[i]] = O[i]
       \/ ~HasData(O[i]) /\ rk[i] = rk[i - 1]
  /\ \A i \in 0 .. Len(O) : rk[i] <= Len(G)
  /\ \A k \in 1 .. Len(G) : HasData(G[k])

\* What waits for its data is the rest of G.
Awaited(O, G, rk) ==
  /\ Len(G) = rk[Len(O)] + Len(loop) + (IF held = NoMsg THEN 0 ELSE 1)
  /\ \A j \in 1 .. Len(loop) : loop[j] = G[rk[Len(O)] + j]
  /\ held # NoMsg => held = G[Len(G)]

Clear(x, y) == x.from = y.from => x.num < y.num

\* x may go before y.
MayPass(x, y) == x # y /\ (Before(y, x) => HasData(y) /\ ~HasData(x))

\* A message that has left its sender's stream.
Left(x) == x.num <= sent[x.from] /\ \A j \in 1 .. Len(inq[x.from]) : x.num < inq[x.from][j].num

Gone(x) == Left(x) /\ \A j \in 1 .. Len(merged) : Clear(x, merged[j])

Queued(s) ==
  \A i \in 1 .. Len(inq[s]) :
    /\ inq[s][i].from = s /\ inq[s][i].num <= sent[s]
    /\ \A j \in 1 .. Len(inq[s]) : i < j => inq[s][i].num < inq[s][j].num

Merged ==
  /\ \A i \in 1 .. Len(merged) : Left(merged[i])
  /\ \A i, j \in 1 .. Len(merged) : i < j => Clear(merged[i], merged[j])

\* w: how many of G's messages are in O.
InOrder(O, G, w) ==
  /\ \A i, j \in 1 .. Len(O) : i < j => MayPass(O[i], O[j])
  /\ \A i \in 1 .. Len(O) : \A k \in w + 1 .. Len(G) : MayPass(O[i], G[k])
  /\ \A k, j \in 1 .. Len(G) : k < j => Clear(G[k], G[j])

Ordered(O, G) ==
  /\ \A i \in 1 .. Len(O) : Gone(O[i])
  /\ \A k \in 1 .. Len(G) : Gone(G[k])
  /\ Merged
  /\ \A s \in Sender : Queued(s)

\* Beats come in the order of the lines; d of them are past `data`.
Coming(G, d) ==
  /\ \A i \in 1 .. Len(data) : IsBeat(G, data[i], d + i)
  /\ \A i \in 1 .. Len(fetched) : IsBeat(G, fetched[i], d + Len(data) + i)
  /\ Len(fetch) <= Len(G)
  /\ \A j \in 1 .. Len(fetch) : fetch[j].msg = G[Len(G) - Len(fetch) + j] /\ (j > 1 => fetch[j].pos = 1)
  /\ fetch = <<>> => d + Len(data) + Len(fetched) = Upto(Len(G))
  /\ fetch # <<>> => d + Len(data) + Len(fetched) = Upto(Len(G) - Len(fetch)) + fetch[1].pos - 1

\* n beats have got to `data`, and the messages of the first w lines have gone on.
Passed(w, n) ==
  /\ ~inLine => n = Upto(w)
  /\ inLine => w > 0 /\ n # Upto(w - 1) /\ InLine(n, w)

\* The parser has written c control beats and d beats of data.
Parsing(O, rk, c, d) ==
  /\ c \in Nat /\ d \in Nat
  /\ Len(O) = c + (IF stage = "CTRL" THEN 1 ELSE 0) + Len(ctrl)
  /\ \A i \in 1 .. Len(ctrl) : ctrl[i] = O[Len(O) - Len(ctrl) + i]
  /\ stage = "CTRL" => sending = O[c + 1]
  /\ stage # "DATA" => d = Upto(rk[c])
  /\ stage = "DATA" => c > 0 /\ sending = O[c] /\ HasData(O[c]) /\ InLine(d, rk[c])

\* What follows a beat in its frame.
Follows(b) ==
  IF b.kind = "MAC" THEN "CTRL"
  ELSE IF b.kind = "CTRL" THEN IF HasData(b.msg) THEN "DATA" ELSE "MAC"
  ELSE IF b.pos = LineBeats THEN "MAC" ELSE "DATA"

\* Of the wire's beat b: o0 and d0 control and data beats are before it, o and d with it.
Fits(O, G, b, o0, o, d0, d) ==
  \/ b.kind = "MAC" /\ o = o0 /\ d = d0
  \/ b.kind = "CTRL" /\ o = o0 + 1 /\ d = d0 /\ o <= Len(O) /\ b.msg = O[o]
  \/ b.kind = "DATA" /\ o = o0 /\ d = d0 + 1 /\ IsBeat(G, b, d)

\* wo, wb: control beats and data beats written up to beat i of the wire.
Wired(w, s, rs, O, G, wo, wb) ==
  /\ w \in Seq(OnWire) /\ wo \in [0 .. Len(w) -> Nat] /\ wb \in [0 .. Len(w) -> Nat]
  /\ \A i \in 1 .. Len(w) : Fits(O, G, w[i], wo[i - 1], wo[i], wb[i - 1], wb[i])
  /\ w = <<>> => s = rs
  /\ w # <<>> => w[1].kind = rs /\ Follows(w[Len(w)]) = s
  /\ \A i \in 1 .. Len(w) - 1 : w[i + 1].kind = Follows(w[i])

Received(O, G, rk, r, n) ==
  /\ r = Len(toCtrl) /\ n = Len(toHost.beat)
  /\ r <= Len(O) /\ \A i \in 1 .. r : toCtrl[i] = [msg |-> O[i], goal |-> Goal(O[i])]
  /\ Len(toHost.cmd) = rk[r] /\ rk[r] <= Len(G)
  /\ \A k \in 1 .. rk[r] : toHost.cmd[k] = [msg |-> G[k], at |-> StoreAt(G[k])]
  /\ \A i \in 1 .. n : IsBeat(G, toHost.beat[i], i)
  /\ rstage # "DATA" => n = Upto(rk[r])
  /\ rstage = "DATA" => r > 0 /\ HasData(O[r]) /\ InLine(n, rk[r])

\* The invariant, for one choice of the orders and counts.
NetHolds(O, G, rk, wo, wb) ==
  /\ Ranked(O, G, rk) /\ Awaited(O, G, rk)
  /\ InOrder(O, G, rk[Len(O)]) /\ Ordered(O, G)
  /\ Wired(wire, stage, rstage, O, G, wo, wb)
  /\ Coming(G, wb[Len(wire)])
  /\ Passed(rk[Len(O)], wb[Len(wire)] + Len(data))
  /\ Parsing(O, rk, wo[Len(wire)], wb[Len(wire)])
  /\ Received(O, G, rk, wo[0], wb[0])

PathInv == NetTypes /\ \E O, G, rk, wo, wb : NetHolds(O, G, rk, wo, wb)

\* What the assumption says of sizes.
LEMMA NetSizes == LineBeats \in Nat \ {0} /\ NetDepth \in Nat \ {0} /\ LoopDepth \in Nat \ {0} /\ NoMsg \notin Message
BY NetPathAssumption

\* Lines are whole and follow each other.
LEMMA UptoNext ==
  ASSUME NEW k \in Nat
  PROVE  /\ Upto(k) \in Nat /\ Upto(0) = 0 /\ Upto(k + 1) = Upto(k) + LineBeats
<1>1. LineBeats \in Nat /\ LineBeats * k \in Nat
  BY NetSizes
<1>2. LineBeats * (k + 1) = LineBeats * k + LineBeats
  BY <1>1
<1>3. LineBeats * 0 = 0
  BY <1>1
<1> QED BY <1>1, <1>2, <1>3 DEF Upto

\* The beats of later lines come later.
LEMMA UptoMono ==
  ASSUME NEW j \in Nat, NEW k \in Nat, j <= k
  PROVE  Upto(j) <= Upto(k) /\ Upto(j) \in Nat /\ Upto(k) \in Nat
<1>1. PICK e \in Nat : k = j + e
  <2>1. k - j \in Nat /\ k = j + (k - j)
    OBVIOUS
  <2> QED BY <2>1
<1>2. LineBeats \in Nat /\ LineBeats * e \in Nat /\ LineBeats * j \in Nat /\ LineBeats * k \in Nat
  BY NetSizes
<1>3. LineBeats * k = LineBeats * j + LineBeats * e
  BY <1>1, <1>2
<1> QED BY <1>2, <1>3 DEF Upto

\* A number is in one line only, at one place.
LEMMA OnePlace ==
  ASSUME NEW j \in Nat, NEW k \in Nat, NEW p \in 0 .. LineBeats - 1, NEW q \in 0 .. LineBeats - 1,
         Upto(j) + p = Upto(k) + q
  PROVE  j = k /\ p = q
<1>0. LineBeats \in Nat /\ Upto(j) \in Nat /\ Upto(k) \in Nat /\ p \in Nat /\ q \in Nat
      /\ p < LineBeats /\ q < LineBeats
  BY NetSizes, UptoNext
<1>1. CASE j < k
  <2>1. Upto(j + 1) <= Upto(k) /\ Upto(j + 1) = Upto(j) + LineBeats
    <3>1. j + 1 \in Nat /\ j + 1 <= k
      BY <1>1
    <3> QED BY <3>1, UptoMono, UptoNext
  <2> QED BY <1>0, <2>1
<1>2. CASE k < j
  <2>1. Upto(k + 1) <= Upto(j) /\ Upto(k + 1) = Upto(k) + LineBeats
    <3>1. k + 1 \in Nat /\ k + 1 <= j
      BY <1>2
    <3> QED BY <3>1, UptoMono, UptoNext
  <2> QED BY <1>0, <2>1
<1>3. CASE j = k
  BY <1>0, <1>3
<1> QED BY <1>1, <1>2, <1>3

\* The beat after one that ends within line k is of that line.
LEMMA BeatAfter ==
  ASSUME NEW G \in Seq(Message), NEW k \in Nat \ {0}, NEW p \in 0 .. LineBeats - 1, NEW n,
         n = Upto(k - 1) + p, NEW b, IsBeat(G, b, n + 1)
  PROVE  /\ k <= Len(G) /\ b.msg = G[k] /\ b.pos = p + 1
         /\ b.pos = LineBeats => n + 1 = Upto(k)
         /\ b.pos # LineBeats => InLine(n + 1, k) /\ n + 1 # Upto(k - 1)
<1>1. PICK k2 \in 1 .. Len(G), p2 \in 1 .. LineBeats : n + 1 = Upto(k2 - 1) + p2 /\ b.msg = G[k2] /\ b.pos = p2
  BY DEF IsBeat
<1>2. Len(G) \in Nat /\ LineBeats \in Nat \ {0} /\ k - 1 \in Nat /\ k2 - 1 \in Nat /\ k2 \in Nat
      /\ p2 - 1 \in 0 .. LineBeats - 1 /\ p \in Nat /\ p2 \in Nat
  <2>1. Len(G) \in Nat /\ LineBeats \in Nat \ {0}
    BY NetSizes, LenProperties
  <2> QED BY <2>1
<1>3. Upto(k - 1) \in Nat /\ Upto(k2 - 1) \in Nat
  BY <1>2, UptoNext
<1>4. Upto(k - 1) + p = Upto(k2 - 1) + (p2 - 1)
  BY <1>1, <1>2, <1>3, SMTT(30)
<1>5. k - 1 = k2 - 1 /\ p = p2 - 1
  BY <1>2, <1>4, OnePlace
<1>6. k = k2 /\ p2 = p + 1
  BY <1>2, <1>5
<1>7. Upto(k) = Upto(k - 1) + LineBeats
  <2>1. k - 1 + 1 = k
    OBVIOUS
  <2> QED BY <1>2, <2>1, UptoNext
<1>8. n + 1 = Upto(k - 1) + (p + 1)
  BY <1>2, <1>3
<1>9. b.pos = LineBeats => n + 1 = Upto(k)
  BY <1>1, <1>6, <1>7, <1>8
<1>10. ASSUME b.pos # LineBeats PROVE InLine(n + 1, k) /\ n + 1 # Upto(k - 1)
  <2>1. p + 1 \in 0 .. LineBeats - 1
    BY <1>1, <1>2, <1>6, <1>10
  <2>2. n + 1 # Upto(k - 1)
    BY <1>2, <1>3, <1>8
  <2> QED BY <1>8, <2>1, <2>2 DEF InLine
<1> QED BY <1>1, <1>2, <1>6, <1>9, <1>10

\* The beat that starts line k.
LEMMA FirstBeat ==
  ASSUME NEW G \in Seq(Message), NEW k \in Nat, NEW b, IsBeat(G, b, Upto(k) + 1)
  PROVE  /\ k + 1 <= Len(G) /\ b.msg = G[k + 1] /\ b.pos = 1
         /\ b.pos = LineBeats => Upto(k) + 1 = Upto(k + 1)
         /\ b.pos # LineBeats => InLine(Upto(k) + 1, k + 1) /\ Upto(k) + 1 # Upto(k)
<1>1. k + 1 \in Nat \ {0} /\ k + 1 - 1 = k /\ 0 \in 0 .. LineBeats - 1
  BY NetSizes
<1>2. Upto(k) \in Nat
  BY UptoNext
<1>3. Upto(k) = Upto(k + 1 - 1) + 0
  BY <1>1, <1>2
<1>4. /\ k + 1 <= Len(G) /\ b.msg = G[k + 1] /\ b.pos = 0 + 1
      /\ b.pos = LineBeats => Upto(k) + 1 = Upto(k + 1)
      /\ b.pos # LineBeats => InLine(Upto(k) + 1, k + 1) /\ Upto(k) + 1 # Upto(k + 1 - 1)
  BY <1>1, <1>3, BeatAfter
<1> QED BY <1>1, <1>4

\* What a sequence grows by is not seen by what is said of its first elements.
Extends(s, t) == Len(s) <= Len(t) /\ \A i \in 1 .. Len(s) : t[i] = s[i]

\* A beat keeps its place when a message is added to the row.
LEMMA BeatKept ==
  ASSUME NEW G \in Seq(Message), NEW G2 \in Seq(Message), Extends(G, G2), NEW b, NEW n, IsBeat(G, b, n)
  PROVE  IsBeat(G2, b, n)
<1>1. Len(G) \in Nat /\ Len(G2) \in Nat /\ Len(G) <= Len(G2)
  BY LenProperties DEF Extends
<1>2. PICK k \in 1 .. Len(G) : \E p \in 1 .. LineBeats : n = Upto(k - 1) + p /\ b.msg = G[k] /\ b.pos = p
  BY DEF IsBeat
<1>3. k \in 1 .. Len(G2) /\ G2[k] = G[k]
  BY <1>1 DEF Extends
<1> QED BY <1>2, <1>3 DEF IsBeat

\* The messages the parser has got grow by one, which has its data or none.
RankOf(O, rk, m) ==
  [i \in 0 .. Len(O) + 1 |->
    IF i <= Len(O) THEN rk[i] ELSE IF HasData(m) THEN rk[Len(O)] + 1 ELSE rk[Len(O)]]

\* A message joins the first order.
LEMMA MoreOut ==
  ASSUME NEW O, NEW G, NEW rk, Ranked(O, G, rk), NEW m \in Message,
         HasData(m) => rk[Len(O)] + 1 <= Len(G) /\ G[rk[Len(O)] + 1] = m
  PROVE  LET O2 == Append(O, m)
             rk2 == RankOf(O, rk, m)
         IN /\ Ranked(O2, G, rk2) /\ Extends(O, O2) /\ Len(O2) = Len(O) + 1 /\ O2[Len(O) + 1] = m
            /\ \A i \in 0 .. Len(O) : rk2[i] = rk[i]
            /\ rk2[Len(O) + 1] = IF HasData(m) THEN rk[Len(O)] + 1 ELSE rk[Len(O)]
<1> DEFINE O2 == Append(O, m)
           rk2 == RankOf(O, rk, m)
<1>1. O \in Seq(Message) /\ G \in Seq(Message) /\ rk \in [0 .. Len(O) -> Nat] /\ Len(O) \in Nat /\ Len(G) \in Nat
  BY LenProperties DEF Ranked
<1>2. O2 \in Seq(Message) /\ Len(O2) = Len(O) + 1 /\ O2[Len(O) + 1] = m /\ \A i \in 1 .. Len(O) : O2[i] = O[i]
  BY <1>1, Appended
<1>3. /\ \A i \in 0 .. Len(O) : rk2[i] = rk[i]
      /\ rk2[Len(O) + 1] = IF HasData(m) THEN rk[Len(O)] + 1 ELSE rk[Len(O)]
  BY <1>1 DEF RankOf
<1>4. rk2 \in [0 .. Len(O2) -> Nat]
  BY <1>1, <1>2 DEF RankOf
<1> HIDE DEF O2, rk2
<1>5. Extends(O, O2)
  BY <1>1, <1>2 DEF Extends
<1>6. rk2[0] = 0
  BY <1>1, <1>3 DEF Ranked
<1>7. ASSUME NEW i \in 1 .. Len(O2)
      PROVE  \/ HasData(O2[i]) /\ rk2[i] = rk2[i - 1] + 1 /\ rk2[i] <= Len(G) /\ G[rk2[i]] = O2[i]
             \/ ~HasData(O2[i]) /\ rk2[i] = rk2[i - 1]
  <2>1. CASE i \in 1 .. Len(O)
    <3>1. O2[i] = O[i] /\ rk2[i] = rk[i] /\ rk2[i - 1] = rk[i - 1]
      BY <1>1, <1>2, <1>3, <2>1
    <3> QED BY <2>1, <3>1 DEF Ranked
  <2>2. CASE i = Len(O) + 1
    <3>1. O2[i] = m /\ rk2[i - 1] = rk[Len(O)] /\ rk2[i] = IF HasData(m) THEN rk[Len(O)] + 1 ELSE rk[Len(O)]
      BY <1>1, <1>2, <1>3, <2>2
    <3> QED BY <3>1
  <2> QED BY <1>1, <1>2, <2>1, <2>2
<1>8. \A i \in 0 .. Len(O2) : rk2[i] <= Len(G)
  <2>1. rk[Len(O)] <= Len(G)
    BY <1>1 DEF Ranked
  <2>2. \A i \in 0 .. Len(O) : rk2[i] <= Len(G)
    BY <1>3 DEF Ranked
  <2>3. rk2[Len(O) + 1] <= Len(G)
    BY <1>1, <1>3, <2>1
  <2> QED BY <1>1, <1>2, <2>2, <2>3
<1>9. \A k \in 1 .. Len(G) : HasData(G[k])
  BY DEF Ranked
<1>10. Ranked(O2, G, rk2)
  BY <1>1, <1>2, <1>4, <1>6, <1>7, <1>8, <1>9 DEF Ranked
<1> QED BY <1>2, <1>3, <1>5, <1>10 DEF O2, rk2

\* The messages with data grow by one.
LEMMA MoreData ==
  ASSUME NEW O, NEW G, NEW rk, Ranked(O, G, rk), NEW m \in Message, HasData(m)
  PROVE  LET G2 == Append(G, m)
         IN Ranked(O, G2, rk) /\ Extends(G, G2) /\ Len(G2) = Len(G) + 1 /\ G2[Len(G) + 1] = m
<1> DEFINE G2 == Append(G, m)
<1>1. O \in Seq(Message) /\ G \in Seq(Message) /\ rk \in [0 .. Len(O) -> Nat] /\ Len(O) \in Nat /\ Len(G) \in Nat
  BY LenProperties DEF Ranked
<1>2. G2 \in Seq(Message) /\ Len(G2) = Len(G) + 1 /\ G2[Len(G) + 1] = m /\ \A i \in 1 .. Len(G) : G2[i] = G[i]
  BY <1>1, Appended
<1> HIDE DEF G2
<1>3. Extends(G, G2)
  BY <1>1, <1>2 DEF Extends
<1>4. ASSUME NEW i \in 1 .. Len(O)
      PROVE  \/ HasData(O[i]) /\ rk[i] = rk[i - 1] + 1 /\ rk[i] <= Len(G2) /\ G2[rk[i]] = O[i]
             \/ ~HasData(O[i]) /\ rk[i] = rk[i - 1]
  <2>1. CASE HasData(O[i]) /\ rk[i] = rk[i - 1] + 1 /\ rk[i] <= Len(G) /\ G[rk[i]] = O[i]
    <3>1. rk[i] \in 1 .. Len(G)
      BY <1>1, <2>1
    <3> QED BY <1>1, <1>2, <2>1, <3>1
  <2>2. CASE ~HasData(O[i]) /\ rk[i] = rk[i - 1]
    BY <2>2
  <2> QED BY <2>1, <2>2 DEF Ranked
<1>5. ASSUME NEW i \in 0 .. Len(O) PROVE rk[i] <= Len(G2)
  <2>1. rk[i] <= Len(G) /\ rk[i] \in Nat
    BY <1>1 DEF Ranked
  <2> QED BY <1>1, <1>2, <2>1
<1>6. \A k \in 1 .. Len(G2) : HasData(G2[k])
  <2>1. \A k \in 1 .. Len(G) : HasData(G[k])
    BY DEF Ranked
  <2> QED BY <1>1, <1>2, <2>1
<1>7. rk[0] = 0
  BY DEF Ranked
<1>8. Ranked(O, G2, rk)
  BY <1>1, <1>2, <1>4, <1>5, <1>6, <1>7 DEF Ranked
<1> QED BY <1>2, <1>3, <1>8 DEF G2

\* What is on the wire does not depend on what comes after.
LEMMA WiredGrows ==
  ASSUME NEW w, NEW s, NEW rs, NEW O \in Seq(Message), NEW G \in Seq(Message), NEW wo, NEW wb,
         Wired(w, s, rs, O, G, wo, wb),
         NEW O2 \in Seq(Message), NEW G2 \in Seq(Message), Extends(O, O2), Extends(G, G2)
  PROVE  Wired(w, s, rs, O2, G2, wo, wb)
<1>1. Len(O) \in Nat /\ Len(O2) \in Nat /\ Len(O) <= Len(O2) /\ Len(w) \in Nat
  BY LenProperties DEF Extends, Wired
<1>2. ASSUME NEW i \in 1 .. Len(w)
      PROVE  Fits(O2, G2, w[i], wo[i - 1], wo[i], wb[i - 1], wb[i])
  <2>0. i - 1 \in 0 .. Len(w) /\ i \in 0 .. Len(w)
    BY <1>1
  <2>1. wo[i] \in Nat /\ wo[i - 1] \in Nat
    BY <2>0 DEF Wired
  <2>2. Fits(O, G, w[i], wo[i - 1], wo[i], wb[i - 1], wb[i])
    BY DEF Wired
  <2>3. CASE w[i].kind = "CTRL" /\ wo[i] = wo[i - 1] + 1 /\ wb[i] = wb[i - 1] /\ wo[i] <= Len(O) /\ w[i].msg = O[wo[i]]
    <3>1. wo[i] \in 1 .. Len(O)
      BY <1>1, <2>1, <2>3
    <3>2. wo[i] <= Len(O2) /\ O2[wo[i]] = O[wo[i]]
      BY <1>1, <2>1, <2>3, <3>1 DEF Extends
    <3> QED BY <2>3, <3>2 DEF Fits
  <2>4. CASE w[i].kind = "DATA" /\ wo[i] = wo[i - 1] /\ wb[i] = wb[i - 1] + 1 /\ IsBeat(G, w[i], wb[i])
    <3>1. IsBeat(G2, w[i], wb[i])
      BY <2>4, BeatKept
    <3> QED BY <2>4, <3>1 DEF Fits
  <2>5. CASE w[i].kind = "MAC" /\ wo[i] = wo[i - 1] /\ wb[i] = wb[i - 1]
    BY <2>5 DEF Fits
  <2> QED BY <2>2, <2>3, <2>4, <2>5 DEF Fits
<1> QED BY <1>2 DEF Wired

\* The counts with one more beat.
Counted(w, wo, o) == [i \in 0 .. Len(w) + 1 |-> IF i <= Len(w) THEN wo[i] ELSE o]

\* The parser writes the beat that its stage asks for.
LEMMA WiredPush ==
  ASSUME NEW w, NEW s, NEW rs, NEW O, NEW G, NEW wo, NEW wb, Wired(w, s, rs, O, G, wo, wb),
         NEW b \in OnWire, b.kind = s, NEW o \in Nat, NEW d \in Nat,
         Fits(O, G, b, wo[Len(w)], o, wb[Len(w)], d)
  PROVE  LET w2 == Append(w, b)
             wo2 == Counted(w, wo, o)
             wb2 == Counted(w, wb, d)
         IN /\ Wired(w2, Follows(b), rs, O, G, wo2, wb2)
            /\ wo2[0] = wo[0] /\ wb2[0] = wb[0] /\ wo2[Len(w2)] = o /\ wb2[Len(w2)] = d
<1> DEFINE w2 == Append(w, b)
           wo2 == Counted(w, wo, o)
           wb2 == Counted(w, wb, d)
<1>1. w \in Seq(OnWire) /\ Len(w) \in Nat /\ wo \in [0 .. Len(w) -> Nat] /\ wb \in [0 .. Len(w) -> Nat]
  BY LenProperties DEF Wired
<1>2. w2 \in Seq(OnWire) /\ Len(w2) = Len(w) + 1 /\ w2[Len(w) + 1] = b /\ \A i \in 1 .. Len(w) : w2[i] = w[i]
  BY <1>1, Appended
<1>3. /\ \A i \in 0 .. Len(w) : wo2[i] = wo[i] /\ wb2[i] = wb[i]
      /\ wo2[Len(w) + 1] = o /\ wb2[Len(w) + 1] = d
  BY <1>1 DEF Counted
<1>4. wo2 \in [0 .. Len(w2) -> Nat] /\ wb2 \in [0 .. Len(w2) -> Nat]
  BY <1>1, <1>2 DEF Counted
<1> HIDE DEF w2, wo2, wb2
<1>5. ASSUME NEW i \in 1 .. Len(w2) PROVE Fits(O, G, w2[i], wo2[i - 1], wo2[i], wb2[i - 1], wb2[i])
  <2>1. CASE i \in 1 .. Len(w)
    <3>1. w2[i] = w[i] /\ wo2[i - 1] = wo[i - 1] /\ wo2[i] = wo[i] /\ wb2[i - 1] = wb[i - 1] /\ wb2[i] = wb[i]
      <4>1. i - 1 \in 0 .. Len(w) /\ i \in 0 .. Len(w)
        BY <1>1, <2>1
      <4> QED BY <1>2, <1>3, <2>1, <4>1
    <3>2. Fits(O, G, w[i], wo[i - 1], wo[i], wb[i - 1], wb[i])
      BY <2>1 DEF Wired
    <3> QED BY <3>1, <3>2
  <2>2. CASE i = Len(w) + 1
    <3>1. w2[i] = b /\ wo2[i - 1] = wo[Len(w)] /\ wo2[i] = o /\ wb2[i - 1] = wb[Len(w)] /\ wb2[i] = d
      <4>1. i - 1 = Len(w) /\ Len(w) \in 0 .. Len(w)
        BY <1>1, <2>2
      <4> QED BY <1>2, <1>3, <2>2, <4>1
    <3> QED BY <3>1
  <2> QED BY <1>1, <1>2, <2>1, <2>2
<1>6. w2 # <<>> /\ w2[Len(w2)] = b
  <2>1. w2 # <<>>
    BY <1>1, AppendProperties DEF w2
  <2> QED BY <1>2, <2>1
<1>7. w2[1].kind = rs
  <2>1. CASE w = <<>>
    <3>1. Len(w) = 0 /\ s = rs
      BY <2>1, EmptySeq DEF Wired
    <3> QED BY <1>2, <3>1
  <2>2. CASE w # <<>>
    <3>1. 1 \in 1 .. Len(w)
      BY <1>1, <2>2, EmptySeq
    <3> QED BY <1>2, <2>2, <3>1 DEF Wired
  <2> QED BY <2>1, <2>2
<1>8. ASSUME NEW i \in 1 .. Len(w2) - 1 PROVE w2[i + 1].kind = Follows(w2[i])
  <2>1. CASE i \in 1 .. Len(w) - 1
    <3>1. w2[i] = w[i] /\ w2[i + 1] = w[i + 1]
      <4>1. i \in 1 .. Len(w) /\ i + 1 \in 1 .. Len(w)
        BY <1>1, <2>1
      <4> QED BY <1>2, <4>1
    <3> QED BY <2>1, <3>1 DEF Wired
  <2>2. CASE i = Len(w)
    <3>1. w # <<>> /\ Len(w) \in 1 .. Len(w)
      <4>1. Len(w) # 0
        BY <1>1, <1>2, <2>2
      <4> QED BY <1>1, <4>1, EmptySeq
    <3>2. w2[i] = w[Len(w)] /\ w2[i + 1] = b
      BY <1>2, <2>2, <3>1
    <3> QED BY <3>1, <3>2 DEF Wired
  <2> QED BY <1>1, <1>2, <2>1, <2>2
<1>9. Wired(w2, Follows(b), rs, O, G, wo2, wb2)
  BY <1>2, <1>4, <1>5, <1>6, <1>7, <1>8 DEF Wired
<1>10. wo2[0] = wo[0] /\ wb2[0] = wb[0] /\ wo2[Len(w2)] = o /\ wb2[Len(w2)] = d
  <2>1. 0 \in 0 .. Len(w)
    BY <1>1
  <2> QED BY <1>2, <1>3, <2>1
<1> QED BY <1>9, <1>10 DEF w2, wo2, wb2

\* The counts without the first beat.
Recounted(w, wo) == [i \in 0 .. Len(w) - 1 |-> wo[i + 1]]

\* The deparser reads the beat that its stage asks for.
LEMMA WiredPop ==
  ASSUME NEW w, NEW s, NEW rs, NEW O, NEW G, NEW wo, NEW wb, Wired(w, s, rs, O, G, wo, wb), w # <<>>
  PROVE  LET w2 == Tail(w)
             wo2 == Recounted(w, wo)
             wb2 == Recounted(w, wb)
         IN /\ Wired(w2, s, Follows(Head(w)), O, G, wo2, wb2)
            /\ wo2[0] = wo[1] /\ wb2[0] = wb[1] /\ wo2[Len(w2)] = wo[Len(w)] /\ wb2[Len(w2)] = wb[Len(w)]
            /\ Head(w) \in OnWire /\ Head(w).kind = rs
            /\ wo[0] \in Nat /\ wo[1] \in Nat /\ wb[0] \in Nat /\ wb[1] \in Nat
            /\ Fits(O, G, Head(w), wo[0], wo[1], wb[0], wb[1])
<1> DEFINE w2 == Tail(w)
           wo2 == Recounted(w, wo)
           wb2 == Recounted(w, wb)
<1>1. w \in Seq(OnWire) /\ wo \in [0 .. Len(w) -> Nat] /\ wb \in [0 .. Len(w) -> Nat]
  BY DEF Wired
<1>2. /\ w2 \in Seq(OnWire) /\ Len(w2) = Len(w) - 1 /\ Len(w) \in Nat \ {0} /\ w[1] \in OnWire
      /\ Head(w) = w[1] /\ \A i \in 1 .. Len(w) - 1 : w2[i] = w[i + 1]
  BY <1>1, Tailed
<1>3. \A i \in 0 .. Len(w) - 1 : wo2[i] = wo[i + 1] /\ wb2[i] = wb[i + 1]
  BY DEF Recounted
<1>4. wo2 \in [0 .. Len(w2) -> Nat] /\ wb2 \in [0 .. Len(w2) -> Nat]
  <2>1. \A i \in 0 .. Len(w) - 1 : wo[i + 1] \in Nat /\ wb[i + 1] \in Nat
    BY <1>1, <1>2
  <2> QED BY <1>2, <2>1 DEF Recounted
<1> HIDE DEF w2, wo2, wb2
<1>5. ASSUME NEW i \in 1 .. Len(w2) PROVE Fits(O, G, w2[i], wo2[i - 1], wo2[i], wb2[i - 1], wb2[i])
  <2>1. i \in 1 .. Len(w) - 1 /\ i \in 0 .. Len(w) - 1 /\ i - 1 \in 0 .. Len(w) - 1 /\ i + 1 \in 1 .. Len(w)
        /\ i + 1 - 1 = i /\ i - 1 + 1 = i
    BY <1>2
  <2>2. w2[i] = w[i + 1] /\ wo2[i - 1] = wo[i] /\ wo2[i] = wo[i + 1] /\ wb2[i - 1] = wb[i] /\ wb2[i] = wb[i + 1]
    BY <1>2, <1>3, <2>1
  <2>3. Fits(O, G, w[i + 1], wo[i + 1 - 1], wo[i + 1], wb[i + 1 - 1], wb[i + 1])
    BY <2>1 DEF Wired
  <2> QED BY <2>1, <2>2, <2>3
<1>6. w2 = <<>> => s = Follows(Head(w))
  <2> SUFFICES ASSUME w2 = <<>> PROVE s = Follows(Head(w))
    OBVIOUS
  <2>1. Len(w) = 1
    BY <1>2, EmptySeq
  <2> QED BY <1>2, <2>1 DEF Wired
<1>7. w2 # <<>> => w2[1].kind = Follows(Head(w)) /\ Follows(w2[Len(w2)]) = s
  <2> SUFFICES ASSUME w2 # <<>> PROVE w2[1].kind = Follows(Head(w)) /\ Follows(w2[Len(w2)]) = s
    OBVIOUS
  <2>1. Len(w2) # 0
    BY <1>2, EmptySeq
  <2>2. 1 \in 1 .. Len(w) - 1 /\ Len(w) - 1 \in 1 .. Len(w) - 1
    BY <1>2, <2>1
  <2>3. w2[1] = w[1 + 1] /\ w2[Len(w2)] = w[Len(w)]
    <3>1. Len(w) - 1 + 1 = Len(w)
      BY <1>2
    <3> QED BY <1>2, <2>2, <3>1
  <2>4. w[1 + 1].kind = Follows(w[1]) /\ Follows(w[Len(w)]) = s
    BY <2>2 DEF Wired
  <2> QED BY <1>2, <2>3, <2>4
<1>8. ASSUME NEW i \in 1 .. Len(w2) - 1 PROVE w2[i + 1].kind = Follows(w2[i])
  <2>1. i \in 1 .. Len(w) - 1 /\ i + 1 \in 1 .. Len(w) - 1
    BY <1>2
  <2>2. w2[i] = w[i + 1] /\ w2[i + 1] = w[i + 1 + 1]
    BY <1>2, <2>1
  <2>3. w[i + 1 + 1].kind = Follows(w[i + 1])
    BY <2>1 DEF Wired
  <2> QED BY <2>2, <2>3
<1>9. Wired(w2, s, Follows(Head(w)), O, G, wo2, wb2)
  BY <1>2, <1>4, <1>5, <1>6, <1>7, <1>8 DEF Wired
<1>10. wo2[0] = wo[1] /\ wb2[0] = wb[1] /\ wo2[Len(w2)] = wo[Len(w)] /\ wb2[Len(w2)] = wb[Len(w)]
  <2>1. 0 \in 0 .. Len(w) - 1 /\ Len(w) - 1 \in 0 .. Len(w) - 1 /\ Len(w) - 1 + 1 = Len(w) /\ 0 + 1 = 1
    BY <1>2
  <2> QED BY <1>2, <1>3, <2>1
<1>11. /\ wo[0] \in Nat /\ wo[1] \in Nat /\ wb[0] \in Nat /\ wb[1] \in Nat /\ Head(w).kind = rs
       /\ Fits(O, G, Head(w), wo[0], wo[1], wb[0], wb[1])
  <2>1. 1 \in 1 .. Len(w) /\ 1 - 1 = 0 /\ 0 \in 0 .. Len(w) /\ 1 \in 0 .. Len(w)
    BY <1>2
  <2>2. Fits(O, G, w[1], wo[1 - 1], wo[1], wb[1 - 1], wb[1]) /\ w[1].kind = rs
    BY <2>1 DEF Wired
  <2> QED BY <1>1, <1>2, <2>1, <2>2
<1> QED BY <1>2, <1>9, <1>10, <1>11 DEF w2, wo2, wb2

\* Messages in their sender's order are in order.
LEMMA ClearPass ==
  ASSUME NEW x \in Message, NEW y \in Message, Clear(x, y)
  PROVE  MayPass(x, y)
<1>1. x.num \in Nat /\ y.num \in Nat
  BY DEF Message
<1> QED BY <1>1 DEF Clear, MayPass, Before

\* Data waits for what is sent later and has none.
LEMMA PlainPass ==
  ASSUME NEW x \in Message, NEW y \in Message, Clear(y, x), HasData(y), ~HasData(x)
  PROVE  MayPass(x, y)
<1>1. x # y
  OBVIOUS
<1> QED BY <1>1 DEF MayPass

\* A message without data goes on ahead of those that wait.
LEMMA OrderPlain ==
  ASSUME NEW O \in Seq(Message), NEW G \in Seq(Message), NEW w \in Nat, InOrder(O, G, w),
         NEW m \in Message, ~HasData(m), \A k \in 1 .. Len(G) : HasData(G[k]),
         \A i \in 1 .. Len(O) : Clear(O[i], m), \A k \in 1 .. Len(G) : Clear(G[k], m)
  PROVE  InOrder(Append(O, m), G, w)
<1> DEFINE O2 == Append(O, m)
<1>1. /\ Len(O) \in Nat /\ Len(G) \in Nat /\ Len(O2) = Len(O) + 1 /\ O2[Len(O) + 1] = m
      /\ \A i \in 1 .. Len(O) : O2[i] = O[i] /\ O[i] \in Message
      /\ \A k \in 1 .. Len(G) : G[k] \in Message
  BY Appended, ElementOfSeq
<1> HIDE DEF O2
<1>2. ASSUME NEW i \in 1 .. Len(O2), NEW j \in 1 .. Len(O2), i < j PROVE MayPass(O2[i], O2[j])
  <2>1. i \in 1 .. Len(O) /\ O2[i] = O[i] /\ O[i] \in Message
    BY <1>1, <1>2
  <2>2. CASE j \in 1 .. Len(O)
    BY <1>1, <1>2, <2>1, <2>2 DEF InOrder
  <2>3. CASE j = Len(O) + 1
    <3>1. Clear(O[i], m)
      BY <2>1
    <3> QED BY <1>1, <2>1, <2>3, <3>1, ClearPass
  <2> QED BY <1>1, <2>2, <2>3
<1>3. ASSUME NEW i \in 1 .. Len(O2), NEW k \in w + 1 .. Len(G) PROVE MayPass(O2[i], G[k])
  <2>1. CASE i \in 1 .. Len(O)
    BY <1>1, <2>1 DEF InOrder
  <2>2. CASE i = Len(O) + 1
    <3>1. k \in 1 .. Len(G)
      BY <1>1
    <3>2. G[k] \in Message /\ Clear(G[k], m) /\ HasData(G[k])
      BY <1>1, <3>1
    <3> QED BY <1>1, <2>2, <3>2, PlainPass
  <2> QED BY <1>1, <2>1, <2>2
<1>4. InOrder(O2, G, w)
  <2>1. \A k, j \in 1 .. Len(G) : k < j => Clear(G[k], G[j])
    BY DEF InOrder
  <2> QED BY <1>2, <1>3, <2>1 DEF InOrder
<1> QED BY <1>4 DEF O2

\* A message with data joins those that wait.
LEMMA OrderData ==
  ASSUME NEW O \in Seq(Message), NEW G \in Seq(Message), NEW w \in Nat, InOrder(O, G, w),
         NEW m \in Message,
         \A i \in 1 .. Len(O) : Clear(O[i], m), \A k \in 1 .. Len(G) : Clear(G[k], m)
  PROVE  InOrder(O, Append(G, m), w)
<1> DEFINE G2 == Append(G, m)
<1>1. /\ Len(O) \in Nat /\ Len(G) \in Nat /\ Len(G2) = Len(G) + 1 /\ G2[Len(G) + 1] = m
      /\ \A k \in 1 .. Len(G) : G2[k] = G[k] /\ G[k] \in Message
      /\ \A i \in 1 .. Len(O) : O[i] \in Message
  BY Appended, ElementOfSeq
<1> HIDE DEF G2
<1>2. ASSUME NEW i \in 1 .. Len(O), NEW k \in w + 1 .. Len(G2) PROVE MayPass(O[i], G2[k])
  <2>1. CASE k \in w + 1 .. Len(G)
    <3>1. k \in 1 .. Len(G)
      BY <2>1
    <3> QED BY <1>1, <2>1, <3>1 DEF InOrder
  <2>2. CASE k = Len(G) + 1
    <3>1. Clear(O[i], m) /\ O[i] \in Message
      BY <1>1
    <3> QED BY <1>1, <2>2, <3>1, ClearPass
  <2> QED BY <1>1, <2>1, <2>2
<1>3. ASSUME NEW k \in 1 .. Len(G2), NEW j \in 1 .. Len(G2), k < j PROVE Clear(G2[k], G2[j])
  <2>1. k \in 1 .. Len(G) /\ G2[k] = G[k]
    BY <1>1, <1>3
  <2>2. CASE j \in 1 .. Len(G)
    BY <1>1, <1>3, <2>1, <2>2 DEF InOrder
  <2>3. CASE j = Len(G) + 1
    BY <1>1, <2>1, <2>3
  <2> QED BY <1>1, <2>2, <2>3
<1>4. InOrder(O, G2, w)
  <2>1. \A i, j \in 1 .. Len(O) : i < j => MayPass(O[i], O[j])
    BY DEF InOrder
  <2> QED BY <1>2, <1>3, <2>1 DEF InOrder
<1> QED BY <1>4 DEF G2

\* The first of those that wait goes on; the order is kept.
LEMMA OrderJoined ==
  ASSUME NEW O \in Seq(Message), NEW G \in Seq(Message), NEW w \in Nat, InOrder(O, G, w),
         w + 1 <= Len(G)
  PROVE  InOrder(Append(O, G[w + 1]), G, w + 1)
<1> DEFINE m == G[w + 1]
           O2 == Append(O, m)
<1>0. Len(G) \in Nat /\ w + 1 \in 1 .. Len(G) /\ m \in Message /\ \A k \in 1 .. Len(G) : G[k] \in Message
  BY LenProperties, ElementOfSeq
<1> HIDE DEF m
<1>1. /\ Len(O) \in Nat /\ Len(O2) = Len(O) + 1 /\ O2[Len(O) + 1] = m
      /\ \A i \in 1 .. Len(O) : O2[i] = O[i]
  BY <1>0, Appended
<1> HIDE DEF O2
<1>2. ASSUME NEW i \in 1 .. Len(O2), NEW j \in 1 .. Len(O2), i < j PROVE MayPass(O2[i], O2[j])
  <2>1. i \in 1 .. Len(O) /\ O2[i] = O[i]
    BY <1>1, <1>2
  <2>2. CASE j \in 1 .. Len(O)
    BY <1>1, <1>2, <2>1, <2>2 DEF InOrder
  <2>3. CASE j = Len(O) + 1
    <3>1. MayPass(O[i], G[w + 1])
      BY <1>0, <2>1 DEF InOrder
    <3> QED BY <1>1, <2>1, <2>3, <3>1 DEF m
  <2> QED BY <1>1, <2>2, <2>3
<1>3. ASSUME NEW i \in 1 .. Len(O2), NEW k \in w + 1 + 1 .. Len(G) PROVE MayPass(O2[i], G[k])
  <2>0. k \in w + 1 .. Len(G) /\ k \in 1 .. Len(G) /\ w + 1 < k
    BY <1>0
  <2>1. CASE i \in 1 .. Len(O)
    BY <1>1, <2>0, <2>1 DEF InOrder
  <2>2. CASE i = Len(O) + 1
    <3>1. G[k] \in Message /\ Clear(m, G[k])
      BY <1>0, <2>0 DEF InOrder, m
    <3> QED BY <1>0, <1>1, <2>2, <3>1, ClearPass
  <2> QED BY <1>1, <2>1, <2>2
<1>4. InOrder(O2, G, w + 1)
  <2>1. \A k, j \in 1 .. Len(G) : k < j => Clear(G[k], G[j])
    BY DEF InOrder
  <2> QED BY <1>2, <1>3, <2>1 DEF InOrder
<1> QED BY <1>4 DEF O2, m

------------------------------------------------------------------------------
(* What each step does to the order of the numbers.                          *)

\* A new message is younger than all others of its sender.
LEMMA OrderSend ==
  ASSUME NetTypes, NEW O \in Seq(Message), NEW G \in Seq(Message), Ordered(O, G), NEW s \in Sender, Send(s)
  PROVE  Ordered(O, G)' /\ sent' \in [Sender -> Nat] /\ inq' \in [Sender -> Seq(Message)]
<1>1. PICK y \in Kinds[s] : inq' = [inq EXCEPT ![s] = Append(@, Msg(s, sent[s] + 1, y))]
  BY DEF Send
<1> DEFINE m == Msg(s, sent[s] + 1, y)
<1>2. sent[s] \in Nat /\ sent' = [sent EXCEPT ![s] = sent[s] + 1] /\ merged' = merged /\ inq[s] \in Seq(Message)
  BY DEF Send, NetTypes
<1>3. m \in Message /\ m.from = s /\ m.num = sent[s] + 1
  BY <1>2 DEF Msg, Message, Sender
<1> HIDE DEF m
<1>4. /\ inq'[s] = Append(inq[s], m) /\ \A r \in Sender \ {s} : inq'[r] = inq[r]
      /\ sent'[s] = sent[s] + 1 /\ \A r \in Sender \ {s} : sent'[r] = sent[r]
  BY <1>1, <1>2 DEF NetTypes, m
<1>5. /\ Append(inq[s], m) \in Seq(Message) /\ Len(inq[s]) \in Nat /\ Len(Append(inq[s], m)) = Len(inq[s]) + 1
      /\ Append(inq[s], m)[Len(inq[s]) + 1] = m
      /\ \A i \in 1 .. Len(inq[s]) : Append(inq[s], m)[i] = inq[s][i] /\ inq[s][i] \in Message
  BY <1>2, <1>3, Appended, ElementOfSeq
<1>6. sent' \in [Sender -> Nat] /\ inq' \in [Sender -> Seq(Message)]
  BY <1>1, <1>2, <1>5, SMTT(30) DEF NetTypes, m
<1>7. ASSUME NEW x \in Message, Left(x) PROVE Left(x)'
  <2>1. x.from \in Sender /\ x.num \in Nat
    BY DEF Message
  <2>2. CASE x.from = s
    <3>1. x.num <= sent[s] /\ \A j \in 1 .. Len(inq[s]) : x.num < inq[s][j].num
      BY <1>7, <2>2 DEF Left
    <3>2. x.num <= sent'[s] /\ x.num < m.num
      BY <1>2, <1>3, <1>4, <2>1, <3>1
    <3>3. \A j \in 1 .. Len(inq'[s]) : x.num < inq'[s][j].num
      BY <1>4, <1>5, <3>1, <3>2
    <3> QED BY <2>2, <3>2, <3>3 DEF Left
  <2>3. CASE x.from # s
    BY <1>4, <1>7, <2>1, <2>3 DEF Left
  <2> QED BY <2>2, <2>3
<1>8. ASSUME NEW x \in Message, Gone(x) PROVE Gone(x)'
  BY <1>2, <1>7, <1>8 DEF Gone
<1>9. ASSUME NEW r \in Sender PROVE Queued(r)'
  <2>0. Queued(r)
    BY DEF Ordered
  <2>1. CASE r # s
    BY <1>4, <2>0, <2>1 DEF Queued
  <2>2. CASE r = s
    <3>1. ASSUME NEW i \in 1 .. Len(inq[s])
          PROVE  inq[s][i].from = s /\ inq[s][i].num <= sent[s] + 1 /\ inq[s][i].num < m.num
                 /\ \A j \in 1 .. Len(inq[s]) : i < j => inq[s][i].num < inq[s][j].num
      <4>1. inq[s][i].num \in Nat
        BY <1>5 DEF Message
      <4>2. inq[s][i].from = s /\ inq[s][i].num <= sent[s]
            /\ \A j \in 1 .. Len(inq[s]) : i < j => inq[s][i].num < inq[s][j].num
        BY <2>0, <2>2 DEF Queued
      <4> QED BY <1>2, <1>3, <4>1, <4>2
    <3>2. ASSUME NEW i \in 1 .. Len(inq'[s])
          PROVE  /\ inq'[s][i].from = s /\ inq'[s][i].num <= sent'[s]
                 /\ \A j \in 1 .. Len(inq'[s]) : i < j => inq'[s][i].num < inq'[s][j].num
      <4>1. CASE i \in 1 .. Len(inq[s])
        <5>1. inq'[s][i] = inq[s][i]
          BY <1>4, <1>5, <4>1
        <5>2. \A j \in 1 .. Len(inq'[s]) : i < j => inq[s][i].num < inq'[s][j].num
          BY <1>4, <1>5, <3>1, <4>1
        <5> QED BY <1>4, <3>1, <4>1, <5>1, <5>2
      <4>2. CASE i = Len(inq[s]) + 1
        <5>1. inq'[s][i] = m
          BY <1>4, <1>5, <4>2
        <5>2. \A j \in 1 .. Len(inq'[s]) : ~(i < j)
          BY <1>4, <1>5, <4>2
        <5> QED BY <1>2, <1>3, <1>4, <5>1, <5>2
      <4> QED BY <1>4, <1>5, <4>1, <4>2
    <3> QED BY <2>2, <3>2 DEF Queued
  <2> QED BY <2>1, <2>2
<1>10. Merged'
  <2>1. \A i \in 1 .. Len(merged) : merged[i] \in Message
    BY ElementOfSeq DEF NetTypes
  <2>2. Merged
    BY DEF Ordered
  <2> QED BY <1>2, <1>7, <2>1, <2>2 DEF Merged
<1>11. Ordered(O, G)'
  <2>1. (\A i \in 1 .. Len(O) : O[i] \in Message) /\ (\A k \in 1 .. Len(G) : G[k] \in Message)
    BY ElementOfSeq
  <2>2. (\A i \in 1 .. Len(O) : Gone(O[i])) /\ (\A k \in 1 .. Len(G) : Gone(G[k]))
    BY DEF Ordered
  <2> QED BY <1>8, <1>9, <1>10, <2>1, <2>2 DEF Ordered
<1> QED BY <1>6, <1>11

\* A message is merged when all older ones of its sender have been.
LEMMA OrderCopy ==
  ASSUME NetTypes, NEW O \in Seq(Message), NEW G \in Seq(Message), Ordered(O, G), NEW s \in Sender, CtrlMsgCopy(s)
  PROVE  Ordered(O, G)' /\ inq' \in [Sender -> Seq(Message)] /\ merged' \in Seq(Message)
<1>p. PICK q, m, M, M2 : q = inq[s] /\ m = Head(q) /\ M = merged /\ M2 = merged'
  OBVIOUS
<1>1. /\ q # <<>> /\ M2 = Append(M, m) /\ inq' = [inq EXCEPT ![s] = Tail(q)] /\ sent' = sent
      /\ q \in Seq(Message) /\ M \in Seq(Message) /\ sent[s] \in Nat
  BY <1>p DEF CtrlMsgCopy, Turn, NetTypes
<1>2. /\ Tail(q) \in Seq(Message) /\ Len(Tail(q)) = Len(q) - 1 /\ Len(q) \in Nat \ {0} /\ m = q[1] /\ m \in Message
      /\ \A i \in 1 .. Len(q) - 1 : Tail(q)[i] = q[i + 1]
  BY <1>p, <1>1, Tailed
<1>3. inq'[s] = Tail(q) /\ \A r \in Sender \ {s} : inq'[r] = inq[r]
  BY <1>1 DEF NetTypes
<1>4. inq' \in [Sender -> Seq(Message)]
  BY <1>1, <1>2 DEF NetTypes
<1>q. /\ \A i \in 1 .. Len(q) : q[i].from = s /\ q[i].num <= sent[s]
      /\ \A i, j \in 1 .. Len(q) : i < j => q[i].num < q[j].num
  <2>1. Queued(s)
    BY DEF Ordered
  <2> QED BY <1>p, <2>1 DEF Queued
<1>l. ASSUME NEW x PROVE Left(x) /\ x.from = s => x.num <= sent[s] /\ \A j \in 1 .. Len(q) : x.num < q[j].num
  BY <1>p DEF Left
<1>5. /\ M2 \in Seq(Message) /\ Len(M) \in Nat /\ Len(M2) = Len(M) + 1
      /\ M2[Len(M) + 1] = m
      /\ \A i \in 1 .. Len(M) : M2[i] = M[i] /\ M[i] \in Message
  BY <1>1, <1>2, Appended, ElementOfSeq
<1>7. ASSUME NEW x \in Message, Left(x) PROVE Left(x)' /\ Clear(x, m)
  <2>1. x.from \in Sender
    BY DEF Message
  <2>2. m.from = s
    BY <1>2, <1>q
  <2>3. CASE x.from = s
    <3>1. x.num <= sent[s] /\ \A j \in 1 .. Len(q) : x.num < q[j].num
      BY <1>7, <1>l, <2>3
    <3>2. \A j \in 1 .. Len(inq'[s]) : x.num < inq'[s][j].num
      <4> SUFFICES ASSUME NEW j \in 1 .. Len(Tail(q)) PROVE x.num < Tail(q)[j].num
        BY <1>3
      <4>1. j \in 1 .. Len(q) - 1 /\ j + 1 \in 1 .. Len(q)
        BY <1>2
      <4> QED BY <1>2, <3>1, <4>1
    <3>3. x.num < m.num
      BY <1>2, <3>1
    <3> QED BY <1>1, <2>3, <3>1, <3>2, <3>3 DEF Left, Clear
  <2>4. CASE x.from # s
    BY <1>1, <1>3, <1>7, <2>1, <2>2, <2>4 DEF Left, Clear
  <2> QED BY <2>3, <2>4
<1>6. Left(m)'
  <2>1. m.from = s /\ m.num <= sent[s]
    BY <1>2, <1>q
  <2>2. ASSUME NEW j \in 1 .. Len(Tail(q)) PROVE m.num < Tail(q)[j].num
    <3>1. j \in 1 .. Len(q) - 1 /\ j + 1 \in 1 .. Len(q) /\ 1 \in 1 .. Len(q) /\ 1 < j + 1
      BY <1>2
    <3>2. q[1].num < q[j + 1].num
      BY <1>q, <3>1
    <3> QED BY <1>2, <3>1, <3>2
  <2> QED BY <1>1, <1>3, <2>1, <2>2 DEF Left
<1>8. ASSUME NEW x \in Message, Gone(x) PROVE Gone(x)'
  <2>1. Left(x) /\ \A j \in 1 .. Len(M) : Clear(x, M[j])
    BY <1>p, <1>8 DEF Gone
  <2>2. Left(x)' /\ Clear(x, m)
    BY <1>7, <2>1
  <2>3. \A j \in 1 .. Len(M2) : Clear(x, M2[j])
    BY <1>5, <2>1, <2>2
  <2> QED BY <1>p, <2>2, <2>3 DEF Gone
<1>9. ASSUME NEW r \in Sender PROVE Queued(r)'
  <2>0. Queued(r)
    BY DEF Ordered
  <2>1. CASE r # s
    BY <1>1, <1>3, <2>0, <2>1 DEF Queued
  <2>2. CASE r = s
    <3>1. ASSUME NEW i \in 1 .. Len(Tail(q))
          PROVE  /\ Tail(q)[i].from = s /\ Tail(q)[i].num <= sent[s]
                 /\ \A j \in 1 .. Len(Tail(q)) : i < j => Tail(q)[i].num < Tail(q)[j].num
      <4>1. i \in 1 .. Len(q) - 1 /\ i + 1 \in 1 .. Len(q) /\ Tail(q)[i] = q[i + 1]
        BY <1>2
      <4>2. ASSUME NEW j \in 1 .. Len(Tail(q)), i < j PROVE Tail(q)[i].num < Tail(q)[j].num
        <5>1. j \in 1 .. Len(q) - 1 /\ j + 1 \in 1 .. Len(q) /\ Tail(q)[j] = q[j + 1] /\ i + 1 < j + 1
          BY <1>2, <4>1, <4>2
        <5> QED BY <1>q, <4>1, <5>1
      <4> QED BY <1>q, <4>1, <4>2
    <3> QED BY <1>1, <1>3, <2>2, <3>1 DEF Queued
  <2> QED BY <2>1, <2>2
<1>10. Merged'
  <2>1. (\A i \in 1 .. Len(M) : Left(M[i])) /\ (\A i, j \in 1 .. Len(M) : i < j => Clear(M[i], M[j]))
    BY <1>p DEF Ordered, Merged
  <2>2. ASSUME NEW i \in 1 .. Len(M) PROVE M2[i] = M[i] /\ Left(M[i])' /\ Clear(M[i], m)
    BY <1>5, <1>7, <2>1
  <2>3. ASSUME NEW i \in 1 .. Len(M2) PROVE Left(M2[i])'
    <3>1. CASE i \in 1 .. Len(M)
      <4>1. M2[i] = M[i] /\ Left(M[i])'
        BY <2>2, <3>1
      <4> QED BY <4>1
    <3>2. CASE i = Len(M) + 1
      <4>1. M2[i] = m
        BY <1>5, <3>2
      <4> QED BY <1>6, <4>1
    <3> QED BY <1>5, <3>1, <3>2
  <2>4. ASSUME NEW i \in 1 .. Len(M2), NEW j \in 1 .. Len(M2), i < j PROVE Clear(M2[i], M2[j])
    <3>1. i \in 1 .. Len(M) /\ M2[i] = M[i] /\ Clear(M[i], m)
      BY <1>5, <2>2, <2>4
    <3>2. CASE j \in 1 .. Len(M)
      BY <2>1, <2>2, <2>4, <3>1, <3>2
    <3>3. CASE j = Len(M) + 1
      BY <1>5, <3>1, <3>3
    <3> QED BY <1>5, <3>2, <3>3
  <2> QED BY <1>p, <2>3, <2>4 DEF Merged
<1>11. Ordered(O, G)'
  <2>1. (\A i \in 1 .. Len(O) : O[i] \in Message) /\ (\A k \in 1 .. Len(G) : G[k] \in Message)
    BY ElementOfSeq
  <2>2. (\A i \in 1 .. Len(O) : Gone(O[i])) /\ (\A k \in 1 .. Len(G) : Gone(G[k]))
    BY DEF Ordered
  <2> QED BY <1>8, <1>9, <1>10, <2>1, <2>2 DEF Ordered
<1> QED BY <1>p, <1>4, <1>5, <1>11

\* dataMsgFetch takes the first merged message.
LEMMA OrderTake ==
  ASSUME NetTypes, NEW O \in Seq(Message), NEW G \in Seq(Message), Ordered(O, G), merged # <<>>,
         NEW m, m = Head(merged), merged' = Tail(merged), UNCHANGED <<sent, inq>>
  PROVE  /\ merged' \in Seq(Message) /\ m \in Message
         /\ Ordered(O, G)' /\ Ordered(Append(O, m), G)' /\ Ordered(O, Append(G, m))'
         /\ (\A i \in 1 .. Len(O) : Clear(O[i], m)) /\ \A k \in 1 .. Len(G) : Clear(G[k], m)
<1>p. PICK M, M2 : M = merged /\ M2 = merged'
  OBVIOUS
<1>1. M \in Seq(Message) /\ M # <<>> /\ m = Head(M) /\ M2 = Tail(M) /\ sent' = sent /\ inq' = inq
  BY <1>p DEF NetTypes
<1>2. /\ M2 \in Seq(Message) /\ Len(M2) = Len(M) - 1 /\ Len(M) \in Nat \ {0} /\ m = M[1] /\ m \in Message
      /\ \A i \in 1 .. Len(M) - 1 : M2[i] = M[i + 1]
  BY <1>1, Tailed
<1>3. ASSUME NEW x, Left(x) PROVE Left(x)'
  BY <1>1, <1>3 DEF Left
<1>4. ASSUME NEW x, Gone(x) PROVE Gone(x)' /\ Clear(x, m)
  <2>1. Left(x)' /\ \A j \in 1 .. Len(M) : Clear(x, M[j])
    BY <1>p, <1>3, <1>4 DEF Gone
  <2>2. \A j \in 1 .. Len(M2) : Clear(x, M2[j])
    BY <1>2, <2>1
  <2>3. Clear(x, m)
    BY <1>2, <2>1
  <2> QED BY <1>p, <2>1, <2>2, <2>3 DEF Gone
<1>5. (\A i \in 1 .. Len(M) : Left(M[i])) /\ (\A i, j \in 1 .. Len(M) : i < j => Clear(M[i], M[j]))
  BY <1>p DEF Ordered, Merged
<1>6. Gone(m)'
  <2>1. Left(m)'
    BY <1>2, <1>3, <1>5
  <2>2. ASSUME NEW j \in 1 .. Len(M2) PROVE Clear(m, M2[j])
    <3>1. j \in 1 .. Len(M) - 1 /\ j + 1 \in 1 .. Len(M) /\ 1 \in 1 .. Len(M) /\ 1 < j + 1
      BY <1>2
    <3> QED BY <1>2, <1>5, <3>1
  <2> QED BY <1>p, <2>1, <2>2 DEF Gone
<1>7. Merged'
  <2>1. ASSUME NEW i \in 1 .. Len(M2) PROVE Left(M2[i])'
    <3>1. i + 1 \in 1 .. Len(M) /\ M2[i] = M[i + 1]
      BY <1>2
    <3> QED BY <1>3, <1>5, <3>1
  <2>2. ASSUME NEW i \in 1 .. Len(M2), NEW j \in 1 .. Len(M2), i < j PROVE Clear(M2[i], M2[j])
    <3>1. Len(M) \in Nat /\ i \in 1 .. Len(M) - 1 /\ j \in 1 .. Len(M) - 1
      BY <1>2
    <3>2. i + 1 \in 1 .. Len(M) /\ j + 1 \in 1 .. Len(M) /\ i + 1 < j + 1
      BY <2>2, <3>1
    <3>3. M2[i] = M[i + 1] /\ M2[j] = M[j + 1]
      BY <1>2, <3>1
    <3> QED BY <1>5, <3>2, <3>3
  <2> QED BY <1>p, <2>1, <2>2 DEF Merged
<1>8. ASSUME NEW s \in Sender PROVE Queued(s)'
  BY <1>1 DEF Ordered, Queued
<1>9. /\ \A i \in 1 .. Len(O) : Gone(O[i])' /\ Clear(O[i], m)
      /\ \A k \in 1 .. Len(G) : Gone(G[k])' /\ Clear(G[k], m)
  BY <1>4 DEF Ordered
<1>10. Ordered(O, G)'
  BY <1>7, <1>8, <1>9 DEF Ordered
<1>11. /\ \A i \in 1 .. Len(Append(O, m)) : Gone(Append(O, m)[i])'
       /\ \A k \in 1 .. Len(Append(G, m)) : Gone(Append(G, m)[k])'
  <2>1. /\ Len(O) \in Nat /\ Len(Append(O, m)) = Len(O) + 1 /\ Append(O, m)[Len(O) + 1] = m
        /\ \A i \in 1 .. Len(O) : Append(O, m)[i] = O[i]
    BY <1>2, Appended
  <2>2. /\ Len(G) \in Nat /\ Len(Append(G, m)) = Len(G) + 1 /\ Append(G, m)[Len(G) + 1] = m
        /\ \A i \in 1 .. Len(G) : Append(G, m)[i] = G[i]
    BY <1>2, Appended
  <2>3. ASSUME NEW i \in 1 .. Len(Append(O, m)) PROVE Gone(Append(O, m)[i])'
    BY <1>6, <1>9, <2>1
  <2>4. ASSUME NEW k \in 1 .. Len(Append(G, m)) PROVE Gone(Append(G, m)[k])'
    BY <1>6, <1>9, <2>2
  <2> QED BY <2>3, <2>4
<1>12. Ordered(Append(O, m), G)' /\ Ordered(O, Append(G, m))'
  BY <1>7, <1>8, <1>9, <1>11 DEF Ordered
<1> QED BY <1>p, <1>2, <1>9, <1>10, <1>12

------------------------------------------------------------------------------
(* What each step does to the beats under way.                               *)

\* dataMsgFetch passes a beat on.
LEMMA ComingPass ==
  ASSUME NetTypes, NEW G \in Seq(Message), NEW d \in Nat, Coming(G, d), fetched # <<>>, PassBeat, fetch' = fetch
  PROVE  /\ Coming(G, d)' /\ IsBeat(G, Head(fetched), d + Len(data) + 1)
         /\ Len(data') = Len(data) + 1 /\ Len(data) \in Nat
         /\ data' \in Seq(LineBeat) /\ fetched' \in Seq(LineBeat) /\ inLine' \in BOOLEAN
<1>p. PICK q, b, D, D2, q2 : q = fetched /\ b = Head(q) /\ D = data /\ D2 = data' /\ q2 = fetched'
  OBVIOUS
<1>1. q \in Seq(LineBeat) /\ D \in Seq(LineBeat) /\ q # <<>> /\ D2 = Append(D, b) /\ q2 = Tail(q)
      /\ fetch' = fetch /\ inLine' \in BOOLEAN
  BY <1>p DEF NetTypes, PassBeat
<1>2. /\ q2 \in Seq(LineBeat) /\ Len(q2) = Len(q) - 1 /\ Len(q) \in Nat \ {0} /\ b = q[1] /\ b \in LineBeat
      /\ \A i \in 1 .. Len(q) - 1 : q2[i] = q[i + 1]
  BY <1>p, <1>1, Tailed
<1>3. /\ D2 \in Seq(LineBeat) /\ Len(D) \in Nat /\ Len(D2) = Len(D) + 1 /\ D2[Len(D) + 1] = b
      /\ \A i \in 1 .. Len(D) : D2[i] = D[i]
  BY <1>1, <1>2, Appended
<1>4. /\ \A i \in 1 .. Len(D) : IsBeat(G, D[i], d + i)
      /\ \A i \in 1 .. Len(q) : IsBeat(G, q[i], d + Len(D) + i)
  BY <1>p DEF Coming
<1>5. IsBeat(G, b, d + Len(D) + 1)
  BY <1>2, <1>4
<1>6. ASSUME NEW i \in 1 .. Len(D2) PROVE IsBeat(G, D2[i], d + i)
  <2>1. CASE i \in 1 .. Len(D)
    BY <1>3, <1>4, <2>1
  <2>2. CASE i = Len(D) + 1
    <3>1. d + i = d + Len(D) + 1
      BY <1>3, <2>2
    <3> QED BY <1>3, <1>5, <2>2, <3>1
  <2> QED BY <1>3, <2>1, <2>2
<1>7. ASSUME NEW i \in 1 .. Len(q2) PROVE IsBeat(G, q2[i], d + Len(D2) + i)
  <2>1. i \in 1 .. Len(q) - 1 /\ i + 1 \in 1 .. Len(q) /\ d + Len(D2) + i = d + Len(D) + (i + 1)
    BY <1>2, <1>3
  <2>2. IsBeat(G, q[i + 1], d + Len(D) + (i + 1)) /\ q2[i] = q[i + 1]
    BY <1>2, <1>4, <2>1
  <2> QED BY <2>1, <2>2
<1>8. d + Len(D2) + Len(q2) = d + Len(D) + Len(q)
  BY <1>2, <1>3
<1>9. Coming(G, d)'
  <2>1. /\ Len(fetch) <= Len(G)
        /\ \A j \in 1 .. Len(fetch) : fetch[j].msg = G[Len(G) - Len(fetch) + j] /\ (j > 1 => fetch[j].pos = 1)
        /\ fetch = <<>> => d + Len(D) + Len(q) = Upto(Len(G))
        /\ fetch # <<>> => d + Len(D) + Len(q) = Upto(Len(G) - Len(fetch)) + fetch[1].pos - 1
    BY <1>p DEF Coming
  <2> QED BY <1>p, <1>1, <1>6, <1>7, <1>8, <2>1 DEF Coming
<1> QED BY <1>p, <1>1, <1>2, <1>3, <1>5, <1>9

\* The data of one more message is asked for.
LEMMA ComingTake ==
  ASSUME NetTypes, NEW G \in Seq(Message), NEW d \in Nat, Coming(G, d), NEW m \in Message,
         fetch' = Append(fetch, [msg |-> m, pos |-> 1]), UNCHANGED <<data, fetched>>
  PROVE  Coming(Append(G, m), d)' /\ fetch' \in Seq(LineBeat)
<1>p. PICK F, F2, G2, e : F = fetch /\ F2 = fetch' /\ G2 = Append(G, m) /\ e = [msg |-> m, pos |-> 1]
  OBVIOUS
<1>1. F \in Seq(LineBeat) /\ F2 = Append(F, e) /\ data' = data /\ fetched' = fetched
      /\ e \in LineBeat /\ e.msg = m /\ e.pos = 1
  BY <1>p, NetSizes DEF NetTypes, LineBeat
<1>2. /\ F2 \in Seq(LineBeat) /\ Len(F) \in Nat /\ Len(F2) = Len(F) + 1 /\ F2[Len(F) + 1] = e
      /\ \A i \in 1 .. Len(F) : F2[i] = F[i]
  BY <1>1, Appended
<1>3. /\ G2 \in Seq(Message) /\ Len(G) \in Nat /\ Len(G2) = Len(G) + 1 /\ G2[Len(G) + 1] = m
      /\ \A i \in 1 .. Len(G) : G2[i] = G[i]
  BY <1>p, Appended
<1>4. Extends(G, G2)
  BY <1>3 DEF Extends
<1>5. /\ \A i \in 1 .. Len(data) : IsBeat(G2, data[i], d + i)
      /\ \A i \in 1 .. Len(fetched) : IsBeat(G2, fetched[i], d + Len(data) + i)
  BY <1>3, <1>4, BeatKept DEF Coming
<1>6. /\ Len(F) <= Len(G)
      /\ \A j \in 1 .. Len(F) : F[j].msg = G[Len(G) - Len(F) + j] /\ (j > 1 => F[j].pos = 1)
      /\ F = <<>> => d + Len(data) + Len(fetched) = Upto(Len(G))
      /\ F # <<>> => d + Len(data) + Len(fetched) = Upto(Len(G) - Len(F)) + F[1].pos - 1
  BY <1>p DEF Coming
<1>7. ASSUME NEW j \in 1 .. Len(F2)
      PROVE  F2[j].msg = G2[Len(G2) - Len(F2) + j] /\ (j > 1 => F2[j].pos = 1)
  <2>1. CASE j \in 1 .. Len(F)
    <3>1. Len(G) - Len(F) + j \in 1 .. Len(G) /\ Len(G2) - Len(F2) + j = Len(G) - Len(F) + j
      BY <1>2, <1>3, <1>6, <2>1
    <3> QED BY <1>2, <1>3, <1>6, <2>1, <3>1
  <2>2. CASE j = Len(F) + 1
    <3>1. Len(G2) - Len(F2) + j = Len(G) + 1
      BY <1>2, <1>3, <2>2
    <3> QED BY <1>1, <1>2, <1>3, <2>2, <3>1
  <2> QED BY <1>2, <2>1, <2>2
<1>8. F2 # <<>> /\ Len(F2) <= Len(G2) /\ Len(G2) - Len(F2) = Len(G) - Len(F)
  <2>1. F2 # <<>>
    BY <1>1, AppendProperties
  <2> QED BY <1>2, <1>3, <1>6, <2>1
<1>9. d + Len(data) + Len(fetched) = Upto(Len(G2) - Len(F2)) + F2[1].pos - 1
  <2>1. CASE F = <<>>
    <3>1. Len(F) = 0 /\ Len(G) - Len(F) = Len(G) /\ F2[1] = e /\ Upto(Len(G)) \in Nat
      <4>1. Len(F) = 0
        BY <2>1, EmptySeq
      <4> QED BY <1>2, <1>3, <4>1, UptoNext
    <3>2. Upto(Len(G)) + e.pos - 1 = Upto(Len(G))
      BY <1>1, <3>1
    <3> QED BY <1>6, <1>8, <2>1, <3>1, <3>2
  <2>2. CASE F # <<>>
    <3>1. Len(F) # 0
      BY <1>1, <2>2, EmptySeq
    <3>2. F2[1] = F[1]
      BY <1>2, <3>1
    <3> QED BY <1>6, <1>8, <2>2, <3>2
  <2> QED BY <2>1, <2>2
<1>10. Coming(G2, d)'
  BY <1>p, <1>1, <1>5, <1>7, <1>8, <1>9 DEF Coming
<1> QED BY <1>p, <1>2, <1>10

\* A beat comes back from the host.
LEMMA ComingRead ==
  ASSUME NetTypes, NEW G \in Seq(Message), NEW d \in Nat, Coming(G, d), HostRead
  PROVE  Coming(G, d)' /\ fetch' \in Seq(LineBeat) /\ fetched' \in Seq(LineBeat)
<1>p. PICK F, F2, q, q2, D, e : F = fetch /\ F2 = fetch' /\ q = fetched /\ q2 = fetched' /\ D = data /\ e = Head(F)
  OBVIOUS
<1>1. /\ F \in Seq(LineBeat) /\ F # <<>> /\ q \in Seq(LineBeat) /\ q2 = Append(q, e) /\ data' = D /\ D \in Seq(LineBeat)
      /\ F2 = IF LastOfLine(e) THEN Tail(F) ELSE [F EXCEPT ![1].pos = @ + 1]
  BY <1>p DEF NetTypes, HostRead
<1>2. /\ Tail(F) \in Seq(LineBeat) /\ Len(Tail(F)) = Len(F) - 1 /\ Len(F) \in Nat \ {0} /\ e = F[1] /\ e \in LineBeat
      /\ \A i \in 1 .. Len(F) - 1 : Tail(F)[i] = F[i + 1]
  BY <1>p, <1>1, Tailed
<1>3. /\ q2 \in Seq(LineBeat) /\ Len(q) \in Nat /\ Len(q2) = Len(q) + 1 /\ q2[Len(q) + 1] = e
      /\ \A i \in 1 .. Len(q) : q2[i] = q[i]
  BY <1>1, <1>2, Appended
<1>b. /\ \A i \in 1 .. Len(D) : IsBeat(G, D[i], d + i)
      /\ \A i \in 1 .. Len(q) : IsBeat(G, q[i], d + Len(D) + i)
  BY <1>p DEF Coming
<1>4. /\ Len(F) <= Len(G)
      /\ \A j \in 1 .. Len(F) : F[j].msg = G[Len(G) - Len(F) + j] /\ (j > 1 => F[j].pos = 1)
      /\ d + Len(D) + Len(q) = Upto(Len(G) - Len(F)) + F[1].pos - 1
  BY <1>p, <1>1 DEF Coming
<1> DEFINE h == Len(G) - Len(F)
<1>5. Len(G) \in Nat /\ Len(D) \in Nat /\ LineBeats \in Nat \ {0} /\ h \in Nat /\ h + 1 \in 1 .. Len(G)
  <2>1. Len(G) \in Nat /\ Len(D) \in Nat /\ LineBeats \in Nat \ {0}
    BY <1>1, LenProperties, NetSizes
  <2> QED BY <1>2, <1>4, <2>1
<1>s. d + Len(D) + Len(q) = Upto(h) + e.pos - 1
  BY <1>2, <1>4
<1>6. e.pos \in 1 .. LineBeats /\ e.pos \in Nat /\ e.msg = G[h + 1] /\ Upto(h) \in Nat /\ Upto(h + 1) = Upto(h) + LineBeats
      /\ e.msg \in Message
  <2>1. e.pos \in 1 .. LineBeats /\ e.msg \in Message
    BY <1>2 DEF LineBeat
  <2>2. Upto(h) \in Nat /\ Upto(h + 1) = Upto(h) + LineBeats
    BY <1>5, UptoNext
  <2>3. e.msg = G[h + 1]
    <3>1. 1 \in 1 .. Len(F)
      BY <1>2
    <3> QED BY <1>2, <1>4, <3>1
  <2> QED BY <1>5, <2>1, <2>2, <2>3
<1>h. h = Len(G) - Len(F)
  OBVIOUS
<1> HIDE DEF h
<1>n. /\ Len(q) \in Nat /\ Len(D) \in Nat /\ Upto(h) \in Nat /\ e.pos \in Nat /\ Len(q2) = Len(q) + 1
      /\ h + 1 - 1 = h
  BY <1>3, <1>5, <1>6
<1>7. IsBeat(G, e, d + Len(D) + Len(q) + 1)
  <2>1. d + Len(D) + Len(q) + 1 = Upto(h + 1 - 1) + e.pos
    BY <1>n, <1>s
  <2> QED BY <1>5, <1>6, <2>1 DEF IsBeat
<1>8. ASSUME NEW i \in 1 .. Len(q2) PROVE IsBeat(G, q2[i], d + Len(D) + i)
  <2>1. CASE i \in 1 .. Len(q)
    BY <1>3, <1>b, <2>1
  <2>2. CASE i = Len(q) + 1
    <3>1. d + Len(D) + i = d + Len(D) + Len(q) + 1
      BY <1>3, <1>5, <2>2
    <3> QED BY <1>3, <1>7, <2>2, <3>1
  <2> QED BY <1>3, <2>1, <2>2
<1>9. d + Len(D) + Len(q2) = Upto(h) + e.pos
  BY <1>n, <1>s
<1>10. CASE e.pos = LineBeats
  <2>1. F2 = Tail(F)
    BY <1>1, <1>10 DEF LastOfLine
  <2>2. Len(G) - Len(F2) = h + 1 /\ Len(F2) <= Len(G)
    BY <1>2, <1>4, <1>5, <1>h, <2>1
  <2>3. ASSUME NEW j \in 1 .. Len(F2) PROVE F2[j].msg = G[Len(G) - Len(F2) + j] /\ F2[j].pos = 1
    <3>1. j \in 1 .. Len(F) - 1 /\ j + 1 \in 1 .. Len(F) /\ j + 1 > 1 /\ Len(G) - Len(F) + (j + 1) = Len(G) - Len(F2) + j
      BY <1>2, <1>5, <2>1
    <3>2. F2[j] = F[j + 1]
      BY <1>2, <2>1, <3>1
    <3> QED BY <1>4, <3>1, <3>2
  <2>4. d + Len(D) + Len(q2) = Upto(h + 1)
    BY <1>6, <1>9, <1>10
  <2>5. F2 = <<>> => d + Len(D) + Len(q2) = Upto(Len(G))
    <3> SUFFICES ASSUME F2 = <<>> PROVE Upto(h + 1) = Upto(Len(G))
      BY <2>4
    <3>1. Len(F2) = 0
      BY EmptySeq
    <3>2. h + 1 = Len(G)
      BY <1>5, <2>2, <3>1
    <3> QED BY <3>2
  <2>6. F2 # <<>> => d + Len(D) + Len(q2) = Upto(Len(G) - Len(F2)) + F2[1].pos - 1
    <3> SUFFICES ASSUME F2 # <<>> PROVE d + Len(D) + Len(q2) = Upto(Len(G) - Len(F2)) + F2[1].pos - 1
      OBVIOUS
    <3>1. Len(F2) # 0
      BY <1>2, <2>1, EmptySeq
    <3>2. 1 \in 1 .. Len(F2)
      BY <1>2, <2>1, <3>1
    <3>3. F2[1].pos = 1 /\ Upto(h + 1) \in Nat
      BY <1>5, <1>6, <2>3, <3>2
    <3> QED BY <2>2, <2>4, <3>3
  <2>7. Coming(G, d)'
    <3>1. \A j \in 1 .. Len(F2) : F2[j].msg = G[Len(G) - Len(F2) + j] /\ (j > 1 => F2[j].pos = 1)
      BY <2>3
    <3> QED BY <1>p, <1>1, <1>b, <1>8, <2>2, <2>5, <2>6, <3>1 DEF Coming
  <2> QED BY <1>p, <1>2, <1>3, <2>1, <2>7
<1>11. CASE e.pos # LineBeats
  <2>1. F2 = [F EXCEPT ![1].pos = F[1].pos + 1]
    BY <1>1, <1>11 DEF LastOfLine
  <2>2. F2 = [F EXCEPT ![1] = [F[1] EXCEPT !.pos = F[1].pos + 1]]
    BY <2>1
  <2>3. [F[1] EXCEPT !.pos = F[1].pos + 1] = [msg |-> e.msg, pos |-> e.pos + 1]
    BY <1>2 DEF LineBeat
  <2>4. 1 \in 1 .. Len(F) /\ [msg |-> e.msg, pos |-> e.pos + 1] \in LineBeat
    BY <1>2, <1>5, <1>6, <1>11, SMTT(30) DEF LineBeat
  <2>5. /\ F2 \in Seq(LineBeat) /\ Len(F2) = Len(F) /\ F2[1] = [msg |-> e.msg, pos |-> e.pos + 1]
        /\ \A j \in 1 .. Len(F) : j # 1 => F2[j] = F[j]
    BY <1>1, <2>2, <2>3, <2>4, ExceptSeq
  <2>6. F2 # <<>>
    <3>1. Len(F2) # 0
      BY <1>2, <2>5
    <3> QED BY <3>1, EmptySeq
  <2>7. F2[1].msg = e.msg /\ F2[1].pos = e.pos + 1
    BY <2>5
  <2>8. ASSUME NEW j \in 1 .. Len(F2) PROVE F2[j].msg = G[Len(G) - Len(F2) + j] /\ (j > 1 => F2[j].pos = 1)
    <3>1. CASE j = 1
      <4>1. Len(G) - Len(F2) + j = h + 1
        BY <1>h, <2>5, <3>1
      <4> QED BY <1>6, <2>7, <3>1, <4>1
    <3>2. CASE j # 1
      <4>1. F2[j] = F[j] /\ j \in 1 .. Len(F)
        BY <2>5, <3>2
      <4> QED BY <1>4, <2>5, <4>1
    <3> QED BY <3>1, <3>2
  <2>9. d + Len(D) + Len(q2) = Upto(Len(G) - Len(F2)) + F2[1].pos - 1
    BY <1>5, <1>6, <1>9, <1>h, <2>5, <2>7, SMTT(30)
  <2>10. Coming(G, d)'
    BY <1>p, <1>1, <1>4, <1>b, <1>8, <2>5, <2>6, <2>8, <2>9, SMTT(30) DEF Coming
  <2> QED BY <1>p, <1>3, <2>5, <2>10
<1> QED BY <1>10, <1>11

\* The parser takes a beat.
LEMMA ComingParsed ==
  ASSUME NetTypes, NEW G \in Seq(Message), NEW d \in Nat, Coming(G, d), data # <<>>, data' = Tail(data),
         UNCHANGED <<fetch, fetched>>
  PROVE  /\ Coming(G, d + 1)' /\ IsBeat(G, Head(data), d + 1) /\ data' \in Seq(LineBeat) /\ Head(data) \in LineBeat
         /\ d + 1 + Len(data') = d + Len(data)
<1>p. PICK D, D2, b : D = data /\ D2 = data' /\ b = Head(D)
  OBVIOUS
<1>1. D \in Seq(LineBeat) /\ D # <<>> /\ D2 = Tail(D) /\ fetch' = fetch /\ fetched' = fetched
  BY <1>p DEF NetTypes
<1>2. /\ D2 \in Seq(LineBeat) /\ Len(D2) = Len(D) - 1 /\ Len(D) \in Nat \ {0} /\ b = D[1] /\ b \in LineBeat
      /\ \A i \in 1 .. Len(D) - 1 : D2[i] = D[i + 1]
  BY <1>p, <1>1, Tailed
<1>3. \A i \in 1 .. Len(D) : IsBeat(G, D[i], d + i)
  BY <1>p DEF Coming
<1>4. IsBeat(G, b, d + 1)
  BY <1>2, <1>3
<1>5. ASSUME NEW i \in 1 .. Len(D2) PROVE IsBeat(G, D2[i], d + 1 + i)
  <2>1. i \in 1 .. Len(D) - 1 /\ i + 1 \in 1 .. Len(D) /\ d + 1 + i = d + (i + 1)
    BY <1>2
  <2> QED BY <1>2, <1>3, <2>1
<1>6. d + 1 + Len(D2) = d + Len(D)
  BY <1>2
<1>7. Coming(G, d + 1)'
  BY <1>p, <1>1, <1>5, <1>6 DEF Coming
<1> QED BY <1>p, <1>2, <1>4, <1>6, <1>7

------------------------------------------------------------------------------
(* What each step does to the parser and the deparser.                       *)

\* What the ranks say of one message.
LEMMA RankStep ==
  ASSUME NEW O, NEW G, NEW rk, Ranked(O, G, rk), NEW r \in Nat, r + 1 <= Len(O)
  PROVE  /\ rk[r] \in Nat /\ rk[r + 1] \in Nat
         /\ HasData(O[r + 1]) => rk[r + 1] = rk[r] + 1 /\ rk[r + 1] <= Len(G) /\ G[rk[r + 1]] = O[r + 1]
         /\ ~HasData(O[r + 1]) => rk[r + 1] = rk[r]
<1>1. Len(O) \in Nat /\ rk \in [0 .. Len(O) -> Nat]
  BY LenProperties DEF Ranked
<1>2. PICK i : i = r + 1
  OBVIOUS
<1>3. i \in 1 .. Len(O) /\ i - 1 = r /\ i \in 0 .. Len(O) /\ r \in 0 .. Len(O)
  BY <1>1, <1>2
<1>4. \/ HasData(O[i]) /\ rk[i] = rk[i - 1] + 1 /\ rk[i] <= Len(G) /\ G[rk[i]] = O[i]
      \/ ~HasData(O[i]) /\ rk[i] = rk[i - 1]
  BY <1>3 DEF Ranked
<1>5. rk[r] \in Nat /\ rk[i] \in Nat
  BY <1>1, <1>3
<1> QED BY <1>2, <1>3, <1>4, <1>5

\* A message that is added to `ctrl` is the last of O.
LEMMA ParsingMore ==
  ASSUME NetTypes, NEW O \in Seq(Message), NEW rk, NEW c, NEW d, Parsing(O, rk, c, d),
         NEW m \in Message, ctrl' = Append(ctrl, m), UNCHANGED <<stage, sending>>,
         NEW rk2, \A i \in 0 .. Len(O) : rk2[i] = rk[i]
  PROVE  Parsing(Append(O, m), rk2, c, d)' /\ ctrl' \in Seq(Message)
<1>p. PICK K, K2, O2 : K = ctrl /\ K2 = ctrl' /\ O2 = Append(O, m)
  OBVIOUS
<1>1. K \in Seq(Message) /\ K2 = Append(K, m) /\ stage' = stage /\ sending' = sending
  BY <1>p DEF NetTypes
<1>2. /\ K2 \in Seq(Message) /\ Len(K) \in Nat /\ Len(K2) = Len(K) + 1 /\ K2[Len(K) + 1] = m
      /\ \A i \in 1 .. Len(K) : K2[i] = K[i]
  BY <1>1, Appended
<1>3. /\ Len(O) \in Nat /\ Len(O2) = Len(O) + 1 /\ O2[Len(O) + 1] = m
      /\ \A i \in 1 .. Len(O) : O2[i] = O[i]
  BY <1>p, Appended
<1>4. /\ c \in Nat /\ d \in Nat /\ Len(O) = c + (IF stage = "CTRL" THEN 1 ELSE 0) + Len(K)
      /\ \A i \in 1 .. Len(K) : K[i] = O[Len(O) - Len(K) + i]
  BY <1>p DEF Parsing
<1>5. ASSUME NEW i \in 1 .. Len(K2) PROVE K2[i] = O2[Len(O2) - Len(K2) + i]
  <2>1. CASE i \in 1 .. Len(K)
    <3>1. Len(O2) - Len(K2) + i = Len(O) - Len(K) + i /\ Len(O) - Len(K) + i \in 1 .. Len(O)
      BY <1>2, <1>3, <1>4, <2>1
    <3> QED BY <1>2, <1>3, <1>4, <2>1, <3>1
  <2>2. CASE i = Len(K) + 1
    <3>1. Len(O2) - Len(K2) + i = Len(O) + 1
      BY <1>2, <1>3, <2>2
    <3> QED BY <1>2, <1>3, <2>2, <3>1
  <2> QED BY <1>2, <2>1, <2>2
<1>6. stage = "CTRL" => sending = O2[c + 1]
  <2> SUFFICES ASSUME stage = "CTRL" PROVE sending = O2[c + 1]
    OBVIOUS
  <2>1. c + 1 \in 1 .. Len(O)
    BY <1>2, <1>3, <1>4
  <2> QED BY <1>3, <2>1 DEF Parsing
<1>7. stage # "DATA" => d = Upto(rk2[c])
  <2>1. c \in 0 .. Len(O)
    BY <1>2, <1>3, <1>4
  <2> QED BY <2>1 DEF Parsing
<1>8. stage = "DATA" => c > 0 /\ sending = O2[c] /\ HasData(O2[c]) /\ InLine(d, rk2[c])
  <2> SUFFICES ASSUME stage = "DATA" PROVE c > 0 /\ sending = O2[c] /\ HasData(O2[c]) /\ InLine(d, rk2[c])
    OBVIOUS
  <2>1. c > 0 /\ sending = O[c] /\ HasData(O[c]) /\ InLine(d, rk[c])
    BY DEF Parsing
  <2>2. c \in 1 .. Len(O) /\ c \in 0 .. Len(O)
    BY <1>2, <1>3, <1>4, <2>1
  <2>3. O2[c] = O[c] /\ rk2[c] = rk[c]
    BY <1>3, <2>2
  <2> QED BY <2>1, <2>3
<1>9. Len(O2) = c + (IF stage = "CTRL" THEN 1 ELSE 0) + Len(K2)
  <2>1. (IF stage = "CTRL" THEN 1 ELSE 0) \in Nat
    OBVIOUS
  <2> HIDE <1>5
  <2> QED BY <1>2, <1>3, <1>4, <2>1
<1>10. Parsing(O2, rk2, c, d)'
  BY <1>p, <1>1, <1>4, <1>5, <1>6, <1>7, <1>8, <1>9 DEF Parsing
<1> QED BY <1>p, <1>2, <1>10

\* The parser takes a message.
LEMMA ParsingMac ==
  ASSUME NetTypes, NEW O \in Seq(Message), NEW rk, NEW c, NEW d, Parsing(O, rk, c, d),
         stage = "MAC", ctrl # <<>>, sending' = Head(ctrl), ctrl' = Tail(ctrl), stage' = "CTRL"
  PROVE  Parsing(O, rk, c, d)' /\ ctrl' \in Seq(Message) /\ sending' \in Message /\ Head(ctrl) \in Message
<1>p. PICK K, K2 : K = ctrl /\ K2 = ctrl'
  OBVIOUS
<1>1. K \in Seq(Message) /\ K # <<>> /\ K2 = Tail(K) /\ sending' = Head(K)
  BY <1>p DEF NetTypes
<1>2. /\ K2 \in Seq(Message) /\ Len(K2) = Len(K) - 1 /\ Len(K) \in Nat \ {0} /\ Head(K) = K[1] /\ K[1] \in Message
      /\ \A i \in 1 .. Len(K) - 1 : K2[i] = K[i + 1]
  BY <1>1, Tailed
<1>3. /\ c \in Nat /\ d \in Nat /\ Len(O) = c + Len(K) /\ d = Upto(rk[c])
      /\ \A i \in 1 .. Len(K) : K[i] = O[Len(O) - Len(K) + i]
  BY <1>p DEF Parsing
<1>4. ASSUME NEW i \in 1 .. Len(K2) PROVE K2[i] = O[Len(O) - Len(K2) + i]
  <2>1. i \in 1 .. Len(K) - 1 /\ i + 1 \in 1 .. Len(K) /\ Len(O) - Len(K) + (i + 1) = Len(O) - Len(K2) + i
    BY <1>2, <1>3
  <2> QED BY <1>2, <1>3, <2>1
<1>5. Head(K) = O[c + 1] /\ Len(O) = c + 1 + Len(K2)
  <2>1. 1 \in 1 .. Len(K) /\ Len(O) - Len(K) + 1 = c + 1
    BY <1>2, <1>3
  <2> QED BY <1>2, <1>3, <2>1
<1>6. Parsing(O, rk, c, d)'
  BY <1>p, <1>1, <1>3, <1>4, <1>5 DEF Parsing
<1> QED BY <1>p, <1>1, <1>2, <1>6

\* The parser has written the control beat.
LEMMA ParsingCtrl ==
  ASSUME NetTypes, NEW O, NEW G, NEW rk, Ranked(O, G, rk), NEW c, NEW d, Parsing(O, rk, c, d),
         stage = "CTRL", stage' = IF HasData(sending) THEN "DATA" ELSE "MAC", UNCHANGED <<ctrl, sending>>
  PROVE  Parsing(O, rk, c + 1, d)' /\ c + 1 <= Len(O) /\ sending = O[c + 1] /\ sending \in Message /\ c \in Nat /\ d \in Nat
<1>1. O \in Seq(Message) /\ Len(O) \in Nat /\ Len(ctrl) \in Nat /\ c \in Nat /\ d \in Nat /\ LineBeats \in Nat \ {0}
      /\ rk \in [0 .. Len(O) -> Nat]
  BY LenProperties, NetSizes DEF Ranked, NetTypes, Parsing
<1>2. /\ Len(O) = c + 1 + Len(ctrl) /\ d = Upto(rk[c]) /\ sending = O[c + 1]
      /\ \A i \in 1 .. Len(ctrl) : ctrl[i] = O[Len(O) - Len(ctrl) + i]
  BY DEF Parsing
<1>3. c + 1 \in 1 .. Len(O) /\ c + 1 - 1 = c /\ sending \in Message
  <2>1. c + 1 \in 1 .. Len(O) /\ c + 1 - 1 = c
    BY <1>1, <1>2
  <2> QED BY <1>1, <1>2, <2>1, ElementOfSeq
<1>4. /\ rk[c] \in Nat /\ (HasData(sending) => rk[c + 1] = rk[c] + 1)
      /\ ~HasData(sending) => rk[c + 1] = rk[c]
  <2>1. c + 1 <= Len(O)
    BY <1>3
  <2>2. /\ rk[c] \in Nat /\ (HasData(O[c + 1]) => rk[c + 1] = rk[c] + 1)
        /\ ~HasData(O[c + 1]) => rk[c + 1] = rk[c]
    BY <1>1, <2>1, RankStep
  <2> QED BY <1>2, <2>2
<1>5. CASE HasData(sending)
  <2>1. InLine(d, rk[c + 1])
    <3>1. rk[c] \in Nat /\ Upto(rk[c]) \in Nat
      BY <1>4, UptoNext
    <3>2. d = Upto(rk[c + 1] - 1) + 0 /\ 0 \in 0 .. LineBeats - 1
      <4>1. rk[c + 1] - 1 = rk[c]
        BY <1>4, <1>5, <3>1
      <4> QED BY <1>1, <1>2, <3>1, <4>1
    <3> QED BY <3>2 DEF InLine
  <2>2. stage' = "DATA" /\ ctrl' = ctrl /\ sending' = sending
    BY <1>5
  <2>3. Len(O) = c + 1 + 0 + Len(ctrl) /\ c + 1 > 0 /\ c + 1 \in Nat
    BY <1>1, <1>2
  <2>4. Parsing(O, rk, c + 1, d)'
    BY <1>1, <1>2, <1>5, <2>1, <2>2, <2>3 DEF Parsing
  <2> QED BY <1>1, <1>2, <1>3, <2>4
<1>6. CASE ~HasData(sending)
  <2>1. stage' = "MAC" /\ ctrl' = ctrl /\ sending' = sending /\ d = Upto(rk[c + 1])
    BY <1>2, <1>4, <1>6
  <2>2. Len(O) = c + 1 + 0 + Len(ctrl) /\ c + 1 > 0 /\ c + 1 \in Nat
    BY <1>1, <1>2
  <2>3. Parsing(O, rk, c + 1, d)'
    BY <1>1, <1>2, <2>1, <2>2 DEF Parsing
  <2> QED BY <1>1, <1>2, <1>3, <2>3
<1> QED BY <1>5, <1>6

\* The parser has written a beat of data.
LEMMA ParsingData ==
  ASSUME NetTypes, NEW O, NEW G, NEW rk, Ranked(O, G, rk), NEW c, NEW d, Parsing(O, rk, c, d),
         stage = "DATA", NEW b, IsBeat(G, b, d + 1),
         stage' = IF FrameEnd(b) THEN "MAC" ELSE "DATA", UNCHANGED <<ctrl, sending>>
  PROVE  Parsing(O, rk, c, d + 1)'
<1>1. O \in Seq(Message) /\ G \in Seq(Message) /\ Len(O) \in Nat /\ Len(ctrl) \in Nat /\ c \in Nat /\ d \in Nat
      /\ rk \in [0 .. Len(O) -> Nat]
  BY LenProperties DEF Ranked, NetTypes, Parsing
<1>2. /\ Len(O) = c + 0 + Len(ctrl) /\ c > 0 /\ sending = O[c] /\ HasData(O[c]) /\ InLine(d, rk[c])
      /\ \A i \in 1 .. Len(ctrl) : ctrl[i] = O[Len(O) - Len(ctrl) + i]
  BY DEF Parsing
<1>3. c \in 1 .. Len(O) /\ c - 1 \in 0 .. Len(O) /\ c \in 0 .. Len(O)
  BY <1>1, <1>2
<1>4. rk[c] \in Nat \ {0}
  <2>1. rk[c] = rk[c - 1] + 1
    BY <1>2, <1>3 DEF Ranked
  <2>2. rk[c - 1] \in Nat
    BY <1>1, <1>3
  <2> QED BY <2>1, <2>2
<1>5. PICK p \in 0 .. LineBeats - 1 : d = Upto(rk[c] - 1) + p
  BY <1>2 DEF InLine
<1>6. /\ b.pos = LineBeats => d + 1 = Upto(rk[c])
      /\ b.pos # LineBeats => InLine(d + 1, rk[c])
  BY <1>1, <1>4, <1>5, BeatAfter
<1>7. ctrl' = ctrl /\ sending' = sending /\ d + 1 \in Nat
      /\ ((stage' = "MAC" /\ d + 1 = Upto(rk[c])) \/ (stage' = "DATA" /\ InLine(d + 1, rk[c])))
  BY <1>1, <1>6 DEF FrameEnd, LastOfLine
<1> QED BY <1>1, <1>2, <1>7 DEF Parsing

\* What has arrived does not depend on what comes after.
LEMMA ReceivedGrows ==
  ASSUME NEW O \in Seq(Message), NEW G \in Seq(Message), NEW rk, NEW r \in Nat, NEW n, Received(O, G, rk, r, n),
         UNCHANGED <<rstage, toCtrl, toHost>>,
         NEW O2 \in Seq(Message), NEW G2 \in Seq(Message), NEW rk2, Extends(O, O2), Extends(G, G2),
         \A i \in 0 .. Len(O) : rk2[i] = rk[i], rk[r] \in Nat
  PROVE  Received(O2, G2, rk2, r, n)'
<1>1. Len(O) \in Nat /\ Len(O2) \in Nat /\ Len(O) <= Len(O2) /\ Len(G) \in Nat /\ Len(G2) \in Nat /\ Len(G) <= Len(G2)
  BY LenProperties DEF Extends
<1>2. r <= Len(O) /\ r \in 0 .. Len(O) /\ rk2[r] = rk[r] /\ rk[r] <= Len(G)
  BY <1>1 DEF Received
<1>3. (\A i \in 1 .. r : O2[i] = O[i]) /\ \A k \in 1 .. rk[r] : G2[k] = G[k]
  BY <1>1, <1>2, SMTT(30) DEF Extends
<1>4. \A i \in 1 .. n : IsBeat(G2, toHost.beat[i], i)
  BY BeatKept DEF Received
<1>5. r <= Len(O2) /\ rk[r] <= Len(G2)
  BY <1>1, <1>2
<1>6. /\ r = Len(toCtrl) /\ n = Len(toHost.beat)
      /\ \A i \in 1 .. r : toCtrl[i] = [msg |-> O2[i], goal |-> Goal(O2[i])]
      /\ Len(toHost.cmd) = rk[r]
      /\ \A k \in 1 .. rk[r] : toHost.cmd[k] = [msg |-> G2[k], at |-> StoreAt(G2[k])]
  BY <1>3, ZenonT(60) DEF Received
<1>7. rstage # "DATA" => n = Upto(rk[r])
  BY DEF Received
<1>8. rstage = "DATA" => r > 0 /\ HasData(O2[r]) /\ InLine(n, rk[r])
  <2> SUFFICES ASSUME rstage = "DATA" PROVE r > 0 /\ HasData(O2[r]) /\ InLine(n, rk[r])
    OBVIOUS
  <2>1. r > 0 /\ HasData(O[r]) /\ InLine(n, rk[r])
    BY DEF Received
  <2> QED BY <1>3, <2>1
<1> QED BY <1>2, <1>4, <1>5, <1>6, <1>7, <1>8 DEF Received

\* The deparser hands a message on.
LEMMA ReceivedCtrl ==
  ASSUME NetTypes, NEW O, NEW G, NEW rk, Ranked(O, G, rk), NEW r \in Nat, NEW n, Received(O, G, rk, r, n),
         rstage = "CTRL", r + 1 <= Len(O), NEW m, m = O[r + 1],
         toCtrl' = Append(toCtrl, [msg |-> m, goal |-> Goal(m)]),
         rstage' = IF HasData(m) THEN "DATA" ELSE "MAC",
         toHost' = IF HasData(m) THEN [toHost EXCEPT !.cmd = Append(@, [msg |-> m, at |-> StoreAt(m)])] ELSE toHost
  PROVE  /\ Received(O, G, rk, r + 1, n)' /\ toCtrl' \in Seq([msg : Message, goal : Sender])
         /\ toHost' \in [cmd : Seq(Command), beat : Seq(OnWire)]
<1>p. PICK T, T2, C, B, x, y : T = toCtrl /\ T2 = toCtrl' /\ C = toHost.cmd /\ B = toHost.beat
                              /\ x = [msg |-> m, goal |-> Goal(m)] /\ y = [msg |-> m, at |-> StoreAt(m)]
  OBVIOUS
<1>1. O \in Seq(Message) /\ G \in Seq(Message) /\ Len(O) \in Nat /\ Len(G) \in Nat /\ rk \in [0 .. Len(O) -> Nat]
      /\ LineBeats \in Nat \ {0} /\ r + 1 \in 1 .. Len(O) /\ r \in 0 .. Len(O) /\ r + 1 - 1 = r
  <2>1. O \in Seq(Message) /\ G \in Seq(Message) /\ rk \in [0 .. Len(O) -> Nat]
    BY DEF Ranked
  <2> QED BY <2>1, LenProperties, NetSizes
<1>2. m \in Message /\ x \in [msg : Message, goal : Sender] /\ y \in Command
  <2>1. m \in Message
    BY <1>1, ElementOfSeq
  <2> QED BY <1>p, <2>1 DEF Goal, StoreAt, Sender, Command
<1>3. /\ T \in Seq([msg : Message, goal : Sender]) /\ C \in Seq(Command) /\ B \in Seq(OnWire)
      /\ toHost = [cmd |-> C, beat |-> B] /\ T2 = Append(T, x) /\ r = Len(T)
  BY <1>p DEF NetTypes, Received
<1>4. /\ T2 \in Seq([msg : Message, goal : Sender]) /\ Len(T2) = Len(T) + 1 /\ T2[Len(T) + 1] = x
      /\ \A i \in 1 .. Len(T) : T2[i] = T[i]
  BY <1>2, <1>3, Appended
<1>5. /\ \A i \in 1 .. r : T[i] = [msg |-> O[i], goal |-> Goal(O[i])]
      /\ Len(C) = rk[r] /\ n = Len(B) /\ n = Upto(rk[r]) /\ rk[r] \in Nat /\ rk[r] <= Len(G)
      /\ \A k \in 1 .. rk[r] : C[k] = [msg |-> G[k], at |-> StoreAt(G[k])]
      /\ \A i \in 1 .. n : IsBeat(G, B[i], i)
  BY <1>p, <1>1 DEF Received
<1>6. \A i \in 1 .. r + 1 : T2[i] = [msg |-> O[i], goal |-> Goal(O[i])]
  BY <1>p, <1>3, <1>4, <1>5
<1>7. CASE HasData(m)
  <2>1. rk[r + 1] = rk[r] + 1 /\ rk[r + 1] <= Len(G) /\ G[rk[r + 1]] = m
    BY <1>7, RankStep
  <2>2. toHost' = [cmd |-> Append(C, y), beat |-> B] /\ rstage' = "DATA"
    BY <1>p, <1>3, <1>7
  <2>3. /\ Append(C, y) \in Seq(Command) /\ Len(Append(C, y)) = Len(C) + 1 /\ Append(C, y)[Len(C) + 1] = y
        /\ \A i \in 1 .. Len(C) : Append(C, y)[i] = C[i]
    BY <1>2, <1>3, Appended
  <2>4. ASSUME NEW k \in 1 .. rk[r + 1] PROVE Append(C, y)[k] = [msg |-> G[k], at |-> StoreAt(G[k])]
    <3>1. CASE k \in 1 .. rk[r]
      BY <1>5, <2>3, <3>1
    <3>2. CASE k = rk[r + 1]
      <4>1. Append(C, y)[k] = y /\ G[k] = m
        BY <1>5, <2>1, <2>3, <3>2
      <4> QED BY <1>p, <4>1
    <3> QED BY <1>5, <2>1, <3>1, <3>2
  <2>5. InLine(n, rk[r + 1])
    <3>1. n = Upto(rk[r + 1] - 1) + 0 /\ 0 \in 0 .. LineBeats - 1
      <4>1. rk[r + 1] - 1 = rk[r] /\ Upto(rk[r]) \in Nat
        BY <1>5, <2>1, UptoNext
      <4>2. Upto(rk[r]) = Upto(rk[r]) + 0 /\ 0 \in 0 .. LineBeats - 1
        BY <1>1, <4>1
      <4> QED BY <1>5, <4>1, <4>2
    <3> QED BY <3>1 DEF InLine
  <2>6. HasData(O[r + 1]) /\ r + 1 > 0 /\ Len(T2) = r + 1 /\ Len(Append(C, y)) = rk[r + 1]
    BY <1>3, <1>4, <1>5, <1>7, <2>1, <2>3
  <2>7. toHost'.cmd = Append(C, y) /\ toHost'.beat = B
    BY <2>2
  <2>8. Received(O, G, rk, r + 1, n)'
    BY <1>p, <1>5, <1>6, <2>1, <2>2, <2>4, <2>5, <2>6, <2>7 DEF Received
  <2>9. toHost' \in [cmd : Seq(Command), beat : Seq(OnWire)]
    <3>1. [cmd |-> Append(C, y), beat |-> B] \in [cmd : Seq(Command), beat : Seq(OnWire)]
      BY <1>3, <2>3
    <3> QED BY <2>2, <3>1
  <2> QED BY <1>p, <1>4, <2>8, <2>9
<1>8. CASE ~HasData(m)
  <2>1. rk[r + 1] = rk[r] /\ toHost' = toHost /\ rstage' = "MAC"
    BY <1>8, RankStep
  <2>2. Len(T2) = r + 1
    BY <1>3, <1>4
  <2>3. Received(O, G, rk, r + 1, n)'
    BY <1>p, <1>5, <1>6, <2>1, <2>2 DEF Received
  <2> QED BY <1>p, <1>3, <1>4, <2>1, <2>3
<1> QED BY <1>7, <1>8

\* The deparser writes a beat of data.
LEMMA ReceivedData ==
  ASSUME NetTypes, NEW O, NEW G, NEW rk, Ranked(O, G, rk), NEW r \in Nat, NEW n, Received(O, G, rk, r, n),
         rstage = "DATA", NEW b \in OnWire, IsBeat(G, b, n + 1),
         toHost' = [toHost EXCEPT !.beat = Append(@, b)], toCtrl' = toCtrl,
         rstage' = IF b.pos = LineBeats THEN "MAC" ELSE "DATA"
  PROVE  Received(O, G, rk, r, n + 1)' /\ toHost' \in [cmd : Seq(Command), beat : Seq(OnWire)]
<1>p. PICK C, B, B2 : C = toHost.cmd /\ B = toHost.beat /\ B2 = Append(B, b)
  OBVIOUS
<1>1. O \in Seq(Message) /\ G \in Seq(Message) /\ Len(O) \in Nat /\ Len(G) \in Nat /\ rk \in [0 .. Len(O) -> Nat]
  <2>1. O \in Seq(Message) /\ G \in Seq(Message) /\ rk \in [0 .. Len(O) -> Nat]
    BY DEF Ranked
  <2> QED BY <2>1, LenProperties
<1>2. C \in Seq(Command) /\ B \in Seq(OnWire) /\ toHost' = [cmd |-> C, beat |-> B2]
  BY <1>p DEF NetTypes
<1>3. /\ B2 \in Seq(OnWire) /\ Len(B) \in Nat /\ Len(B2) = Len(B) + 1 /\ B2[Len(B) + 1] = b
      /\ \A i \in 1 .. Len(B) : B2[i] = B[i]
  BY <1>p, <1>2, Appended
<1>4. /\ r = Len(toCtrl) /\ \A i \in 1 .. r : toCtrl[i] = [msg |-> O[i], goal |-> Goal(O[i])]
      /\ r <= Len(O) /\ r > 0 /\ HasData(O[r]) /\ InLine(n, rk[r])
      /\ Len(C) = rk[r] /\ n = Len(B) /\ rk[r] <= Len(G)
      /\ \A k \in 1 .. rk[r] : C[k] = [msg |-> G[k], at |-> StoreAt(G[k])]
      /\ \A i \in 1 .. n : IsBeat(G, B[i], i)
  BY <1>p DEF Received
<1>5. r \in 1 .. Len(O) /\ r - 1 \in 0 .. Len(O)
  BY <1>1, <1>4
<1>6. rk[r] \in Nat \ {0}
  <2>1. rk[r] = rk[r - 1] + 1
    BY <1>4, <1>5 DEF Ranked
  <2>2. rk[r - 1] \in Nat
    BY <1>1, <1>5
  <2> QED BY <2>1, <2>2
<1>7. PICK p \in 0 .. LineBeats - 1 : n = Upto(rk[r] - 1) + p
  BY <1>4 DEF InLine
<1>8. /\ b.pos = LineBeats => n + 1 = Upto(rk[r])
      /\ b.pos # LineBeats => InLine(n + 1, rk[r])
  BY <1>1, <1>6, <1>7, BeatAfter
<1>9. \A i \in 1 .. n + 1 : IsBeat(G, B2[i], i)
  <2>1. ASSUME NEW i \in 1 .. n + 1 PROVE IsBeat(G, B2[i], i)
    <3>1. CASE i \in 1 .. n
      BY <1>3, <1>4, <3>1
    <3>2. CASE i = n + 1
      BY <1>3, <1>4, <3>2
    <3> QED BY <1>3, <1>4, <3>1, <3>2
  <2> QED BY <2>1
<1>10. toHost'.cmd = C /\ toHost'.beat = B2 /\ Len(B2) = n + 1
  BY <1>2, <1>3, <1>4
<1>11. \/ rstage' = "MAC" /\ n + 1 = Upto(rk[r])
       \/ rstage' = "DATA" /\ InLine(n + 1, rk[r])
  BY <1>8
<1>12. Received(O, G, rk, r, n + 1)'
  BY <1>4, <1>9, <1>10, <1>11 DEF Received
<1>13. [cmd |-> C, beat |-> B2] \in [cmd : Seq(Command), beat : Seq(OnWire)]
  BY <1>2, <1>3
<1> QED BY <1>2, <1>12, <1>13

------------------------------------------------------------------------------
(* Every step keeps the invariant.                                           *)

\* The invariant's orders and counts are typed.
LEMMA NetFacts ==
  ASSUME NetTypes, NEW O, NEW G, NEW rk, NEW wo, NEW wb, NetHolds(O, G, rk, wo, wb)
  PROVE  /\ O \in Seq(Message) /\ G \in Seq(Message) /\ Len(O) \in Nat /\ Len(G) \in Nat
         /\ rk[Len(O)] \in Nat /\ rk[Len(O)] <= Len(G) /\ \A k \in 1 .. Len(G) : HasData(G[k])
         /\ Len(wire) \in Nat /\ Len(data) \in Nat
         /\ wo[0] \in Nat /\ wb[0] \in Nat /\ wo[Len(wire)] \in Nat /\ wb[Len(wire)] \in Nat
         /\ wo[0] <= Len(O) /\ rk[wo[0]] \in Nat
<1>1. /\ O \in Seq(Message) /\ G \in Seq(Message) /\ rk \in [0 .. Len(O) -> Nat]
      /\ (\A i \in 0 .. Len(O) : rk[i] <= Len(G)) /\ \A k \in 1 .. Len(G) : HasData(G[k])
  BY DEF NetHolds, Ranked
<1>2. Len(O) \in Nat /\ Len(G) \in Nat /\ Len(wire) \in Nat /\ Len(data) \in Nat
  BY <1>1, LenProperties DEF NetTypes
<1>3. wo \in [0 .. Len(wire) -> Nat] /\ wb \in [0 .. Len(wire) -> Nat]
  BY DEF NetHolds, Wired
<1>4. Len(O) \in 0 .. Len(O) /\ 0 \in 0 .. Len(wire) /\ Len(wire) \in 0 .. Len(wire)
  BY <1>2
<1>5. wo[0] \in Nat /\ wb[0] \in Nat /\ wo[Len(wire)] \in Nat /\ wb[Len(wire)] \in Nat
  BY <1>3, <1>4
<1>6. wo[0] <= Len(O)
  BY DEF NetHolds, Received
<1>7. wo[0] \in 0 .. Len(O)
  BY <1>2, <1>5, <1>6
<1> QED BY <1>1, <1>2, <1>4, <1>5, <1>6, <1>7

\* At the start both orders are empty.
LEMMA NetInitInv == NetInit => PathInv
<1> SUFFICES ASSUME NetInit PROVE PathInv
  OBVIOUS
<1>e. \A S : <<>> \in Seq(S) /\ Len(<<>>) = 0
  BY EmptySeq
<1>1. NetTypes
  BY <1>e DEF NetInit, NetTypes, Sender, Stage
<1>2. PICK z : z = [i \in 0 .. 0 |-> 0]
  OBVIOUS
<1>3. z \in [0 .. 0 -> Nat] /\ z[0] = 0 /\ \A i : ~(i \in 1 .. 0)
  BY <1>2
<1>4. Ranked(<<>>, <<>>, z)
  BY <1>e, <1>3 DEF Ranked
<1>5. Awaited(<<>>, <<>>, z)
  BY <1>e, <1>3 DEF Awaited, NetInit
<1>6. InOrder(<<>>, <<>>, 0)
  BY <1>e, <1>3 DEF InOrder
<1>7. Ordered(<<>>, <<>>)
  BY <1>e, <1>3 DEF Ordered, Merged, Queued, NetInit
<1>8. Wired(wire, stage, rstage, <<>>, <<>>, z, z)
  <2>1. wire = <<>> /\ stage = rstage /\ Len(wire) = 0 /\ \A i : ~(i \in 1 .. Len(wire) - 1)
    BY <1>e DEF NetInit
  <2> QED BY <1>e, <1>3, <2>1 DEF Wired
<1>9. Upto(0) = 0
  BY UptoNext
<1>10. Coming(<<>>, 0)
  BY <1>e, <1>3, <1>9 DEF Coming, NetInit
<1>11. Passed(0, 0)
  BY <1>9 DEF Passed, NetInit
<1>12. Parsing(<<>>, z, 0, 0)
  BY <1>e, <1>3, <1>9 DEF Parsing, NetInit
<1>13. Received(<<>>, <<>>, z, 0, 0)
  BY <1>e, <1>3, <1>9 DEF Received, NetInit
<1>14. Len(wire) = 0 /\ Len(data) = 0
  BY <1>e DEF NetInit
<1>15. NetHolds(<<>>, <<>>, z, z, z)
  BY <1>e, <1>3, <1>4, <1>5, <1>6, <1>7, <1>8, <1>10, <1>11, <1>12, <1>13, <1>14 DEF NetHolds
<1> QED BY <1>1, <1>15 DEF PathInv

\* A message enters a stream.
LEMMA StepSend ==
  ASSUME NetTypes, NEW O, NEW G, NEW rk, NEW wo, NEW wb, NetHolds(O, G, rk, wo, wb), NEW s \in Sender, Send(s)
  PROVE  PathInv'
<1>1. UNCHANGED <<flag, merged, held, loop, fetch, fetched, inLine, ctrl, data, stage, sending, wire, rstage, toCtrl, toHost>>
  BY DEF Send, fetchVars, frameVars, recvVars
<1>2. Ordered(O, G)' /\ sent' \in [Sender -> Nat] /\ inq' \in [Sender -> Seq(Message)]
  BY NetFacts, OrderSend DEF NetHolds
<1>3. NetTypes'
  BY <1>1, <1>2 DEF NetTypes
<1>4. NetHolds(O, G, rk, wo, wb)'
  BY <1>1, <1>2 DEF NetHolds, Awaited, Coming, Passed, Parsing, Received
<1> QED BY <1>3, <1>4 DEF PathInv

\* ctrlMsgCopy
LEMMA StepCopy ==
  ASSUME NetTypes, NEW O, NEW G, NEW rk, NEW wo, NEW wb, NetHolds(O, G, rk, wo, wb), NEW s \in Sender, CtrlMsgCopy(s)
  PROVE  PathInv'
<1>1. UNCHANGED <<sent, held, loop, fetch, fetched, inLine, ctrl, data, stage, sending, wire, rstage, toCtrl, toHost>>
  BY DEF CtrlMsgCopy, fetchVars, frameVars, recvVars
<1>2. Ordered(O, G)' /\ inq' \in [Sender -> Seq(Message)] /\ merged' \in Seq(Message)
  BY NetFacts, OrderCopy DEF NetHolds
<1>3. NetTypes'
  BY <1>1, <1>2 DEF NetTypes
<1>4. NetHolds(O, G, rk, wo, wb)'
  BY <1>1, <1>2, ZenonT(60) DEF NetHolds, Awaited, Coming, Passed, Parsing, Received
<1> QED BY <1>3, <1>4 DEF PathInv

\* Within a line the next beat goes on.
LEMMA StepNextBeat ==
  ASSUME NetTypes, NEW O, NEW G, NEW rk, NEW wo, NEW wb, NetHolds(O, G, rk, wo, wb), NextBeat
  PROVE  PathInv'
<1>1. UNCHANGED <<sent, inq, flag, merged, held, loop, fetch, ctrl, stage, sending, wire, rstage, toCtrl, toHost>>
      /\ inLine /\ fetched # <<>> /\ PassBeat
  BY DEF NextBeat, sendVars, frameVars, recvVars
<1>p. PICK w, d, n, b : w = rk[Len(O)] /\ d = wb[Len(wire)] /\ n = d + Len(data) /\ b = Head(fetched)
  OBVIOUS
<1>2. G \in Seq(Message) /\ d \in Nat /\ Len(data) \in Nat /\ w \in Nat /\ n \in Nat /\ Coming(G, d) /\ Passed(w, n)
  BY <1>p, NetFacts DEF NetHolds
<1>3. /\ Coming(G, d)' /\ IsBeat(G, b, n + 1) /\ Len(data') = Len(data) + 1
      /\ data' \in Seq(LineBeat) /\ fetched' \in Seq(LineBeat) /\ inLine' \in BOOLEAN
  BY <1>p, <1>1, <1>2, ComingPass
<1>4. w > 0 /\ InLine(n, w)
  BY <1>1, <1>2 DEF Passed
<1>5. PICK q \in 0 .. LineBeats - 1 : n = Upto(w - 1) + q
  BY <1>4 DEF InLine
<1>6. /\ b.pos = LineBeats => n + 1 = Upto(w)
      /\ b.pos # LineBeats => InLine(n + 1, w) /\ n + 1 # Upto(w - 1)
  <2>1. w \in Nat \ {0}
    BY <1>2, <1>4
  <2> QED BY <1>2, <1>3, <1>5, <2>1, BeatAfter
<1>7. inLine' <=> b.pos # LineBeats
  BY <1>p, <1>1 DEF PassBeat, LastOfLine
<1>8. Passed(w, n + 1)'
  BY <1>4, <1>6, <1>7 DEF Passed
<1>9. d + Len(data') = n + 1
  <2>1. n = d + Len(data) /\ d \in Nat /\ Len(data) \in Nat /\ Len(data') = Len(data) + 1
    BY <1>p, <1>2, <1>3
  <2> QED BY <2>1
<1>10. NetTypes'
  BY <1>1, <1>3 DEF NetTypes
<1>11. NetHolds(O, G, rk, wo, wb)'
  <2>1. wire' = wire
    BY <1>1
  <2>2. Coming(G, wb[Len(wire)])' /\ Passed(rk[Len(O)], wb[Len(wire)] + Len(data))'
    BY <1>p, <1>3, <1>8, <1>9, <2>1
  <2> QED BY <1>1, <2>2, ZenonT(60) DEF NetHolds, Awaited, Ordered, Merged, Queued, Gone, Left, Parsing, Received
<1> QED BY <1>10, <1>11 DEF PathInv

\* The first beat of a line takes its message along.
LEMMA StepJoin ==
  ASSUME NetTypes, NEW O, NEW G, NEW rk, NEW wo, NEW wb, NetHolds(O, G, rk, wo, wb), Join
  PROVE  PathInv'
<1>1. /\ UNCHANGED <<sent, inq, flag, merged, held, fetch, stage, sending, wire, rstage, toCtrl, toHost>>
      /\ held = NoMsg /\ ~inLine /\ fetched # <<>> /\ loop # <<>> /\ PassBeat
      /\ ctrl' = Append(ctrl, Head(loop)) /\ loop' = Tail(loop)
  BY DEF Join, sendVars, frameVars, recvVars
<1>p. PICK L, L2, m, w, c, d, n, b, v, O2, rk2 :
        /\ L = loop /\ L2 = loop' /\ m = Head(L) /\ w = rk[Len(O)] /\ d = wb[Len(wire)] /\ n = d + Len(data)
        /\ c = wo[Len(wire)] /\ v = w + 1 /\ b = Head(fetched) /\ O2 = Append(O, m) /\ rk2 = RankOf(O, rk, m)
  OBVIOUS
<1>2. /\ G \in Seq(Message) /\ O \in Seq(Message) /\ d \in Nat /\ Len(data) \in Nat /\ w \in Nat /\ n \in Nat
      /\ Len(O) \in Nat /\ Len(G) \in Nat /\ \A k \in 1 .. Len(G) : HasData(G[k])
  BY <1>p, NetFacts
<1>h. /\ Ranked(O, G, rk) /\ Awaited(O, G, rk) /\ InOrder(O, G, w) /\ Ordered(O, G) /\ Coming(G, d) /\ Passed(w, n)
      /\ Wired(wire, stage, rstage, O, G, wo, wb) /\ Parsing(O, rk, c, d) /\ Received(O, G, rk, wo[0], wb[0])
  BY <1>p DEF NetHolds
<1>3. /\ Coming(G, d)' /\ IsBeat(G, b, n + 1) /\ Len(data') = Len(data) + 1
      /\ data' \in Seq(LineBeat) /\ fetched' \in Seq(LineBeat) /\ inLine' \in BOOLEAN
  BY <1>p, <1>h, <1>1, <1>2, ComingPass
<1>4. /\ L2 \in Seq(Message) /\ Len(L2) = Len(L) - 1 /\ Len(L) \in Nat \ {0} /\ m = L[1] /\ m \in Message
      /\ \A i \in 1 .. Len(L) - 1 : L2[i] = L[i + 1]
  <2>1. L \in Seq(Message) /\ L # <<>> /\ L2 = Tail(L)
    BY <1>p, <1>1 DEF NetTypes
  <2> QED BY <1>p, <2>1, Tailed
<1>5. Len(G) = w + Len(L) /\ \A j \in 1 .. Len(L) : L[j] = G[w + j]
  BY <1>p, <1>1, <1>2, <1>4, <1>h DEF Awaited
<1>6. w + 1 <= Len(G) /\ m = G[w + 1] /\ HasData(m)
  <2>1. 1 \in 1 .. Len(L) /\ w + 1 <= Len(G) /\ w + 1 \in 1 .. Len(G)
    BY <1>2, <1>4, <1>5
  <2> QED BY <1>2, <1>4, <1>5, <2>1
<1>7. n = Upto(w)
  BY <1>1, <1>h DEF Passed
<1>8. /\ b.pos = LineBeats => n + 1 = Upto(w + 1)
      /\ b.pos # LineBeats => InLine(n + 1, w + 1) /\ n + 1 # Upto(w)
  BY <1>2, <1>3, <1>7, FirstBeat
<1>9. inLine' <=> b.pos # LineBeats
  BY <1>p, <1>1 DEF PassBeat, LastOfLine
<1>10. Passed(v, n + 1)'
  <2>1. v - 1 = w /\ v > 0 /\ v = w + 1
    BY <1>p, <1>2, SMTT(30)
  <2>2. ~inLine' => n + 1 = Upto(v)
    BY <1>8, <1>9, <2>1
  <2>3. inLine' => n + 1 # Upto(v - 1) /\ InLine(n + 1, v)
    BY <1>8, <1>9, <2>1
  <2> QED BY <2>1, <2>2, <2>3 DEF Passed
<1>11. /\ Ranked(O2, G, rk2) /\ Extends(O, O2) /\ Len(O2) = Len(O) + 1
       /\ \A i \in 0 .. Len(O) : rk2[i] = rk[i]
       /\ rk2[Len(O) + 1] = w + 1
  BY <1>p, <1>4, <1>6, <1>h, MoreOut
<1>12. rk2[Len(O2)] = w + 1 /\ O2 \in Seq(Message) /\ Extends(G, G)
  <2>1. Extends(G, G)
    BY <1>2 DEF Extends
  <2> QED BY <1>11, <2>1 DEF Ranked
<1>13. Parsing(O2, rk2, c, d)' /\ ctrl' \in Seq(Message)
  <2>1. ctrl' = Append(ctrl, m) /\ UNCHANGED <<stage, sending>>
    BY <1>p, <1>1
  <2>2. Parsing(Append(O, m), rk2, c, d)' /\ ctrl' \in Seq(Message)
    BY <1>2, <1>4, <1>11, <1>h, <2>1, ParsingMore
  <2> QED BY <1>p, <2>2
<1>14. Received(O2, G, rk2, wo[0], wb[0])'
  <2>1. wo[0] \in Nat /\ rk[wo[0]] \in Nat
    BY NetFacts
  <2> QED BY <1>1, <1>2, <1>11, <1>12, <1>h, <2>1, ReceivedGrows
<1>15. Wired(wire, stage, rstage, O2, G, wo, wb)
  BY <1>2, <1>11, <1>12, <1>h, WiredGrows
<1>16. InOrder(O2, G, w + 1)
  BY <1>p, <1>2, <1>6, <1>h, OrderJoined
<1>17. Awaited(O2, G, rk2)'
  <2>1. ASSUME NEW j \in 1 .. Len(L2) PROVE L2[j] = G[w + 1 + j]
    <3>1. j \in 1 .. Len(L) - 1 /\ j + 1 \in 1 .. Len(L) /\ w + (j + 1) = w + 1 + j
      BY <1>2, <1>4
    <3> QED BY <1>4, <1>5, <3>1
  <2>2. Len(G) = w + 1 + Len(L2) + 0
    BY <1>2, <1>4, <1>5
  <2> QED BY <1>p, <1>1, <1>12, <2>1, <2>2 DEF Awaited
<1>18. Ordered(O2, G)'
  <2>1. Gone(m) /\ (\A i \in 1 .. Len(O) : Gone(O[i])) /\ \A k \in 1 .. Len(G) : Gone(G[k])
    <3>1. (\A i \in 1 .. Len(O) : Gone(O[i])) /\ \A k \in 1 .. Len(G) : Gone(G[k])
      BY <1>h DEF Ordered
    <3>2. w + 1 \in 1 .. Len(G)
      BY <1>2, <1>6
    <3> QED BY <1>6, <3>1, <3>2
  <2>2. \A i \in 1 .. Len(O2) : Gone(O2[i])
    <3>1. /\ Len(O2) = Len(O) + 1 /\ O2[Len(O) + 1] = m /\ \A i \in 1 .. Len(O) : O2[i] = O[i]
      BY <1>p, <1>2, <1>4, Appended
    <3> QED BY <1>2, <2>1, <3>1
  <2>3. Merged /\ \A s \in Sender : Queued(s)
    BY <1>h DEF Ordered
  <2>4. sent' = sent /\ inq' = inq /\ merged' = merged
    BY <1>1
  <2> QED BY <2>1, <2>2, <2>3, <2>4 DEF Ordered, Merged, Queued, Gone, Left
<1>19. NetTypes'
  <2>1. loop' \in Seq(Message)
    BY <1>p, <1>4
  <2> QED BY <1>1, <1>3, <1>13, <2>1 DEF NetTypes
<1>20. NetHolds(O2, G, rk2, wo, wb)'
  <2>1. wire' = wire /\ stage' = stage /\ rstage' = rstage
    BY <1>1
  <2>2. d + Len(data') = n + 1
    <3>1. n = d + Len(data) /\ d \in Nat /\ Len(data) \in Nat /\ Len(data') = Len(data) + 1
      BY <1>p, <1>2, <1>3
    <3> QED BY <3>1
  <2>3. Coming(G, wb[Len(wire)])' /\ Passed(rk2[Len(O2)], wb[Len(wire)] + Len(data))'
        /\ Parsing(O2, rk2, wo[Len(wire)], wb[Len(wire)])'
    BY <1>p, <1>3, <1>10, <1>12, <1>13, <2>1, <2>2
  <2>4. InOrder(O2, G, rk2[Len(O2)]) /\ Wired(wire, stage, rstage, O2, G, wo, wb)'
    BY <1>12, <1>15, <1>16, <2>1
  <2> QED BY <1>11, <1>14, <1>17, <1>18, <2>3, <2>4 DEF NetHolds
<1> QED BY <1>19, <1>20 DEF PathInv

\* A message with data waits for it.
LEMMA StepTakeData ==
  ASSUME NetTypes, NEW O, NEW G, NEW rk, NEW wo, NEW wb, NetHolds(O, G, rk, wo, wb), TakeMessage, HasData(Head(merged))
  PROVE  PathInv'
<1>1. /\ UNCHANGED <<sent, inq, flag, loop, fetched, inLine, ctrl, data, stage, sending, wire, rstage, toCtrl, toHost>>
      /\ held = NoMsg /\ merged # <<>> /\ merged' = Tail(merged) /\ held' = Head(merged)
      /\ fetch' = Append(fetch, [msg |-> Head(merged), pos |-> 1])
  BY DEF TakeMessage, Idle, frameVars, recvVars
<1>p. PICK m, w, c, d, G2 : m = Head(merged) /\ w = rk[Len(O)] /\ d = wb[Len(wire)] /\ c = wo[Len(wire)] /\ G2 = Append(G, m)
  OBVIOUS
<1>2. /\ G \in Seq(Message) /\ O \in Seq(Message) /\ d \in Nat /\ w \in Nat /\ w <= Len(G)
      /\ Len(O) \in Nat /\ Len(G) \in Nat /\ Len(loop) \in Nat
  <2>1. Len(loop) \in Nat
    BY LenProperties DEF NetTypes
  <2> QED BY <1>p, <2>1, NetFacts
<1>h. /\ Ranked(O, G, rk) /\ Awaited(O, G, rk) /\ InOrder(O, G, w) /\ Ordered(O, G) /\ Coming(G, d)
      /\ Wired(wire, stage, rstage, O, G, wo, wb) /\ Parsing(O, rk, c, d) /\ Received(O, G, rk, wo[0], wb[0])
  BY <1>p DEF NetHolds
<1>3. /\ merged' \in Seq(Message) /\ m \in Message /\ Ordered(O, G2)'
      /\ (\A i \in 1 .. Len(O) : Clear(O[i], m)) /\ \A k \in 1 .. Len(G) : Clear(G[k], m)
  BY <1>p, <1>1, <1>2, <1>h, OrderTake
<1>4. HasData(m)
  BY <1>p
<1>5. Ranked(O, G2, rk) /\ Extends(G, G2) /\ Len(G2) = Len(G) + 1 /\ G2[Len(G) + 1] = m /\ G2 \in Seq(Message)
  <2>1. Ranked(O, G2, rk) /\ Extends(G, G2) /\ Len(G2) = Len(G) + 1 /\ G2[Len(G) + 1] = m
    BY <1>p, <1>3, <1>4, <1>h, MoreData
  <2> QED BY <2>1 DEF Ranked
<1>6. Coming(G2, d)' /\ fetch' \in Seq(LineBeat)
  <2>1. fetch' = Append(fetch, [msg |-> m, pos |-> 1]) /\ UNCHANGED <<data, fetched>>
    BY <1>p, <1>1
  <2>2. Coming(Append(G, m), d)' /\ fetch' \in Seq(LineBeat)
    BY <1>2, <1>3, <1>h, <2>1, ComingTake
  <2> QED BY <1>p, <2>2
<1>7. InOrder(O, G2, w)
  BY <1>p, <1>2, <1>3, <1>h, OrderData
<1>8. Extends(O, O)
  BY <1>2 DEF Extends
<1>9. Wired(wire, stage, rstage, O, G2, wo, wb)
  BY <1>2, <1>5, <1>8, <1>h, WiredGrows
<1>10. Received(O, G2, rk, wo[0], wb[0])'
  <2>1. wo[0] \in Nat /\ rk[wo[0]] \in Nat
    BY NetFacts
  <2>2. \A i \in 0 .. Len(O) : rk[i] = rk[i]
    OBVIOUS
  <2> QED BY <1>1, <1>2, <1>5, <1>8, <1>h, <2>1, <2>2, ReceivedGrows
<1>11. Awaited(O, G2, rk)'
  <2>1. Len(G) = w + Len(loop) /\ \A j \in 1 .. Len(loop) : loop[j] = G[w + j]
    BY <1>p, <1>1, <1>2, <1>h DEF Awaited
  <2>2. Len(G2) = w + Len(loop) + 1
    BY <1>2, <1>5, <2>1
  <2>3. ASSUME NEW j \in 1 .. Len(loop) PROVE loop[j] = G2[w + j]
    <3>1. w + j \in 1 .. Len(G)
      BY <1>2, <2>1
    <3>2. G2[w + j] = G[w + j]
      BY <1>5, <3>1 DEF Extends
    <3> QED BY <2>1, <3>2
  <2>4. held' = m /\ held' # NoMsg /\ held' = G2[Len(G2)] /\ loop' = loop
    BY <1>p, <1>1, <1>3, <1>5, NetSizes
  <2> QED BY <1>p, <2>2, <2>3, <2>4 DEF Awaited
<1>12. NetTypes'
  <2>1. held' \in Message \cup {NoMsg}
    BY <1>p, <1>1, <1>3
  <2> QED BY <1>1, <1>3, <1>6, <2>1 DEF NetTypes
<1>13. NetHolds(O, G2, rk, wo, wb)'
  <2>1. wire' = wire /\ stage' = stage /\ rstage' = rstage /\ data' = data /\ inLine' = inLine /\ ctrl' = ctrl
        /\ sending' = sending
    BY <1>1
  <2>2. Coming(G2, wb[Len(wire)])' /\ Passed(rk[Len(O)], wb[Len(wire)] + Len(data))'
        /\ Parsing(O, rk, wo[Len(wire)], wb[Len(wire)])'
    BY <1>p, <1>6, <2>1 DEF NetHolds, Passed, Parsing
  <2>3. InOrder(O, G2, rk[Len(O)]) /\ Wired(wire, stage, rstage, O, G2, wo, wb)'
    BY <1>p, <1>7, <1>9, <2>1
  <2> QED BY <1>3, <1>5, <1>10, <1>11, <2>2, <2>3 DEF NetHolds
<1> QED BY <1>12, <1>13 DEF PathInv

\* A message without data goes on.
LEMMA StepTakePlain ==
  ASSUME NetTypes, NEW O, NEW G, NEW rk, NEW wo, NEW wb, NetHolds(O, G, rk, wo, wb), TakeMessage, ~HasData(Head(merged))
  PROVE  PathInv'
<1>1. /\ UNCHANGED <<sent, inq, flag, held, loop, fetch, fetched, inLine, data, stage, sending, wire, rstage, toCtrl, toHost>>
      /\ merged # <<>> /\ merged' = Tail(merged) /\ ctrl' = Append(ctrl, Head(merged))
  BY DEF TakeMessage, frameVars, recvVars
<1>p. PICK m, w, c, d, O2, rk2 : /\ m = Head(merged) /\ w = rk[Len(O)] /\ d = wb[Len(wire)] /\ c = wo[Len(wire)]
                                 /\ O2 = Append(O, m) /\ rk2 = RankOf(O, rk, m)
  OBVIOUS
<1>2. /\ G \in Seq(Message) /\ O \in Seq(Message) /\ d \in Nat /\ w \in Nat
      /\ Len(O) \in Nat /\ Len(G) \in Nat /\ \A k \in 1 .. Len(G) : HasData(G[k])
  BY <1>p, NetFacts
<1>h. /\ Ranked(O, G, rk) /\ Awaited(O, G, rk) /\ InOrder(O, G, w) /\ Ordered(O, G) /\ Coming(G, d)
      /\ Wired(wire, stage, rstage, O, G, wo, wb) /\ Parsing(O, rk, c, d) /\ Received(O, G, rk, wo[0], wb[0])
  BY <1>p DEF NetHolds
<1>3. /\ merged' \in Seq(Message) /\ m \in Message /\ Ordered(O2, G)'
      /\ (\A i \in 1 .. Len(O) : Clear(O[i], m)) /\ \A k \in 1 .. Len(G) : Clear(G[k], m)
  BY <1>p, <1>1, <1>2, <1>h, OrderTake
<1>4. ~HasData(m)
  BY <1>p
<1>5. /\ Ranked(O2, G, rk2) /\ Extends(O, O2) /\ Len(O2) = Len(O) + 1
      /\ \A i \in 0 .. Len(O) : rk2[i] = rk[i]
      /\ rk2[Len(O) + 1] = w
  BY <1>p, <1>3, <1>4, <1>h, MoreOut
<1>6. rk2[Len(O2)] = w /\ O2 \in Seq(Message) /\ Extends(G, G)
  <2>1. Extends(G, G)
    BY <1>2 DEF Extends
  <2> QED BY <1>5, <2>1 DEF Ranked
<1>7. Parsing(O2, rk2, c, d)' /\ ctrl' \in Seq(Message)
  <2>1. ctrl' = Append(ctrl, m) /\ UNCHANGED <<stage, sending>>
    BY <1>p, <1>1
  <2>2. Parsing(Append(O, m), rk2, c, d)' /\ ctrl' \in Seq(Message)
    BY <1>2, <1>3, <1>5, <1>h, <2>1, ParsingMore
  <2> QED BY <1>p, <2>2
<1>8. Received(O2, G, rk2, wo[0], wb[0])'
  <2>1. wo[0] \in Nat /\ rk[wo[0]] \in Nat
    BY NetFacts
  <2> QED BY <1>1, <1>2, <1>5, <1>6, <1>h, <2>1, ReceivedGrows
<1>9. Wired(wire, stage, rstage, O2, G, wo, wb)
  BY <1>2, <1>5, <1>6, <1>h, WiredGrows
<1>10. InOrder(O2, G, w)
  BY <1>p, <1>2, <1>3, <1>4, <1>h, OrderPlain
<1>11. Awaited(O2, G, rk2)'
  BY <1>p, <1>1, <1>6, <1>h DEF Awaited
<1>12. NetTypes'
  BY <1>1, <1>3, <1>7 DEF NetTypes
<1>13. NetHolds(O2, G, rk2, wo, wb)'
  <2>1. UNCHANGED <<wire, stage, rstage, data, inLine, fetch, fetched>>
    BY <1>1
  <2>2. Coming(G, wb[Len(wire)])' /\ Passed(rk2[Len(O2)], wb[Len(wire)] + Len(data))'
        /\ Parsing(O2, rk2, wo[Len(wire)], wb[Len(wire)])'
    BY <1>p, <1>6, <1>7, <2>1 DEF NetHolds, Passed, Coming
  <2>3. InOrder(O2, G, rk2[Len(O2)]) /\ Wired(wire, stage, rstage, O2, G, wo, wb)'
    BY <1>6, <1>9, <1>10, <2>1
  <2> QED BY <1>3, <1>5, <1>8, <1>11, <2>2, <2>3 DEF NetHolds
<1> QED BY <1>12, <1>13 DEF PathInv

\* The message that dataMsgFetch holds enters the loop.
LEMMA StepWriteLoop ==
  ASSUME NetTypes, NEW O, NEW G, NEW rk, NEW wo, NEW wb, NetHolds(O, G, rk, wo, wb), WriteLoop
  PROVE  PathInv'
<1>1. /\ UNCHANGED <<sent, inq, flag, merged, fetch, fetched, inLine, ctrl, data, stage, sending, wire, rstage, toCtrl, toHost>>
      /\ held # NoMsg /\ loop' = Append(loop, held) /\ held' = NoMsg
  BY DEF WriteLoop, sendVars, frameVars, recvVars
<1>p. PICK L, L2, m, w : L = loop /\ L2 = loop' /\ m = held /\ w = rk[Len(O)]
  OBVIOUS
<1>2. L \in Seq(Message) /\ m \in Message /\ L2 = Append(L, m) /\ w \in Nat /\ Len(G) \in Nat
  BY <1>p, <1>1, NetFacts DEF NetTypes
<1>3. /\ L2 \in Seq(Message) /\ Len(L) \in Nat /\ Len(L2) = Len(L) + 1 /\ L2[Len(L) + 1] = m
      /\ \A i \in 1 .. Len(L) : L2[i] = L[i]
  BY <1>2, Appended
<1>4. Len(G) = w + Len(L) + 1 /\ (\A j \in 1 .. Len(L) : L[j] = G[w + j]) /\ m = G[Len(G)]
  BY <1>p, <1>1 DEF NetHolds, Awaited
<1>5. ASSUME NEW j \in 1 .. Len(L2) PROVE L2[j] = G[w + j]
  <2>1. CASE j \in 1 .. Len(L)
    BY <1>3, <1>4, <2>1
  <2>2. CASE j = Len(L) + 1
    <3>1. w + j = Len(G)
      BY <1>2, <1>3, <1>4, <2>2
    <3> QED BY <1>3, <1>4, <2>2, <3>1
  <2> QED BY <1>3, <2>1, <2>2
<1>6. Len(G) = w + Len(L2) + 0
  BY <1>2, <1>3, <1>4
<1>7. Awaited(O, G, rk)'
  BY <1>p, <1>1, <1>5, <1>6 DEF Awaited
<1>8. NetTypes'
  <2>1. loop' \in Seq(Message)
    BY <1>p, <1>3
  <2> QED BY <1>1, <2>1 DEF NetTypes
<1>9. NetHolds(O, G, rk, wo, wb)'
  BY <1>1, <1>7, ZenonT(60) DEF NetHolds, Ordered, Merged, Queued, Gone, Left, Coming, Passed, Parsing, Received
<1> QED BY <1>8, <1>9 DEF PathInv

\* A beat comes back from the host's memory.
LEMMA StepHostRead ==
  ASSUME NetTypes, NEW O, NEW G, NEW rk, NEW wo, NEW wb, NetHolds(O, G, rk, wo, wb), HostRead
  PROVE  PathInv'
<1>1. UNCHANGED <<sent, inq, flag, merged, held, loop, inLine, ctrl, data, stage, sending, wire, rstage, toCtrl, toHost>>
  BY DEF HostRead, sendVars, frameVars, recvVars
<1>p. PICK d : d = wb[Len(wire)]
  OBVIOUS
<1>2. Coming(G, d)' /\ fetch' \in Seq(LineBeat) /\ fetched' \in Seq(LineBeat)
  BY <1>p, NetFacts, ComingRead DEF NetHolds
<1>3. NetTypes'
  BY <1>1, <1>2 DEF NetTypes
<1>4. Coming(G, wb[Len(wire)])'
  BY <1>p, <1>1, <1>2
<1>5. NetHolds(O, G, rk, wo, wb)'
  BY <1>1, <1>4, ZenonT(60) DEF NetHolds, Awaited, Ordered, Merged, Queued, Gone, Left, Passed, Parsing, Received
<1> QED BY <1>3, <1>5 DEF PathInv

\* What is left alone while the parser and the deparser work.
LEMMA FrameKept ==
  ASSUME NEW O, NEW G, NEW rk, NEW wo, NEW wb, NetHolds(O, G, rk, wo, wb),
         UNCHANGED <<sent, inq, merged, held, loop>>
  PROVE  Ranked(O, G, rk) /\ Awaited(O, G, rk)' /\ InOrder(O, G, rk[Len(O)]) /\ Ordered(O, G)'
BY DEF NetHolds, Awaited, Ordered, Merged, Queued, Gone, Left

\* The parser's three stages.
LEMMA StepParserMac ==
  ASSUME NetTypes, NEW O, NEW G, NEW rk, NEW wo, NEW wb, NetHolds(O, G, rk, wo, wb), ParserMac
  PROVE  PathInv'
<1>1. /\ UNCHANGED <<sent, inq, flag, merged, held, loop, fetch, fetched, inLine, data, rstage, toCtrl, toHost>>
      /\ stage = "MAC" /\ ctrl # <<>> /\ sending' = Head(ctrl) /\ ctrl' = Tail(ctrl) /\ stage' = "CTRL"
      /\ wire' = Append(wire, WireBeat("MAC", Head(ctrl), 0))
  BY DEF ParserMac, sendVars, recvVars
<1>p. PICK W, W2, b, c, d, wo2, wb2 :
        /\ W = wire /\ W2 = Append(W, b) /\ b = WireBeat("MAC", Head(ctrl), 0) /\ c = wo[Len(W)] /\ d = wb[Len(W)]
        /\ wo2 = Counted(W, wo, c) /\ wb2 = Counted(W, wb, d)
  <2> DEFINE x == WireBeat("MAC", Head(ctrl), 0)
  <2>1. /\ wire = wire /\ Append(wire, x) = Append(wire, x) /\ x = WireBeat("MAC", Head(ctrl), 0)
        /\ wo[Len(wire)] = wo[Len(wire)] /\ wb[Len(wire)] = wb[Len(wire)]
        /\ Counted(wire, wo, wo[Len(wire)]) = Counted(wire, wo, wo[Len(wire)])
        /\ Counted(wire, wb, wb[Len(wire)]) = Counted(wire, wb, wb[Len(wire)])
    OBVIOUS
  <2> QED BY <2>1
<1>2. c \in Nat /\ d \in Nat /\ O \in Seq(Message)
  BY <1>p, NetFacts
<1>h. /\ Ranked(O, G, rk) /\ Wired(W, stage, rstage, O, G, wo, wb) /\ Parsing(O, rk, c, d) /\ Coming(G, d)
      /\ Passed(rk[Len(O)], d + Len(data)) /\ Received(O, G, rk, wo[0], wb[0])
  BY <1>p DEF NetHolds
<1>3. Parsing(O, rk, c, d)' /\ ctrl' \in Seq(Message) /\ sending' \in Message /\ Head(ctrl) \in Message
  BY <1>1, <1>2, <1>h, ParsingMac
<1>4. b \in OnWire /\ b.kind = "MAC" /\ Follows(b) = "CTRL" /\ W2 \in Seq(OnWire)
  <2>1. b \in OnWire /\ b.kind = "MAC"
    BY <1>p, <1>3, NetSizes DEF WireBeat, OnWire, Stage
  <2>2. W \in Seq(OnWire)
    BY <1>p DEF NetTypes
  <2> QED BY <1>p, <2>1, <2>2, Appended DEF Follows
<1>5. Fits(O, G, b, wo[Len(W)], c, wb[Len(W)], d)
  BY <1>p, <1>4 DEF Fits
<1>6. /\ Wired(W2, "CTRL", rstage, O, G, wo2, wb2)
      /\ wo2[0] = wo[0] /\ wb2[0] = wb[0] /\ wo2[Len(W2)] = c /\ wb2[Len(W2)] = d
  <2>1. b.kind = stage
    BY <1>1, <1>4
  <2>2. /\ Wired(Append(W, b), Follows(b), rstage, O, G, Counted(W, wo, c), Counted(W, wb, d))
        /\ Counted(W, wo, c)[0] = wo[0] /\ Counted(W, wb, d)[0] = wb[0]
        /\ Counted(W, wo, c)[Len(Append(W, b))] = c /\ Counted(W, wb, d)[Len(Append(W, b))] = d
    BY <1>2, <1>4, <1>5, <1>h, <2>1, WiredPush
  <2> QED BY <1>p, <1>4, <2>2
<1>7. NetTypes'
  <2>1. stage' \in Stage /\ wire' \in Seq(OnWire)
    BY <1>p, <1>1, <1>4 DEF Stage
  <2> QED BY <1>1, <1>3, <2>1 DEF NetTypes
<1>8. NetHolds(O, G, rk, wo2, wb2)'
  <2>1. wire' = W2 /\ stage' = "CTRL" /\ rstage' = rstage
    BY <1>p, <1>1
  <2>2. Coming(G, d)' /\ Passed(rk[Len(O)], d + Len(data))' /\ Received(O, G, rk, wo[0], wb[0])'
    BY <1>1, <1>h DEF Coming, Passed, Received
  <2> QED BY <1>1, <1>3, <1>6, <2>1, <2>2, FrameKept DEF NetHolds
<1> QED BY <1>7, <1>8 DEF PathInv

\* The control beat goes on the wire.
LEMMA StepParserCtrl ==
  ASSUME NetTypes, NEW O, NEW G, NEW rk, NEW wo, NEW wb, NetHolds(O, G, rk, wo, wb), ParserCtrl
  PROVE  PathInv'
<1>1. /\ UNCHANGED <<sent, inq, flag, merged, held, loop, fetch, fetched, inLine, data, ctrl, sending, rstage, toCtrl, toHost>>
      /\ stage = "CTRL" /\ wire' = Append(wire, WireBeat("CTRL", sending, 0))
      /\ stage' = IF HasData(sending) THEN "DATA" ELSE "MAC"
  BY DEF ParserCtrl, sendVars, recvVars, fetchVars
<1>p. PICK W, W2, b, c, d, wo2, wb2 :
        /\ W = wire /\ W2 = Append(W, b) /\ b = WireBeat("CTRL", sending, 0) /\ c = wo[Len(W)] /\ d = wb[Len(W)]
        /\ wo2 = Counted(W, wo, c + 1) /\ wb2 = Counted(W, wb, d)
  <2> DEFINE x == WireBeat("CTRL", sending, 0)
  <2>1. /\ wire = wire /\ Append(wire, x) = Append(wire, x) /\ x = WireBeat("CTRL", sending, 0)
        /\ wo[Len(wire)] = wo[Len(wire)] /\ wb[Len(wire)] = wb[Len(wire)]
        /\ Counted(wire, wo, wo[Len(wire)] + 1) = Counted(wire, wo, wo[Len(wire)] + 1)
        /\ Counted(wire, wb, wb[Len(wire)]) = Counted(wire, wb, wb[Len(wire)])
    OBVIOUS
  <2> QED BY <2>1
<1>2. c \in Nat /\ d \in Nat /\ c + 1 \in Nat /\ O \in Seq(Message)
  BY <1>p, NetFacts
<1>h. /\ Ranked(O, G, rk) /\ Wired(W, stage, rstage, O, G, wo, wb) /\ Parsing(O, rk, c, d) /\ Coming(G, d)
      /\ Passed(rk[Len(O)], d + Len(data)) /\ Received(O, G, rk, wo[0], wb[0])
  BY <1>p DEF NetHolds
<1>3. Parsing(O, rk, c + 1, d)' /\ c + 1 <= Len(O) /\ sending = O[c + 1] /\ sending \in Message
  BY <1>1, <1>h, ParsingCtrl
<1>4. b \in OnWire /\ b.kind = "CTRL" /\ b.msg = sending /\ W2 \in Seq(OnWire)
      /\ Follows(b) = IF HasData(sending) THEN "DATA" ELSE "MAC"
  <2>1. b \in OnWire /\ b.kind = "CTRL" /\ b.msg = sending
    BY <1>p, <1>3, NetSizes DEF WireBeat, OnWire, Stage
  <2>2. W \in Seq(OnWire)
    BY <1>p DEF NetTypes
  <2> QED BY <1>p, <2>1, <2>2, Appended DEF Follows
<1>5. Fits(O, G, b, wo[Len(W)], c + 1, wb[Len(W)], d)
  BY <1>p, <1>3, <1>4 DEF Fits
<1>6. /\ Wired(W2, Follows(b), rstage, O, G, wo2, wb2)
      /\ wo2[0] = wo[0] /\ wb2[0] = wb[0] /\ wo2[Len(W2)] = c + 1 /\ wb2[Len(W2)] = d
  <2>1. b.kind = stage
    BY <1>1, <1>4
  <2>2. /\ Wired(Append(W, b), Follows(b), rstage, O, G, Counted(W, wo, c + 1), Counted(W, wb, d))
        /\ Counted(W, wo, c + 1)[0] = wo[0] /\ Counted(W, wb, d)[0] = wb[0]
        /\ Counted(W, wo, c + 1)[Len(Append(W, b))] = c + 1 /\ Counted(W, wb, d)[Len(Append(W, b))] = d
    BY <1>2, <1>4, <1>5, <1>h, <2>1, WiredPush
  <2> QED BY <1>p, <2>2
<1>7. NetTypes'
  <2>1. stage' \in Stage /\ wire' \in Seq(OnWire)
    BY <1>p, <1>1, <1>4 DEF Stage
  <2> QED BY <1>1, <2>1 DEF NetTypes
<1>8. NetHolds(O, G, rk, wo2, wb2)'
  <2>1. wire' = W2 /\ stage' = Follows(b) /\ rstage' = rstage
    BY <1>p, <1>1, <1>4
  <2>2. Coming(G, d)' /\ Passed(rk[Len(O)], d + Len(data))' /\ Received(O, G, rk, wo[0], wb[0])'
    BY <1>1, <1>h DEF Coming, Passed, Received
  <2> QED BY <1>1, <1>3, <1>6, <2>1, <2>2, FrameKept DEF NetHolds
<1> QED BY <1>7, <1>8 DEF PathInv

\* A beat of data goes on the wire.
LEMMA StepParserData ==
  ASSUME NetTypes, NEW O, NEW G, NEW rk, NEW wo, NEW wb, NetHolds(O, G, rk, wo, wb), ParserData
  PROVE  PathInv'
<1>1. /\ UNCHANGED <<sent, inq, flag, merged, held, loop, fetch, fetched, inLine, ctrl, sending, rstage, toCtrl, toHost>>
      /\ stage = "DATA" /\ data # <<>> /\ data' = Tail(data)
      /\ wire' = Append(wire, WireBeat("DATA", Head(data).msg, Head(data).pos))
      /\ stage' = IF FrameEnd(Head(data)) THEN "MAC" ELSE "DATA"
  BY DEF ParserData, sendVars, recvVars
<1>p. PICK W, W2, x, b, c, d, wo2, wb2 :
        /\ W = wire /\ W2 = Append(W, b) /\ x = Head(data) /\ b = WireBeat("DATA", x.msg, x.pos)
        /\ c = wo[Len(W)] /\ d = wb[Len(W)]
        /\ wo2 = Counted(W, wo, c) /\ wb2 = Counted(W, wb, d + 1)
  <2> DEFINE y == WireBeat("DATA", Head(data).msg, Head(data).pos)
  <2>1. /\ wire = wire /\ Append(wire, y) = Append(wire, y) /\ y = WireBeat("DATA", Head(data).msg, Head(data).pos)
        /\ wo[Len(wire)] = wo[Len(wire)] /\ wb[Len(wire)] = wb[Len(wire)] /\ Head(data) = Head(data)
        /\ Counted(wire, wo, wo[Len(wire)]) = Counted(wire, wo, wo[Len(wire)])
        /\ Counted(wire, wb, wb[Len(wire)] + 1) = Counted(wire, wb, wb[Len(wire)] + 1)
    OBVIOUS
  <2> QED BY <2>1
<1>2. c \in Nat /\ d \in Nat /\ d + 1 \in Nat /\ G \in Seq(Message)
  BY <1>p, NetFacts
<1>h. /\ Ranked(O, G, rk) /\ Wired(W, stage, rstage, O, G, wo, wb) /\ Parsing(O, rk, c, d) /\ Coming(G, d)
      /\ Passed(rk[Len(O)], d + Len(data)) /\ Received(O, G, rk, wo[0], wb[0])
  BY <1>p DEF NetHolds
<1>3. /\ Coming(G, d + 1)' /\ IsBeat(G, x, d + 1) /\ data' \in Seq(LineBeat) /\ x \in LineBeat
      /\ d + 1 + Len(data') = d + Len(data)
  BY <1>p, <1>1, <1>2, <1>h, ComingParsed
<1>4. b \in OnWire /\ b.kind = "DATA" /\ b.msg = x.msg /\ b.pos = x.pos /\ W2 \in Seq(OnWire)
      /\ Follows(b) = IF FrameEnd(x) THEN "MAC" ELSE "DATA"
  <2>1. b \in OnWire /\ b.kind = "DATA" /\ b.msg = x.msg /\ b.pos = x.pos
    <3>1. x.msg \in Message /\ x.pos \in 0 .. LineBeats
      BY <1>3, NetSizes DEF LineBeat
    <3> QED BY <1>p, <3>1 DEF WireBeat, OnWire, Stage
  <2>2. W \in Seq(OnWire)
    BY <1>p DEF NetTypes
  <2> QED BY <1>p, <2>1, <2>2, Appended DEF Follows, FrameEnd, LastOfLine
<1>5. Fits(O, G, b, wo[Len(W)], c, wb[Len(W)], d + 1)
  <2>1. IsBeat(G, b, d + 1)
    BY <1>3, <1>4 DEF IsBeat
  <2> QED BY <1>p, <1>4, <2>1 DEF Fits
<1>6. /\ Wired(W2, Follows(b), rstage, O, G, wo2, wb2)
      /\ wo2[0] = wo[0] /\ wb2[0] = wb[0] /\ wo2[Len(W2)] = c /\ wb2[Len(W2)] = d + 1
  <2>1. b.kind = stage
    BY <1>1, <1>4
  <2>2. /\ Wired(Append(W, b), Follows(b), rstage, O, G, Counted(W, wo, c), Counted(W, wb, d + 1))
        /\ Counted(W, wo, c)[0] = wo[0] /\ Counted(W, wb, d + 1)[0] = wb[0]
        /\ Counted(W, wo, c)[Len(Append(W, b))] = c /\ Counted(W, wb, d + 1)[Len(Append(W, b))] = d + 1
    BY <1>2, <1>4, <1>5, <1>h, <2>1, WiredPush
  <2> QED BY <1>p, <2>2
<1>7. Parsing(O, rk, c, d + 1)'
  <2>1. stage' = IF FrameEnd(x) THEN "MAC" ELSE "DATA"
    BY <1>p, <1>1
  <2> QED BY <1>1, <1>3, <1>h, <2>1, ParsingData
<1>8. NetTypes'
  <2>1. stage' \in Stage /\ wire' \in Seq(OnWire)
    BY <1>p, <1>1, <1>4 DEF Stage
  <2> QED BY <1>1, <1>3, <2>1 DEF NetTypes
<1>9. NetHolds(O, G, rk, wo2, wb2)'
  <2>1. wire' = W2 /\ stage' = Follows(b) /\ rstage' = rstage
    BY <1>p, <1>1, <1>4
  <2>2. Passed(rk[Len(O)], d + 1 + Len(data))' /\ Received(O, G, rk, wo[0], wb[0])'
    BY <1>1, <1>3, <1>h DEF Passed, Received
  <2> QED BY <1>1, <1>3, <1>6, <1>7, <2>1, <2>2, FrameKept DEF NetHolds
<1> QED BY <1>8, <1>9 DEF PathInv

------------------------------------------------------------------------------
\* What the deparser finds at the head of the wire.
LEMMA Popped ==
  ASSUME NetTypes, NEW O, NEW G, NEW rk, NEW wo, NEW wb, NetHolds(O, G, rk, wo, wb), wire # <<>>, wire' = Tail(wire),
         rstage' = Follows(Head(wire)),
         UNCHANGED <<sent, inq, merged, held, loop, fetch, fetched, inLine, ctrl, data, stage, sending>>
  PROVE  LET wo2 == Recounted(wire, wo)
             wb2 == Recounted(wire, wb)
         IN /\ Head(wire) \in OnWire /\ Head(wire).kind = rstage /\ wire' \in Seq(OnWire)
            /\ Fits(O, G, Head(wire), wo[0], wo[1], wb[0], wb[1])
            /\ wo[0] \in Nat /\ wo[1] \in Nat /\ wb[0] \in Nat /\ wb[1] \in Nat
            /\ \A y, z : y = wo2 /\ z = wb2 /\ Received(O, G, rk, wo[1], wb[1])' => NetHolds(O, G, rk, y, z)'
<1>p. PICK W, W2, b, c, d, y, z, o1, n1 : /\ W = wire /\ W2 = Tail(W) /\ b = Head(W) /\ c = wo[Len(W)] /\ d = wb[Len(W)]
                      /\ y = Recounted(W, wo) /\ z = Recounted(W, wb) /\ o1 = wo[1] /\ n1 = wb[1]
  OBVIOUS
<1>h. /\ Ranked(O, G, rk) /\ Wired(W, stage, rstage, O, G, wo, wb) /\ Parsing(O, rk, c, d) /\ Coming(G, d)
      /\ Passed(rk[Len(O)], d + Len(data))
  BY <1>p DEF NetHolds
<1>1. /\ Wired(W2, stage, Follows(b), O, G, y, z)
      /\ y[0] = o1 /\ z[0] = n1 /\ y[Len(W2)] = c /\ z[Len(W2)] = d
      /\ b \in OnWire /\ b.kind = rstage
      /\ wo[0] \in Nat /\ wo[1] \in Nat /\ wb[0] \in Nat /\ wb[1] \in Nat
      /\ Fits(O, G, b, wo[0], wo[1], wb[0], wb[1])
  <2>1. W # <<>>
    BY <1>p
  <2> QED BY <1>p, <1>h, <2>1, WiredPop
<1>2. wire' = W2 /\ W2 \in Seq(OnWire)
  <2>1. W \in Seq(OnWire) /\ W # <<>>
    BY <1>p DEF NetTypes
  <2> QED BY <1>p, <2>1, Tailed
<1>3. Coming(G, d)' /\ Passed(rk[Len(O)], d + Len(data))' /\ Parsing(O, rk, c, d)'
  BY <1>h DEF Coming, Passed, Parsing
<1>4. Ranked(O, G, rk) /\ Awaited(O, G, rk)' /\ InOrder(O, G, rk[Len(O)]) /\ Ordered(O, G)'
  BY FrameKept
<1>5. ASSUME Received(O, G, rk, o1, n1)' PROVE NetHolds(O, G, rk, y, z)'
  <2>1. stage' = stage /\ rstage' = Follows(b)
    BY <1>p
  <2> QED BY <1>1, <1>2, <1>3, <1>4, <1>5, <2>1 DEF NetHolds
<1> QED BY <1>p, <1>1, <1>2, <1>5

\* The deparser's three stages.
LEMMA StepDeparserMac ==
  ASSUME NetTypes, NEW O, NEW G, NEW rk, NEW wo, NEW wb, NetHolds(O, G, rk, wo, wb), DeparserMac
  PROVE  PathInv'
<1>1. /\ UNCHANGED <<sent, inq, flag, merged, held, loop, fetch, fetched, inLine, ctrl, data, stage, sending, toCtrl, toHost>>
      /\ rstage = "MAC" /\ wire # <<>> /\ wire' = Tail(wire) /\ rstage' = "CTRL"
  BY DEF DeparserMac, sendVars, fetchVars
<1>p. PICK y, z, o0, o1, n0, n1 : y = Recounted(wire, wo) /\ z = Recounted(wire, wb) /\ o0 = wo[0] /\ o1 = wo[1] /\ n0 = wb[0] /\ n1 = wb[1]
  OBVIOUS
<1>2. Head(wire).kind = "MAC"
  <2>1. Wired(wire, stage, rstage, O, G, wo, wb)
    BY DEF NetHolds
  <2> QED BY <1>1, <2>1, WiredPop
<1>3. rstage' = Follows(Head(wire))
  BY <1>1, <1>2 DEF Follows
<1>4. /\ wire' \in Seq(OnWire) /\ Fits(O, G, Head(wire), o0, o1, n0, n1)
      /\ Received(O, G, rk, o1, n1)' => NetHolds(O, G, rk, y, z)'
  BY <1>p, <1>1, <1>3, Popped
<1>5. o1 = o0 /\ n1 = n0
  BY <1>2, <1>4 DEF Fits
<1>6. Received(O, G, rk, o0, n0)
  BY <1>p DEF NetHolds
<1>7. Received(O, G, rk, o1, n1)'
  BY <1>1, <1>5, <1>6 DEF Received
<1>8. NetTypes'
  BY <1>1, <1>4 DEF NetTypes, Stage
<1> QED BY <1>4, <1>7, <1>8 DEF PathInv

\* The deparser hands the message on, and writes the command of its data.
LEMMA StepDeparserCtrl ==
  ASSUME NetTypes, NEW O, NEW G, NEW rk, NEW wo, NEW wb, NetHolds(O, G, rk, wo, wb), DeparserCtrl
  PROVE  PathInv'
<1>1. /\ UNCHANGED <<sent, inq, flag, merged, held, loop, fetch, fetched, inLine, ctrl, data, stage, sending>>
      /\ rstage = "CTRL" /\ wire # <<>> /\ wire' = Tail(wire)
  BY DEF DeparserCtrl, sendVars, fetchVars
<1>p. PICK m, y, z, o0, o1, n0, n1 : /\ m = Head(wire).msg /\ y = Recounted(wire, wo) /\ z = Recounted(wire, wb)
                                     /\ o0 = wo[0] /\ o1 = wo[1] /\ n0 = wb[0] /\ n1 = wb[1]
  OBVIOUS
<1>a. /\ toCtrl' = Append(toCtrl, [msg |-> m, goal |-> Goal(m)])
      /\ rstage' = IF HasData(m) THEN "DATA" ELSE "MAC"
      /\ toHost' = IF HasData(m) THEN [toHost EXCEPT !.cmd = Append(@, [msg |-> m, at |-> StoreAt(m)])] ELSE toHost
  BY <1>p DEF DeparserCtrl
<1>2. Head(wire).kind = "CTRL"
  <2>1. Wired(wire, stage, rstage, O, G, wo, wb)
    BY DEF NetHolds
  <2> QED BY <1>1, <2>1, WiredPop
<1>3. rstage' = Follows(Head(wire))
  BY <1>p, <1>a, <1>2 DEF Follows
<1>4. /\ wire' \in Seq(OnWire) /\ Fits(O, G, Head(wire), o0, o1, n0, n1) /\ o0 \in Nat /\ o1 \in Nat
      /\ Received(O, G, rk, o1, n1)' => NetHolds(O, G, rk, y, z)'
  BY <1>p, <1>1, <1>3, Popped
<1>5. o1 = o0 + 1 /\ n1 = n0 /\ o0 + 1 <= Len(O) /\ m = O[o0 + 1]
  BY <1>p, <1>2, <1>4 DEF Fits
<1>6. Ranked(O, G, rk) /\ Received(O, G, rk, o0, n0)
  BY <1>p DEF NetHolds
<1>7. /\ Received(O, G, rk, o0 + 1, n0)' /\ toCtrl' \in Seq([msg : Message, goal : Sender])
      /\ toHost' \in [cmd : Seq(Command), beat : Seq(OnWire)]
  BY <1>1, <1>a, <1>4, <1>5, <1>6, ReceivedCtrl
<1>8. NetTypes'
  <2>1. rstage' \in Stage
    BY <1>a DEF Stage
  <2> QED BY <1>1, <1>4, <1>7, <2>1 DEF NetTypes
<1> QED BY <1>4, <1>5, <1>7, <1>8 DEF PathInv

\* The deparser writes a beat of data.
LEMMA StepDeparserData ==
  ASSUME NetTypes, NEW O, NEW G, NEW rk, NEW wo, NEW wb, NetHolds(O, G, rk, wo, wb), DeparserData
  PROVE  PathInv'
<1>1. /\ UNCHANGED <<sent, inq, flag, merged, held, loop, fetch, fetched, inLine, ctrl, data, stage, sending, toCtrl>>
      /\ rstage = "DATA" /\ wire # <<>> /\ wire' = Tail(wire)
  BY DEF DeparserData, sendVars, fetchVars
<1>p. PICK b, y, z, o0, o1, n0, n1 : /\ b = Head(wire) /\ y = Recounted(wire, wo) /\ z = Recounted(wire, wb)
                                     /\ o0 = wo[0] /\ o1 = wo[1] /\ n0 = wb[0] /\ n1 = wb[1]
  OBVIOUS
<1>a. /\ toHost' = [toHost EXCEPT !.beat = Append(@, b)]
      /\ rstage' = IF b.pos = LineBeats THEN "MAC" ELSE "DATA"
  BY <1>p DEF DeparserData
<1>2. Head(wire).kind = "DATA"
  <2>1. Wired(wire, stage, rstage, O, G, wo, wb)
    BY DEF NetHolds
  <2> QED BY <1>1, <2>1, WiredPop
<1>3. rstage' = Follows(Head(wire))
  BY <1>p, <1>a, <1>2 DEF Follows
<1>4. /\ wire' \in Seq(OnWire) /\ Fits(O, G, b, o0, o1, n0, n1) /\ o0 \in Nat /\ b \in OnWire
      /\ Received(O, G, rk, o1, n1)' => NetHolds(O, G, rk, y, z)'
  BY <1>p, <1>1, <1>3, Popped
<1>5. o1 = o0 /\ n1 = n0 + 1 /\ IsBeat(G, b, n0 + 1)
  BY <1>p, <1>2, <1>4 DEF Fits
<1>6. Ranked(O, G, rk) /\ Received(O, G, rk, o0, n0)
  BY <1>p DEF NetHolds
<1>7. Received(O, G, rk, o0, n0 + 1)' /\ toHost' \in [cmd : Seq(Command), beat : Seq(OnWire)]
  BY <1>1, <1>a, <1>4, <1>5, <1>6, ReceivedData
<1>8. NetTypes'
  <2>1. rstage' \in Stage
    BY <1>a DEF Stage
  <2> QED BY <1>1, <1>4, <1>7, <2>1 DEF NetTypes
<1> QED BY <1>4, <1>5, <1>7, <1>8 DEF PathInv

\* Every step of the way keeps the invariant.
LEMMA NetNextInv == PathInv /\ [NetNext]_netVars => PathInv'
<1> SUFFICES ASSUME PathInv, [NetNext]_netVars PROVE PathInv'
  OBVIOUS
<1>1. PICK O, G, rk, wo, wb : NetHolds(O, G, rk, wo, wb)
  BY DEF PathInv
<1>2. NetTypes
  BY DEF PathInv
<1>3. CASE UNCHANGED netVars
  <2>1. UNCHANGED <<sent, inq, flag, merged, held, loop, fetch, fetched, inLine, ctrl, data, stage, sending, wire, rstage,
                    toCtrl, toHost>>
    BY <1>3 DEF netVars, sendVars, fetchVars, frameVars, recvVars
  <2>2. NetTypes'
    BY <1>2, <2>1 DEF NetTypes
  <2>3. NetHolds(O, G, rk, wo, wb)'
    BY <1>1, <2>1, ZenonT(60) DEF NetHolds, Awaited, Ordered, Merged, Queued, Gone, Left, Coming, Passed, Parsing, Received
  <2> QED BY <2>2, <2>3 DEF PathInv
<1>4. ASSUME NEW s \in Sender, Send(s) PROVE PathInv'
  BY <1>1, <1>2, <1>4, StepSend
<1>5. ASSUME NEW s \in Sender, CtrlMsgCopy(s) PROVE PathInv'
  BY <1>1, <1>2, <1>5, StepCopy
<1>6. CASE NextBeat
  BY <1>1, <1>2, <1>6, StepNextBeat
<1>7. CASE Join
  BY <1>1, <1>2, <1>7, StepJoin
<1>8. CASE TakeMessage
  BY <1>1, <1>2, <1>8, StepTakeData, StepTakePlain
<1>9. CASE WriteLoop
  BY <1>1, <1>2, <1>9, StepWriteLoop
<1>10. CASE HostRead
  BY <1>1, <1>2, <1>10, StepHostRead
<1>11. CASE ParserMac
  BY <1>1, <1>2, <1>11, StepParserMac
<1>12. CASE ParserCtrl
  BY <1>1, <1>2, <1>12, StepParserCtrl
<1>13. CASE ParserData
  BY <1>1, <1>2, <1>13, StepParserData
<1>14. CASE DeparserMac
  BY <1>1, <1>2, <1>14, StepDeparserMac
<1>15. CASE DeparserCtrl
  BY <1>1, <1>2, <1>15, StepDeparserCtrl
<1>16. CASE DeparserData
  BY <1>1, <1>2, <1>16, StepDeparserData
<1> QED BY <1>3, <1>4, <1>5, <1>6, <1>7, <1>8, <1>9, <1>10, <1>11, <1>12, <1>13, <1>14, <1>15, <1>16
        DEF NetNext, Hardware

\* A beat of a line that has come belongs to the message of the line's number.
LEMMA PlaceOf ==
  ASSUME NEW j \in Nat, NEW p \in 1 .. LineBeats, NEW i, i = Upto(j) + p
  PROVE  (i - 1) \div LineBeats = j /\ ((i - 1) % LineBeats) = p - 1
<1>1. LineBeats \in Nat \ {0} /\ p - 1 \in 0 .. LineBeats - 1
  BY NetSizes
<1>2. (LineBeats * j + (p - 1)) \div LineBeats = j /\ ((LineBeats * j + (p - 1)) % LineBeats) = p - 1
  BY ONLY <1>1, j \in Nat
<1>3. i - 1 = LineBeats * j + (p - 1)
  <2>1. LineBeats * j \in Nat
    BY <1>1
  <2>2. i = LineBeats * j + p
    BY DEF Upto
  <2> QED BY <1>1, <2>1, <2>2
<1> QED BY <1>2, <1>3

\* The invariant gives the four properties.
LEMMA NetSafe == PathInv => NetSound
<1> SUFFICES ASSUME PathInv PROVE NetSound
  OBVIOUS
<1>1. PICK O, G, rk, wo, wb : NetHolds(O, G, rk, wo, wb)
  BY DEF PathInv
<1>2. NetTypes
  BY DEF PathInv
<1>3. PICK r, n : r = wo[0] /\ n = wb[0]
  OBVIOUS
<1>4. Ranked(O, G, rk) /\ InOrder(O, G, rk[Len(O)]) /\ Wired(wire, stage, rstage, O, G, wo, wb) /\ Received(O, G, rk, r, n)
  BY <1>1, <1>3 DEF NetHolds
<1>5. /\ O \in Seq(Message) /\ G \in Seq(Message) /\ Len(O) \in Nat /\ Len(G) \in Nat
      /\ r \in Nat /\ n \in Nat /\ rk[r] \in Nat /\ r <= Len(O) /\ rk[r] <= Len(G)
      /\ \A k \in 1 .. Len(G) : HasData(G[k])
  <2>1. rk[r] <= Len(G)
    BY <1>4 DEF Received
  <2> QED BY <1>1, <1>2, <1>3, <2>1, NetFacts
<1>6. DOMAIN toCtrl = 1 .. r /\ DOMAIN toHost.cmd = 1 .. rk[r] /\ DOMAIN toHost.beat = 1 .. n
  <2>1. /\ toCtrl \in Seq([msg : Message, goal : Sender]) /\ toHost.cmd \in Seq(Command) /\ toHost.beat \in Seq(OnWire)
        /\ Len(toCtrl) = r /\ Len(toHost.cmd) = rk[r] /\ Len(toHost.beat) = n
    BY <1>2, <1>4 DEF NetTypes, Received
  <2> QED BY <2>1, LenProperties
<1>7. \A i \in 1 .. r : toCtrl[i].msg = O[i] /\ toCtrl[i].goal = Goal(O[i]) /\ i \in 1 .. Len(O) /\ O[i] \in Message
  <2>1. ASSUME NEW i \in 1 .. r PROVE toCtrl[i].msg = O[i] /\ toCtrl[i].goal = Goal(O[i])
    <3>1. \A h \in 1 .. r : toCtrl[h] = [msg |-> O[h], goal |-> Goal(O[h])]
      BY <1>4 DEF Received
    <3>2. toCtrl[i] = [msg |-> O[i], goal |-> Goal(O[i])]
      BY <3>1
    <3> QED BY <3>2
  <2>2. ASSUME NEW i \in 1 .. r PROVE i \in 1 .. Len(O)
    BY <1>5
  <2>3. \A i \in 1 .. Len(O) : O[i] \in Message
    BY <1>5, ElementOfSeq
  <2> QED BY <2>1, <2>2, <2>3
<1>8. \A k \in 1 .. rk[r] : toHost.cmd[k].msg = G[k] /\ toHost.cmd[k].at = StoreAt(G[k]) /\ HasData(G[k])
  <2>1. ASSUME NEW k \in 1 .. rk[r] PROVE toHost.cmd[k].msg = G[k] /\ toHost.cmd[k].at = StoreAt(G[k])
    <3>1. \A h \in 1 .. rk[r] : toHost.cmd[h] = [msg |-> G[h], at |-> StoreAt(G[h])]
      BY <1>4 DEF Received
    <3>2. toHost.cmd[k] = [msg |-> G[k], at |-> StoreAt(G[k])]
      BY <3>1
    <3> QED BY <3>2
  <2>2. ASSUME NEW k \in 1 .. rk[r] PROVE HasData(G[k])
    BY <1>5
  <2> QED BY <2>1, <2>2
<1>9. FramesAligned
  <2> SUFFICES ASSUME wire # <<>> PROVE Head(wire).kind = rstage
    BY DEF FramesAligned
  <2> QED BY <1>4, WiredPop
<1>10. OnlyPlainOvertakes
  <2> SUFFICES ASSUME NEW i \in 1 .. r, NEW j \in 1 .. r, i < j
               PROVE  /\ toCtrl[i].msg # toCtrl[j].msg
                      /\ Before(toCtrl[j].msg, toCtrl[i].msg) => HasData(toCtrl[j].msg) /\ ~HasData(toCtrl[i].msg)
    BY <1>6 DEF OnlyPlainOvertakes
  <2>1. MayPass(O[i], O[j])
    BY <1>4, <1>7 DEF InOrder
  <2> QED BY <1>7, <2>1 DEF MayPass
<1>11. WellRouted
  <2>1. ASSUME NEW i \in 1 .. r
        PROVE  toCtrl[i].goal = IF toCtrl[i].msg.from = "DC" \/ toCtrl[i].msg.type \in FromAgent \ ToDirectory
                                THEN "CC" ELSE "DC"
    <3>1. O[i] \in Message /\ toCtrl[i].msg = O[i] /\ toCtrl[i].goal = Goal(O[i])
      BY <1>7
    <3>2. CASE O[i].from = "DC"
      <4>1. O[i].type \in Kinds["DC"]
        BY <3>1, <3>2 DEF Message
      <4>2. O[i].type \notin ToDirectory
        BY <4>1, NetPathAssumption
      <4> QED BY <3>1, <3>2, <4>2 DEF Goal
    <3>3. CASE O[i].from = "CC"
      <4>1. O[i].type \in Kinds["CC"]
        BY <3>1, <3>3 DEF Message
      <4>2. O[i].type \in ToDirectory \cup FromAgent
        BY <4>1, NetPathAssumption
      <4> QED BY <3>1, <3>3, <4>2 DEF Goal
    <3> QED BY <3>1, <3>2, <3>3 DEF Message, Sender
  <2>2. ASSUME NEW k \in 1 .. rk[r]
        PROVE  toHost.cmd[k].at = "dir_gblock_addr" <=>
                 toHost.cmd[k].msg.type \in {"R_EVICT_DIRTY", "AGENT_2_DIR_READ_MISS_DIRTY_ACKDATA"}
    <3>1. toHost.cmd[k].msg = G[k] /\ toHost.cmd[k].at = StoreAt(G[k]) /\ HasData(G[k])
      BY <1>8
    <3>2. StoreAt(G[k]) = "dir_gblock_addr" <=> G[k].type \in ToDirectory
      BY DEF StoreAt, Goal
    <3>3. G[k].type \in ToDirectory <=> G[k].type \in {"R_EVICT_DIRTY", "AGENT_2_DIR_READ_MISS_DIRTY_ACKDATA"}
      BY <3>1 DEF HasData, ToDirectory, FromAgent, FromHome, FromRequester
    <3> QED BY <3>1, <3>2, <3>3
  <2> QED BY <1>6, <2>1, <2>2 DEF WellRouted
<1>12. OwnData
  <2> SUFFICES ASSUME NEW i \in 1 .. n, NEW k, k = ((i - 1) \div LineBeats) + 1
               PROVE  /\ k <= Len(toHost.cmd) /\ toHost.beat[i].msg = toHost.cmd[k].msg
                      /\ toHost.beat[i].pos = ((i - 1) % LineBeats) + 1
    BY <1>6 DEF OwnData
  <2>1. IsBeat(G, toHost.beat[i], i)
    BY <1>4 DEF Received
  <2>2. PICK q \in 1 .. Len(G), p \in 1 .. LineBeats :
          i = Upto(q - 1) + p /\ toHost.beat[i].msg = G[q] /\ toHost.beat[i].pos = p
    BY <2>1 DEF IsBeat
  <2>3. q - 1 \in Nat /\ p \in Nat /\ LineBeats \in Nat \ {0}
    BY <1>5, <2>2, NetSizes
  <2>4. (i - 1) \div LineBeats = q - 1 /\ ((i - 1) % LineBeats) = p - 1
    BY <2>2, <2>3, PlaceOf
  <2>5. k = q /\ toHost.beat[i].pos = ((i - 1) % LineBeats) + 1
    BY <1>5, <2>2, <2>3, <2>4
  <2>6. n <= Upto(rk[r]) /\ Upto(rk[r]) \in Nat
    <3>1. Upto(rk[r]) \in Nat
      BY <1>5, UptoNext
    <3>2. CASE rstage # "DATA"
      BY <1>4, <1>5, <3>1, <3>2 DEF Received
    <3>3. CASE rstage = "DATA"
      <4>1. r > 0 /\ HasData(O[r]) /\ InLine(n, rk[r])
        BY <1>4, <3>3 DEF Received
      <4>2. PICK e \in 0 .. LineBeats - 1 : n = Upto(rk[r] - 1) + e
        BY <4>1 DEF InLine
      <4>3. rk[r] \in Nat \ {0}
        <5>1. PICK s \in Nat : r = s + 1
          <6>1. r - 1 \in Nat /\ r = r - 1 + 1
            BY <1>5, <4>1
          <6> QED BY <6>1
        <5>2. s + 1 <= Len(O)
          BY <1>5, <5>1
        <5>3. rk[s] \in Nat /\ (HasData(O[s + 1]) => rk[s + 1] = rk[s] + 1)
          <6>1. Ranked(O, G, rk)
            BY <1>4
          <6> QED BY <5>1, <5>2, <6>1, RankStep
        <5>4. HasData(O[s + 1]) /\ rk[r] = rk[s + 1]
          BY <4>1, <5>1
        <5> QED BY <5>3, <5>4
      <4>4. Upto(rk[r] - 1) \in Nat /\ Upto(rk[r]) = Upto(rk[r] - 1) + LineBeats
        <5>1. PICK s \in Nat : s = rk[r] - 1 /\ rk[r] = s + 1
          BY <4>3
        <5> QED BY <5>1, UptoNext
      <4> QED BY <2>3, <3>1, <4>2, <4>4
    <3> QED BY <3>2, <3>3
  <2>7. q <= rk[r]
    <3> SUFFICES ASSUME rk[r] < q PROVE FALSE
      BY <1>5
    <3>1. rk[r] <= q - 1
      BY <1>5
    <3>2. Upto(rk[r]) <= Upto(q - 1) /\ Upto(q - 1) \in Nat
      BY <1>5, <2>3, <3>1, UptoMono
    <3>3. i <= n /\ 0 < p /\ i \in Nat /\ n \in Nat
      BY <1>5
    <3>4. n < i
      <4>1. i = Upto(q - 1) + p
        BY <2>2
      <4> QED BY <2>3, <2>6, <3>2, <3>3, <4>1, SMTT(30)
    <3> QED BY <3>3, <3>4
  <2>8. q \in 1 .. rk[r] /\ Len(toHost.cmd) = rk[r]
    <3>1. Len(toHost.cmd) = rk[r]
      BY <1>4 DEF Received
    <3> QED BY <1>5, <2>7, <3>1
  <2>9. toHost.cmd[q].msg = G[q]
    BY <1>8, <2>8
  <2> QED BY <2>2, <2>5, <2>7, <2>8, <2>9
<1> QED BY <1>9, <1>10, <1>11, <1>12 DEF NetSound

\* From card to card a cache line goes only to the address of its own message, the
\* deparser never mistakes a beat of the parser's frames, only messages without data
\* overtake, and each reaches the controller it is for, for any messages and depths.
THEOREM NetIsSound == NetSpec => []NetSound
BY NetInitInv, NetNextInv, NetSafe, PTL DEF NetSpec
==============================================================================
