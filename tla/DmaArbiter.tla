------------------------------ MODULE DmaArbiter ------------------------------
(****************************************************************************)
(* c2hCmdDataDeliverHLS: the arbiter in front of the card-to-host DMA.      *)
(* Notifications for the application threads (source 0, the ABM), for the   *)
(* system threads (source 1, the SBM) and the cache lines that come from    *)
(* the network (source 2, the deparser) share one command and one data      *)
(* stream.  A packet is a command and the beats of its data; the DMA engine *)
(* pairs the two streams by position alone.                                 *)
(****************************************************************************)
EXTENDS Integers, Sequences

CONSTANTS
  Wrap,     \* values of the index register, 2^32
  NoSource, \* the index of a cycle without input, 0xffff
  Beats,    \* beats of a packet of source 2: a cache line
  DmaDepth, \* entries a stream holds
  Round     \* packets are numbered modulo Round, which tells neighbours apart

ASSUME ArbiterAssumption ==
  /\ Wrap \in Nat /\ NoSource \in 3 .. Wrap - 2
  /\ Beats \in Nat \ {0} /\ DmaDepth \in Nat \ {0}
  /\ Round \in Nat /\ Round > 2

Source == 0 .. 2

Length(s) == IF s = 2 THEN Beats ELSE 1

\* A packet: its source and its number there.
Packet == [src : Source, num : 0 .. Round - 1]

\* A beat: the packet it belongs to and its place in it.
Beat == [pkt : Packet, pos : 1 .. Beats]

Pkt(s, n) == [src |-> s, num |-> n]

IsLast(b) == b.pos = Length(b.pkt.src)

VARIABLES
  made,      \* made[s]: number of the packet that source s writes
  part,      \* beats of it that have been written
  cmd,       \* cmd[s], dat[s]: streams from source s
  dat,
  idx,       \* reg_ready_flag_idx
  endFlag,   \* reg_end_flag
  burst,     \* the source named by reg_c2h_cmd.qid
  cmdOut,    \* streams to the DMA engine
  datOut,
  left       \* beats the engine has taken of the packet at the head of cmdOut

srcVars == <<made, part, cmd, dat>>
arbVars == <<idx, endFlag, burst>>
dmaVars == <<srcVars, arbVars, cmdOut, datOut, left>>

DmaInit ==
  /\ made = [s \in Source |-> 0]
  /\ part = [s \in Source |-> 0]
  /\ cmd = [s \in Source |-> <<>>]
  /\ dat = [s \in Source |-> <<>>]
  /\ idx = 0 /\ endFlag = TRUE /\ burst = 0
  /\ cmdOut = <<>> /\ datOut = <<>> /\ left = 0

------------------------------------------------------------------------------
(* The sources.  A buffer manager writes command and data in one cycle; the  *)
(* deparser writes the command first and then one beat as it arrives.        *)

Manager(s) ==
  /\ s # 2
  /\ Len(cmd[s]) < DmaDepth /\ Len(dat[s]) < DmaDepth
  /\ cmd' = [cmd EXCEPT ![s] = Append(@, Pkt(s, made[s]))]
  /\ dat' = [dat EXCEPT ![s] = Append(@, [pkt |-> Pkt(s, made[s]), pos |-> 1])]
  /\ made' = [made EXCEPT ![s] = (@ + 1) % Round]
  /\ UNCHANGED <<part, arbVars, cmdOut, datOut, left>>

DeparserCmd ==
  /\ part[2] = 0 /\ Len(cmd[2]) < DmaDepth
  /\ cmd' = [cmd EXCEPT ![2] = Append(@, Pkt(2, made[2]))]
  /\ part' = [part EXCEPT ![2] = 1]
  /\ UNCHANGED <<made, dat, arbVars, cmdOut, datOut, left>>

DeparserBeat ==
  /\ part[2] > 0 /\ Len(dat[2]) < DmaDepth
  /\ dat' = [dat EXCEPT ![2] = Append(@, [pkt |-> Pkt(2, made[2]), pos |-> part[2]])]
  /\ part' = [part EXCEPT ![2] = IF @ = Beats THEN 0 ELSE @ + 1]
  /\ made' = [made EXCEPT ![2] = IF part[2] = Beats THEN (@ + 1) % Round ELSE @]
  /\ UNCHANGED <<cmd, arbVars, cmdOut, datOut, left>>

------------------------------------------------------------------------------
(* The arbiter *)

Valid == {s \in Source : cmd[s] # <<>> /\ dat[s] # <<>>}

\* Fault: the index of a full cycle stops at the end of its range.
ChooseStop_fault(V, i) ==
  CASE V = {} -> NoSource
    [] V = {0, 1} -> IF i = 0 THEN 1 ELSE 0
    [] V = {0, 2} -> IF i = 2 THEN 0 ELSE 2
    [] V = {1, 2} -> IF i = 1 THEN 2 ELSE 1
    [] V = {0, 1, 2} -> IF i = 2 THEN 0 ELSE IF i = Wrap - 1 THEN i ELSE i + 1
    [] OTHER -> CHOOSE s \in V : TRUE

\* tmp_ready_flag_idx, from the sources that are valid and the register.
Choose(V, i) ==
  CASE V = {} -> NoSource
    [] V = {0, 1} -> IF i = 0 THEN 1 ELSE 0
    [] V = {0, 2} -> IF i = 2 THEN 0 ELSE 2
    [] V = {1, 2} -> IF i = 1 THEN 2 ELSE 1
    [] V = {0, 1, 2} -> IF i = 2 THEN 0 ELSE (i + 1) % Wrap
    [] OTHER -> CHOOSE s \in V : TRUE

\* Fault: the data of a burst is taken for complete after its first beat.
Ends_fault(b) == TRUE

Ends(b) == IsLast(b)

\* One beat of source s, and with the first its command.
Forward(s, first) ==
  /\ Len(datOut) < DmaDepth /\ (first => Len(cmdOut) < DmaDepth)
  /\ datOut' = Append(datOut, Head(dat[s]))
  /\ dat' = [dat EXCEPT ![s] = Tail(@)]
  /\ cmdOut' = IF first THEN Append(cmdOut, Head(cmd[s])) ELSE cmdOut
  /\ cmd' = IF first THEN [cmd EXCEPT ![s] = Tail(@)] ELSE cmd
  /\ endFlag' = Ends(Head(dat[s]))
  /\ burst' = IF first /\ ~Ends(Head(dat[s])) THEN Head(cmd[s]).src ELSE burst

\* A cycle between packets: nobody is served when the index is no source.
Arbitrate ==
  /\ endFlag
  /\ idx' = Choose(Valid, idx)
  /\ IF idx' \in Source THEN Forward(idx', TRUE) ELSE UNCHANGED <<endFlag, burst, cmd, dat, cmdOut, datOut>>
  /\ UNCHANGED <<made, part, left>>

\* A cycle within a packet: only its source is looked at.
Continue ==
  /\ ~endFlag
  /\ dat[burst] # <<>>
  /\ Forward(burst, FALSE)
  /\ UNCHANGED <<made, part, idx, left>>

------------------------------------------------------------------------------
\* The DMA engine (external) writes the beats it gets, up to the last of a packet,
\* to the address of the oldest command.
Engine ==
  /\ cmdOut # <<>> /\ datOut # <<>>
  /\ datOut' = Tail(datOut)
  /\ IF IsLast(Head(datOut)) THEN cmdOut' = Tail(cmdOut) /\ left' = 0
     ELSE left' = left + 1 /\ UNCHANGED cmdOut
  /\ UNCHANGED <<srcVars, arbVars>>

DmaNext ==
  \/ \E s \in Source : Manager(s)
  \/ DeparserCmd \/ DeparserBeat
  \/ Arbitrate \/ Continue \/ Engine

DmaSpec == DmaInit /\ [][DmaNext]_dmaVars

\* Clocked hardware: the arbiter and the engine never rest, and a line whose
\* command has been written arrives.
DmaFairSpec == DmaSpec /\ WF_dmaVars(Arbitrate) /\ WF_dmaVars(Continue) /\ WF_dmaVars(Engine) /\ WF_dmaVars(DeparserBeat)

------------------------------------------------------------------------------
DmaTypeOK ==
  /\ made \in [Source -> 0 .. Round - 1] /\ part \in [Source -> 0 .. Beats]
  /\ cmd \in [Source -> Seq(Packet)] /\ dat \in [Source -> Seq(Beat)]
  /\ idx \in 0 .. Wrap - 1 /\ endFlag \in BOOLEAN /\ burst \in Source
  /\ cmdOut \in Seq(Packet) /\ datOut \in Seq(Beat) /\ left \in 0 .. Beats - 1

\* The engine writes every beat to the address that belongs to it: the beat at
\* the head of the data stream is the next one of the packet at the head of the
\* command stream.
OwnAddress ==
  cmdOut # <<>> /\ datOut # <<>> =>
    Head(datOut) = [pkt |-> Head(cmdOut), pos |-> left + 1]

\* Packet q is the one that its source made after p.
Succeeds(q, p) == q.num = (p.num + 1) % Round

\* The newest command of source s on its way to the engine.
NewestOut(i, s) ==
  /\ i \in DOMAIN cmdOut /\ cmdOut[i].src = s
  /\ \A j \in DOMAIN cmdOut : j > i => cmdOut[j].src # s

\* The packets that have left the arbiter and those that wait in front of it are
\* consecutive for each source: none is lost, doubled or overtaken by another
\* of its source.
Consecutive ==
  \A s \in Source :
    /\ \A i, j \in DOMAIN cmdOut :
         /\ i < j /\ cmdOut[i].src = s /\ cmdOut[j].src = s
         /\ \A k \in i + 1 .. j - 1 : cmdOut[k].src # s
         => Succeeds(cmdOut[j], cmdOut[i])
    /\ \A i \in DOMAIN cmdOut : NewestOut(i, s) /\ cmd[s] # <<>> => Succeeds(cmd[s][1], cmdOut[i])
    /\ \A i \in 1 .. Len(cmd[s]) - 1 : Succeeds(cmd[s][i + 1], cmd[s][i])

\* The index leaves the three sources in two ways only: to NoSource when nothing
\* waits, and beyond it when all three sources wait at once, and then they all
\* still do.  So a cycle in which one or two sources wait is never lost.
StallOnlyWhenFull ==
  endFlag /\ idx \notin Source \cup {NoSource} => Valid = Source

\* The arbiter (c2hCmdDataDeliverHLS) keeps the two streams to the DMA engine in
\* step and each source in its order: every beat goes to the address of its own
\* packet, no packet is lost, doubled or overtaken by one of the same source, and
\* the index runs away only while all three sources wait.
DmaInOrder == DmaTypeOK /\ OwnAddress /\ Consecutive /\ StallOnlyWhenFull

\* Whatever waits is served: the index that has run away comes back when the
\* register wraps around (2^32 cycles on the card).
Served ==
  \A s \in Source : <>[](cmd[s] # <<>>) => []<><<Len(cmd'[s]) < Len(cmd[s])>>_cmd
=============================================================================
