--------------------------- MODULE Coherence_proofs --------------------------
(****************************************************************************)
(* Proofs about the protocol of module Coherence, for every number of nodes *)
(* and every load.                                                          *)
(*                                                                          *)
(* Whatever the number of cache agents, the protocol stays well typed and   *)
(* implements the directory's specification.  The coherence of the copies,  *)
(* with one cache agent per node, is in Protocol_proofs.                    *)
(****************************************************************************)
EXTENDS Coherence, DirEntry_proofs, SequenceTheorems

------------------------------------------------------------------------------
(* Queues *)

\* A message taken out of place i: the ones behind it move up.
LEMMA RemoveAtIs ==
  ASSUME NEW S, NEW q \in Seq(S), NEW i \in DOMAIN q
  PROVE  /\ RemoveAt(q, i) \in Seq(S)
         /\ Len(RemoveAt(q, i)) = Len(q) - 1
         /\ \A j \in 1 .. Len(q) - 1 : RemoveAt(q, i)[j] = IF j < i THEN q[j] ELSE q[j + 1]
<1> DEFINE a == SubSeq(q, 1, i - 1)
           b == SubSeq(q, i + 1, Len(q))
<1>1. i \in 1 .. Len(q) /\ Len(q) \in Nat
  OBVIOUS
<1>2. a \in Seq(S) /\ Len(a) = i - 1 /\ \A j \in 1 .. i - 1 : a[j] = q[j]
  BY <1>1, SubSeqProperties
<1>3. b \in Seq(S) /\ Len(b) = Len(q) - i /\ \A j \in 1 .. Len(q) - i : b[j] = q[i + j]
  BY <1>1, SubSeqProperties
<1> HIDE DEF a, b
<1>4. /\ a \o b \in Seq(S) /\ Len(a \o b) = Len(a) + Len(b)
      /\ \A j \in 1 .. Len(a) + Len(b) : (a \o b)[j] = IF j <= Len(a) THEN a[j] ELSE b[j - Len(a)]
  BY <1>2, <1>3, ConcatProperties
<1>5. RemoveAt(q, i) = a \o b
  BY DEF RemoveAt, a, b
<1>6. ASSUME NEW j \in 1 .. Len(q) - 1
      PROVE  (a \o b)[j] = IF j < i THEN q[j] ELSE q[j + 1]
  <2>1. CASE j < i
    <3>1. j \in 1 .. Len(a) + Len(b) /\ j <= Len(a) /\ j \in 1 .. i - 1
      BY <1>1, <1>2, <1>3, <2>1
    <3>2. (a \o b)[j] = a[j]
      BY <1>4, <3>1
    <3>3. a[j] = q[j]
      BY <1>2, <3>1
    <3> QED BY <2>1, <3>2, <3>3
  <2>2. CASE ~ (j < i)
    <3>1. j - Len(a) \in 1 .. Len(q) - i /\ i + (j - Len(a)) = j + 1 /\ ~ (j <= Len(a))
      BY <1>1, <1>2, <2>2
    <3>2. (a \o b)[j] = b[j - Len(a)]
      <4>1. j \in 1 .. Len(a) + Len(b)
        BY <1>1, <1>2, <1>3
      <4> QED BY <1>4, <3>1, <4>1
    <3>3. b[j - Len(a)] = q[i + (j - Len(a))]
      BY <1>3, <3>1
    <3> QED BY <2>2, <3>1, <3>2, <3>3
  <2> QED BY <2>1, <2>2
<1>7. Len(a \o b) = Len(q) - 1
  BY <1>1, <1>2, <1>3, <1>4
<1> QED BY <1>4, <1>5, <1>6, <1>7


AtMostOne(q, P) == \A i, j \in DOMAIN q : q[i].type \in P /\ q[j].type \in P => i = j

\* Taking a message out of a queue.
LEMMA Removing ==
  ASSUME NEW S, NEW q \in Seq(S), NEW i \in DOMAIN q
  PROVE  /\ RemoveAt(q, i) \in Seq(S)
         /\ q[i] \in Range(q)
         /\ Range(q) = Range(RemoveAt(q, i)) \cup {q[i]}
         /\ \A P : AtMostOne(q, P) =>
              /\ AtMostOne(RemoveAt(q, i), P)
              /\ q[i].type \in P => \A m \in Range(RemoveAt(q, i)) : m.type \notin P
<1> DEFINE r == RemoveAt(q, i)
<1>1. /\ r \in Seq(S) /\ Len(r) = Len(q) - 1 /\ Len(q) \in Nat /\ i \in 1 .. Len(q)
      /\ DOMAIN q = 1 .. Len(q) /\ DOMAIN r = 1 .. Len(q) - 1
      /\ \A j \in 1 .. Len(q) - 1 : r[j] = IF j < i THEN q[j] ELSE q[j + 1]
  BY RemoveAtIs
<1> HIDE DEF r
<1> DEFINE from(j) == IF j < i THEN j ELSE j + 1
<1>2. \A j \in DOMAIN r : from(j) \in DOMAIN q /\ from(j) # i /\ r[j] = q[from(j)]
  BY <1>1
<1>3. \A j, k \in DOMAIN r : from(j) = from(k) => j = k
  BY <1>1
<1>4. \A k \in DOMAIN q : k = i \/ \E j \in DOMAIN r : from(j) = k
  <2> SUFFICES ASSUME NEW k \in DOMAIN q, k # i PROVE \E j \in DOMAIN r : from(j) = k
    OBVIOUS
  <2>1. CASE k < i
    <3>1. k \in DOMAIN r /\ from(k) = k
      BY <1>1, <2>1
    <3> QED BY <3>1
  <2>2. CASE ~ (k < i)
    <3>1. k - 1 \in DOMAIN r /\ from(k - 1) = k
      BY <1>1, <2>2
    <3> QED BY <3>1
  <2> QED BY <2>1, <2>2
<1> HIDE DEF from
<1>5. Range(r) \subseteq Range(q) /\ q[i] \in Range(q)
  BY <1>2 DEF Range
<1>6. Range(q) = Range(r) \cup {q[i]}
  <2>1. ASSUME NEW k \in DOMAIN q PROVE q[k] \in Range(r) \cup {q[i]}
    BY <1>2, <1>4 DEF Range
  <2> QED BY <1>5, <2>1 DEF Range
<1>7. ASSUME NEW P, AtMostOne(q, P)
      PROVE  AtMostOne(r, P) /\ (q[i].type \in P => \A m \in Range(r) : m.type \notin P)
  <2>1. AtMostOne(r, P)
    BY <1>2, <1>3, <1>7 DEF AtMostOne
  <2>2. q[i].type \in P => \A m \in Range(r) : m.type \notin P
    BY <1>2, <1>7 DEF AtMostOne, Range
  <2> QED BY <2>1, <2>2
<1> QED BY <1>1, <1>5, <1>6, <1>7 DEF r

\* Putting a message at the end of a queue.
LEMMA Appending ==
  ASSUME NEW S, NEW q \in Seq(S), NEW x \in S
  PROVE  /\ Append(q, x) \in Seq(S)
         /\ Range(Append(q, x)) = Range(q) \cup {x}
         /\ \A P : AtMostOne(q, P) /\ (x.type \notin P \/ \A m \in Range(q) : m.type \notin P)
                    => AtMostOne(Append(q, x), P)
<1> DEFINE r == Append(q, x)
           L == Len(q)
<1>1. /\ r \in Seq(S) /\ L \in Nat /\ DOMAIN q = 1 .. L /\ DOMAIN r = 1 .. L + 1
      /\ \A j \in 1 .. L : r[j] = q[j]
      /\ r[L + 1] = x
  BY AppendProperties
<1> HIDE DEF r, L
<1>2. \A j \in DOMAIN r : j = L + 1 \/ j \in DOMAIN q
  BY <1>1
<1>3. \A j \in DOMAIN q : j \in DOMAIN r /\ r[j] = q[j] /\ j # L + 1
  BY <1>1
<1>4. L + 1 \in DOMAIN r
  BY <1>1
<1>5. Range(r) = Range(q) \cup {x}
  <2>1. ASSUME NEW j \in DOMAIN r PROVE r[j] \in Range(q) \cup {x}
    BY <1>1, <1>2, <1>3 DEF Range
  <2>2. ASSUME NEW j \in DOMAIN q PROVE q[j] \in Range(r)
    BY <1>3 DEF Range
  <2>3. x \in Range(r)
    BY <1>1, <1>4 DEF Range
  <2> QED BY <2>1, <2>2, <2>3 DEF Range
<1>6. ASSUME NEW P, AtMostOne(q, P), x.type \notin P \/ \A m \in Range(q) : m.type \notin P
      PROVE  AtMostOne(r, P)
  <2> SUFFICES ASSUME NEW j \in DOMAIN r, NEW k \in DOMAIN r, r[j].type \in P, r[k].type \in P
               PROVE  j = k
    BY DEF AtMostOne
  <2>1. \A y \in DOMAIN q : q[y] \in Range(q)
    BY DEF Range
  <2> QED BY <1>1, <1>2, <1>3, <1>6, <2>1 DEF AtMostOne
<1>7. \A P : AtMostOne(q, P) /\ (x.type \notin P \/ \A m \in Range(q) : m.type \notin P) => AtMostOne(r, P)
  BY <1>6
<1>8. r \in Seq(S)
  BY <1>1
<1> QED BY <1>5, <1>7, <1>8 DEF r

\* Taking the first message of a queue.
LEMMA Taking ==
  ASSUME NEW S, NEW q \in Seq(S), q # <<>>
  PROVE  /\ 1 \in DOMAIN q /\ Head(q) = q[1]
         /\ Tail(q) \in Seq(S)
         /\ Head(q) \in Range(q)
         /\ Range(q) = Range(Tail(q)) \cup {Head(q)}
         /\ \A P : AtMostOne(q, P) => /\ AtMostOne(Tail(q), P)
                                      /\ Head(q).type \in P => \A m \in Range(Tail(q)) : m.type \notin P
<1> DEFINE r == Tail(q)
           L == Len(q)
<1>1. /\ r \in Seq(S) /\ L \in Nat /\ L >= 1 /\ DOMAIN q = 1 .. L /\ DOMAIN r = 1 .. L - 1
      /\ \A j \in 1 .. L - 1 : r[j] = q[j + 1]
      /\ Head(q) = q[1]
  BY HeadTailProperties
<1> HIDE DEF r, L
<1>2. \A j \in DOMAIN r : j + 1 \in DOMAIN q /\ j + 1 # 1 /\ r[j] = q[j + 1]
  BY <1>1
<1>3. \A k \in DOMAIN q : k = 1 \/ (k - 1 \in DOMAIN r /\ r[k - 1] = q[k])
  BY <1>1
<1>4. 1 \in DOMAIN q
  BY <1>1
<1>5. Range(r) \subseteq Range(q) /\ Head(q) \in Range(q)
  BY <1>1, <1>2, <1>4 DEF Range
<1>6. Range(q) = Range(r) \cup {Head(q)}
  <2>1. ASSUME NEW k \in DOMAIN q PROVE q[k] \in Range(r) \cup {Head(q)}
    <3>1. CASE k = 1
      BY <1>1, <3>1
    <3>2. CASE k # 1
      BY <1>3, <3>2 DEF Range
    <3> QED BY <3>1, <3>2
  <2> QED BY <1>5, <2>1 DEF Range
<1>7. ASSUME NEW P, AtMostOne(q, P)
      PROVE  AtMostOne(r, P) /\ (Head(q).type \in P => \A m \in Range(r) : m.type \notin P)
  <2>1. AtMostOne(r, P)
    <3> SUFFICES ASSUME NEW j \in DOMAIN r, NEW k \in DOMAIN r, r[j].type \in P, r[k].type \in P
                 PROVE  j = k
      BY DEF AtMostOne
    <3>1. j + 1 = k + 1
      BY <1>2, <1>7 DEF AtMostOne
    <3> QED BY <1>1, <3>1
  <2>2. Head(q).type \in P => \A m \in Range(r) : m.type \notin P
    <3> SUFFICES ASSUME Head(q).type \in P, NEW j \in DOMAIN r, r[j].type \in P PROVE FALSE
      BY DEF Range
    <3> QED BY <1>1, <1>2, <1>4, <1>7 DEF AtMostOne
  <2> QED BY <2>1, <2>2
<1> QED BY <1>1, <1>4, <1>5, <1>6, <1>7 DEF r

\* A set of no or one message as a sequence.
LEMMA NoMessage == SetToSeq({}) = <<>>
<1>1. Cardinality({}) = 0
  BY FS_EmptySet
<1>2. <<>> \in [1 .. 0 -> {}] /\ IsInjective(<<>>)
  BY DEF IsInjective
<1>3. SetToSeq({}) \in [1 .. 0 -> {}]
  BY <1>1, <1>2 DEF SetToSeq
<1> QED BY <1>3

LEMMA OneMessage ==
  ASSUME NEW x
  PROVE  SetToSeq({x}) = <<x>>
<1>1. Cardinality({x}) = 1
  BY FS_Singleton
<1>2. <<x>> \in [1 .. 1 -> {x}] /\ IsInjective(<<x>>)
  BY DEF IsInjective
<1>3. SetToSeq({x}) \in [1 .. 1 -> {x}]
  BY <1>1, <1>2 DEF SetToSeq
<1> QED BY <1>3

\* What SendDown does when the directory is silent ...
LEMMA SendNothing ==
  ASSUME down \in [Node -> Seq(Msg)], SendDown({})
  PROVE  down' = down
<1>1. \A n \in Node : {WithFresh(m, mem) : m \in {x \in {} : Dst(x) = n}} = {}
  OBVIOUS
<1>2. ASSUME NEW n \in Node PROVE down[n] \o <<>> = down[n]
  BY ConcatEmptySeq
<1>3. down' = [n \in Node |-> down[n]]
  BY <1>1, <1>2, NoMessage DEF SendDown
<1> QED BY <1>3

\* ... and when it sends one message.
LEMMA SendOne ==
  ASSUME down \in [Node -> Seq(Msg)], mem \in BOOLEAN, NEW x, WithFresh(x, mem) \in Msg,
         Dst(x) \in Node, SendDown({x})
  PROVE  down' = [down EXCEPT ![Dst(x)] = Append(@, WithFresh(x, mem))]
<1> DEFINE w == WithFresh(x, mem)
           out(n) == {WithFresh(m, mem) : m \in {y \in {x} : Dst(y) = n}}
<1>1. \A n \in Node : out(n) = IF Dst(x) = n THEN {w} ELSE {}
  OBVIOUS
<1>2. down' = [n \in Node |-> down[n] \o SetToSeq(out(n))]
  BY DEF SendDown
<1> HIDE DEF w, out
<1>3. ASSUME NEW n \in Node
      PROVE  down[n] \o SetToSeq(out(n)) = IF Dst(x) = n THEN Append(down[n], w) ELSE down[n]
  <2>1. CASE Dst(x) = n
    <3>1. Append(down[n], w) = down[n] \o <<w>>
      BY AppendIsConcat DEF w
    <3> QED BY <1>1, <2>1, <3>1, OneMessage
  <2>2. CASE Dst(x) # n
    <3>1. down[n] \o <<>> = down[n]
      BY ConcatEmptySeq
    <3> QED BY <1>1, <2>2, <3>1, NoMessage
  <2> QED BY <2>1, <2>2
<1>4. down' = [n \in Node |-> IF Dst(x) = n THEN Append(down[n], w) ELSE down[n]]
  BY <1>2, <1>3
<1> QED BY <1>4 DEF w

------------------------------------------------------------------------------
(* The inductive invariant, first part: what is on the network *)

ReadOrder == "DIR_2_AGENT_READ_MISS_DIRTY"
WriteOrder == "DIR_2_AGENT_WRITE_MISS_DIRTY"

Types(q) == {m.type : m \in Range(q)}

\* The queues of node n to and from the directory hold its own messages.
UpFor(n, q) == \A m \in Range(q) : \/ m.type \in Request /\ m.req = n
                                   \/ m.type \in Ack /\ m.agent = n

DownFor(n, q) == \A m \in Range(q) : \/ m.type \in ToApp /\ m.req = n
                                     \/ m.type \in ToAgent /\ m.agent = n

\* Every message is in a queue of the node that it is from or for.
Addressed(n) ==
  /\ UpFor(n, up[n])
  /\ DownFor(n, down[n])
  /\ Types(peer[n]) \subseteq PeerAck
  /\ Types(appQ[n]) \subseteq ToApp \cup PeerAck
  /\ \A k \in SysThread : Types(sysQ[n][k]) \subseteq ToAgent

\* At most one order of the directory, on its way down in d, or its answer, on
\* its way up in u.
AtMostOneOrder(u, d) ==
  /\ AtMostOne(u, Ack)
  /\ AtMostOne(d, ToAgent)
  /\ Types(u) \cap Ack = {} \/ Types(d) \cap ToAgent = {}

OneOrder(n) == AtMostOneOrder(up[n], down[n])

NetInv ==
  /\ TypeOK
  /\ \A n \in Node : Addressed(n) /\ OneOrder(n)
  /\ EntryInv(entry, copy, Owed)

------------------------------------------------------------------------------
(* Types *)

\* The fields of a message.
LEMMA MsgIs ==
  ASSUME NEW t \in MsgType, NEW r \in Node, NEW a \in Node, NEW f \in BOOLEAN
  PROVE  /\ M(t, r, a, f) \in Msg
         /\ M(t, r, a, f).type = t /\ M(t, r, a, f).req = r /\ M(t, r, a, f).agent = a
BY DEF M, WithFresh, Msg

LineTypeOK ==
  /\ line \in [Node -> [fl : BOOLEAN, st : LineStatus]]
  /\ shad \in [Node -> [fl : BOOLEAN, st : ShadStatus]]
  /\ buf \in [Node -> BOOLEAN] /\ sbuf \in [Node -> BOOLEAN] /\ wlock \in [Node -> BOOLEAN]

ThreadTypeOK ==
  /\ pc \in [Node -> ThreadPc]
  /\ op \in [Node -> {"none", "read", "write", "readMiss", "writeMiss", "writeShared"}]
  /\ got \in [Node -> SUBSET MsgType]
  /\ evType \in [Node -> {"none", "EVICT_SHARED", "EVICT_DIRTY"}]

QueueTypeOK ==
  /\ up \in [Node -> Seq(Msg)] /\ down \in [Node -> Seq(Msg)] /\ peer \in [Node -> Seq(Msg)]
  /\ appQ \in [Node -> Seq(Msg)] /\ sysQ \in [Node -> [SysThread -> Seq(Msg)]]

AgentTypeOK ==
  agent \in [Node -> [SysThread -> [type : ToAgent \cup {"none"}, at : {"none", "line", "shad", "assert"}]]]

\* The parts of TypeOK.
LEMMA TypeParts ==
  TypeOK <=> /\ entry \in Entry /\ copy \in Copy /\ mem \in BOOLEAN
             /\ QueueTypeOK /\ AgentTypeOK /\ LineTypeOK /\ ThreadTypeOK
BY DEF TypeOK, QueueTypeOK, AgentTypeOK, LineTypeOK, ThreadTypeOK

\* The steps of the application thread that use no queue.
LocalStep(n) ==
  \/ \E o \in {"read", "write"} : Begin(n, o)
  \/ NewLine(n) \/ Hit(n) \/ Spin(n) \/ Settle(n)
  \/ EvictLine(n) \/ EvictMark(n) \/ EvictUndo(n) \/ EvictSpin(n)

LEMMA LocalType ==
  ASSUME TypeOK, NEW n \in Node, LocalStep(n)
  PROVE  /\ LineTypeOK' /\ ThreadTypeOK'
         /\ UNCHANGED <<entry, copy, mem, up, down, peer, appQ, sysQ, agent>>
<1> USE DEF TypeOK, LineTypeOK, ThreadTypeOK, LineStatus, ShadStatus, ThreadPc,
            Goto, SetLine, Tag, dirVars, netVars, hostQ, lineVars, threadVars
<1>1. ASSUME NEW o \in {"read", "write"}, Begin(n, o) PROVE LineTypeOK' /\ ThreadTypeOK' /\ UNCHANGED <<entry, copy, mem, up, down, peer, appQ, sysQ, agent>>
  BY <1>1 DEF Begin
<1>2. CASE NewLine(n)
  BY <1>2 DEF NewLine
<1>3. CASE Hit(n)
  BY <1>3 DEF Hit
<1>4. CASE Spin(n)
  BY <1>4 DEF Spin
<1>5. CASE Settle(n)
  BY <1>5 DEF Settle, Retry
<1>6. CASE EvictLine(n)
  <2>0. line[n].st \in {"INVALID", "SHARED", "MODIFIED"} /\ UNCHANGED <<entry, copy, mem, up, down, peer, appQ, sysQ, agent>>
    BY <1>6 DEF EvictLine
  <2>1. CASE line[n].st = "INVALID"
    BY <1>6, <2>1 DEF EvictLine
  <2>2. CASE line[n].st # "INVALID"
    <3>1. shad' = [shad EXCEPT ![n] = Tag(FALSE, line[n].st)] /\ line' = [line EXCEPT ![n] = Tag(FALSE, "NONE")]
          /\ Tag(FALSE, line[n].st) \in [fl : BOOLEAN, st : ShadStatus]
      BY <1>6, <2>0, <2>2 DEF EvictLine
    <3>2. sbuf' = [sbuf EXCEPT ![n] = buf[n]] /\ buf' = [buf EXCEPT ![n] = FALSE] /\ wlock' = wlock
          /\ pc' = [pc EXCEPT ![n] = "evStart"] /\ UNCHANGED <<op, got, evType>>
      BY <1>6, <2>2 DEF EvictLine
    <3>3. LineTypeOK'
      <4> HIDE DEF Tag
      <4>1. Tag(FALSE, "NONE") \in [fl : BOOLEAN, st : LineStatus]
        BY DEF Tag
      <4> QED BY <3>1, <3>2, <4>1
    <3>4. ThreadTypeOK'
      BY <3>2
    <3> QED BY <2>0, <3>3, <3>4
  <2> QED BY <2>0, <2>1, <2>2
<1>7. CASE EvictMark(n)
  <2>0. UNCHANGED <<entry, copy, mem, up, down, peer, appQ, sysQ, agent>> /\ UNCHANGED <<line, buf, op, got>>
    BY <1>7 DEF EvictMark
  <2>1. CASE shad[n].st = "INVALID"
    <3>1. FreeShadow(n)
      BY <1>7, <2>1 DEF EvictMark
    <3> QED BY <2>0, <3>1 DEF FreeShadow
  <2>2. CASE shad[n].st # "INVALID"
    <3>1. shad' = [shad EXCEPT ![n].st = "TO_PRESERVED"] /\ UNCHANGED <<sbuf, wlock>>
      BY <1>7, <2>2 DEF EvictMark
    <3>2. PICK v \in {"EVICT_SHARED", "EVICT_DIRTY"} : evType' = [evType EXCEPT ![n] = v]
      BY <1>7, <2>2 DEF EvictMark
    <3>3. pc' = [pc EXCEPT ![n] = "evLock"]
      BY <1>7, <2>2 DEF EvictMark
    <3>4. LineTypeOK'
      <4>0. shad \in [Node -> [fl : BOOLEAN, st : ShadStatus]]
        OBVIOUS
      <4>1. [shad[n] EXCEPT !.st = "TO_PRESERVED"] \in [fl : BOOLEAN, st : ShadStatus]
        BY ONLY <4>0, n \in Node DEF ShadStatus
      <4>2. shad' = [shad EXCEPT ![n] = [shad[n] EXCEPT !.st = "TO_PRESERVED"]]
        BY <3>1
      <4>3. shad' \in [Node -> [fl : BOOLEAN, st : ShadStatus]]
        BY ONLY <4>0, <4>1, <4>2, n \in Node
      <4> QED BY <2>0, <3>1, <4>3
    <3>5. ThreadTypeOK'
      BY <2>0, <3>2, <3>3
    <3> QED BY <2>0, <3>4, <3>5
  <2> QED BY <2>1, <2>2
<1>8. CASE EvictUndo(n)
  <2>1. PICK s \in {"INVALID", "SHARED", "MODIFIED"} : shad' = [shad EXCEPT ![n] = Tag(FALSE, s)]
    BY <1>8 DEF EvictUndo
  <2> QED BY <1>8, <2>1 DEF EvictUndo
<1>9. CASE EvictSpin(n)
  BY <1>9 DEF EvictSpin, FreeShadow
<1> QED BY <1>1, <1>2, <1>3, <1>4, <1>5, <1>6, <1>7, <1>8, <1>9 DEF LocalStep

\* The steps that send a request.
LEMMA SendType ==
  ASSUME TypeOK, NEW n \in Node, StartMiss(n) \/ EvictSend(n)
  PROVE  /\ LineTypeOK' /\ ThreadTypeOK'
         /\ UNCHANGED <<entry, copy, mem, down, peer, appQ, sysQ, agent>>
         /\ \E t \in Request, f \in BOOLEAN : up' = [up EXCEPT ![n] = Append(@, M(t, n, n, f))]
<1> USE DEF LineTypeOK, ThreadTypeOK, LineStatus, ShadStatus, ThreadPc,
            Goto, SetLine, Tag, Send, Request, dirVars, netVars, hostQ, lineVars, threadVars
<1>1. LineTypeOK /\ ThreadTypeOK /\ up \in [Node -> Seq(Msg)]
  BY DEF TypeOK
<1>2. CASE StartMiss(n)
  <2>1. UNCHANGED <<entry, copy, mem, down, peer, appQ, sysQ, agent>> /\ UNCHANGED <<buf, shad, sbuf, wlock, evType>>
        /\ got' = [got EXCEPT ![n] = {}] /\ pc' = [pc EXCEPT ![n] = "wait"]
    BY <1>2 DEF StartMiss
  <2>2. \E s \in {"TO_SHARED", "TO_MODIFIED"}, t \in {"R_READ_MISS", "R_WRITE_SHARED", "R_WRITE_MISS"},
           o \in {"readMiss", "writeShared", "writeMiss"} :
             /\ line' = [line EXCEPT ![n] = Tag(FALSE, s)]
             /\ Send(n, t, FALSE)
             /\ op' = [op EXCEPT ![n] = o]
    BY <1>2 DEF StartMiss
  <2>3. LineTypeOK'
    BY <1>1, <2>1, <2>2
  <2>4. ThreadTypeOK'
    BY <1>1, <2>1, <2>2
  <2>5. \E t \in Request : up' = [up EXCEPT ![n] = Append(@, M(t, n, n, FALSE))]
    BY <2>2
  <2> QED BY <2>1, <2>3, <2>4, <2>5
<1>3. CASE EvictSend(n)
  <2>1. /\ UNCHANGED <<entry, copy, mem, down, peer, appQ, sysQ, agent>> /\ UNCHANGED <<line, buf, shad, sbuf, op, got, evType>>
        /\ wlock' = [wlock EXCEPT ![n] = TRUE] /\ pc' = [pc EXCEPT ![n] = "evWait"]
    BY <1>3 DEF EvictSend
  <2>2. \E t \in {"R_EVICT_SHARED", "R_EVICT_DIRTY"} : Send(n, t, sbuf[n])
    BY <1>3 DEF EvictSend
  <2>3. \E t \in Request : up' = [up EXCEPT ![n] = Append(@, M(t, n, n, sbuf[n]))]
    BY <2>2
  <2>4. LineTypeOK' /\ ThreadTypeOK' /\ sbuf[n] \in BOOLEAN
    BY <1>1, <2>1
  <2> QED BY <2>1, <2>3, <2>4
<1> QED BY <1>2, <1>3

\* A queue of old messages differs from the queue in the freshness of its data only.
StaleQueue(q) == [i \in DOMAIN q |-> [q[i] EXCEPT !.fresh = FALSE]]

LEMMA StaleIs ==
  ASSUME NEW q \in Seq(Msg)
  PROVE  /\ StaleQueue(q) \in Seq(Msg)
         /\ DOMAIN StaleQueue(q) = DOMAIN q
         /\ \A i \in DOMAIN q : /\ StaleQueue(q)[i].type = q[i].type
                                /\ StaleQueue(q)[i].req = q[i].req
                                /\ StaleQueue(q)[i].agent = q[i].agent
<1>1. Len(q) \in Nat /\ DOMAIN q = 1 .. Len(q) /\ \A i \in 1 .. Len(q) : q[i] \in Msg
  OBVIOUS
<1>2. \A x \in Msg : /\ [x EXCEPT !.fresh = FALSE] \in Msg
                     /\ [x EXCEPT !.fresh = FALSE].type = x.type
                     /\ [x EXCEPT !.fresh = FALSE].req = x.req
                     /\ [x EXCEPT !.fresh = FALSE].agent = x.agent
  BY DEF Msg
<1>3. StaleQueue(q) = [i \in 1 .. Len(q) |-> [q[i] EXCEPT !.fresh = FALSE]]
  BY <1>1 DEF StaleQueue
<1>4. \A i \in 1 .. Len(q) : StaleQueue(q)[i] = [q[i] EXCEPT !.fresh = FALSE]
  BY <1>3
<1>5. StaleQueue(q) \in [1 .. Len(q) -> Msg]
  BY <1>1, <1>2, <1>3
<1>6. StaleQueue(q) \in Seq(Msg)
  BY <1>1, <1>5
<1>7. DOMAIN StaleQueue(q) = 1 .. Len(q)
  BY <1>3
<1> QED BY <1>1, <1>2, <1>4, <1>6, <1>7

\* A load or a store.
LEMMA AccessType ==
  ASSUME TypeOK, NEW n \in Node, Access(n)
  PROVE  /\ LineTypeOK' /\ ThreadTypeOK' /\ mem' \in BOOLEAN
         /\ UNCHANGED <<entry, copy, appQ, sysQ, agent, line, shad, got, evType>>
         /\ \/ UNCHANGED <<up, down, peer>>
            \/ /\ up' = [m \in Node |-> StaleQueue(up[m])]
               /\ down' = [m \in Node |-> StaleQueue(down[m])]
               /\ peer' = [m \in Node |-> StaleQueue(peer[m])]
         /\ pc[n] = "access" /\ pc' = [pc EXCEPT ![n] = "idle"] /\ op' = [op EXCEPT ![n] = "none"]
<1>1. LineTypeOK /\ ThreadTypeOK /\ mem \in BOOLEAN
  BY DEF TypeOK, LineTypeOK, ThreadTypeOK
<1>2. /\ pc[n] = "access" /\ pc' = [pc EXCEPT ![n] = "idle"] /\ op' = [op EXCEPT ![n] = "none"]
      /\ UNCHANGED <<entry, copy, appQ, sysQ, agent, line, shad, wlock, got, evType>>
  BY DEF Access, Goto, hostQ
<1>3. ThreadTypeOK'
  BY <1>1, <1>2 DEF ThreadTypeOK, ThreadPc
<1>4. CASE op[n] = "write"
  <2>1. /\ buf' = [m \in Node |-> m = n] /\ sbuf' = [m \in Node |-> FALSE] /\ mem' = FALSE
        /\ up' = Stale(up) /\ down' = Stale(down) /\ peer' = Stale(peer)
    BY <1>4 DEF Access
  <2>2. LineTypeOK'
    BY <1>1, <1>2, <2>1 DEF LineTypeOK
  <2> QED BY <1>2, <1>3, <2>1, <2>2 DEF Stale, StaleQueue
<1>5. CASE op[n] # "write"
  <2>1. UNCHANGED <<buf, sbuf, mem, up, down, peer>>
    BY <1>5 DEF Access, netVars
  <2> QED BY <1>1, <1>2, <1>3, <2>1 DEF LineTypeOK
<1> QED BY <1>4, <1>5

\* The steps that take a reply.
LEMMA ReplyType ==
  ASSUME TypeOK, NEW n \in Node, Receive(n) \/ EvictReply(n)
  PROVE  /\ LineTypeOK' /\ ThreadTypeOK'
         /\ UNCHANGED <<entry, copy, mem, up, down, peer, sysQ, agent>>
         /\ appQ[n] # <<>>
         /\ appQ' = [appQ EXCEPT ![n] = Tail(@)]
<1> USE DEF LineTypeOK, ThreadTypeOK, LineStatus, ShadStatus, ThreadPc,
            Goto, Tag, dirVars, netVars, lineVars, threadVars
<1>1. LineTypeOK /\ ThreadTypeOK /\ appQ \in [Node -> Seq(Msg)]
  BY DEF TypeOK
<1>2. CASE Receive(n)
  <2> DEFINE t == Head(appQ[n]).type
             p == AfterReply(op[n], got[n], t)
  <2>1. t \in MsgType
    <3>1. appQ[n] \in Seq(Msg) /\ appQ[n] # <<>>
      BY <1>1, <1>2 DEF Receive
    <3>2. Head(appQ[n]) \in Msg
      BY <3>1, HeadTailProperties
    <3> QED BY <3>2 DEF Msg
  <2>2. p \in ThreadPc
    BY DEF AfterReply
  <2>3. /\ pc' = [pc EXCEPT ![n] = p] /\ got' = [got EXCEPT ![n] = @ \cup {t}] /\ UNCHANGED <<op, evType>>
        /\ UNCHANGED <<entry, copy, mem, up, down, peer, sysQ, agent>>
        /\ UNCHANGED <<line, buf, shad, sbuf, wlock>>
        /\ appQ[n] # <<>> /\ appQ' = [appQ EXCEPT ![n] = Tail(@)]
    BY <1>2 DEF Receive
  <2> HIDE DEF t, p
  <2>4. ThreadTypeOK'
    BY <1>1, <2>1, <2>2, <2>3
  <2> QED BY <1>1, <2>3, <2>4
<1>3. CASE EvictReply(n)
  <2>1. /\ UNCHANGED <<entry, copy, mem, up, down, peer, sysQ, agent>>
        /\ UNCHANGED <<line, buf, op, got>>
        /\ appQ[n] # <<>> /\ appQ' = [appQ EXCEPT ![n] = Tail(@)]
    BY <1>3 DEF EvictReply
  <2>2. \/ FreeShadow(n)
        \/ /\ \E p \in {"evCas", "evSpin", "assert"} : pc' = [pc EXCEPT ![n] = p]
           /\ UNCHANGED <<shad, sbuf, wlock, evType>>
    BY <1>3 DEF EvictReply
  <2>3. CASE FreeShadow(n)
    BY <1>1, <2>1, <2>3 DEF FreeShadow
  <2>4. CASE /\ \E p \in {"evCas", "evSpin", "assert"} : pc' = [pc EXCEPT ![n] = p]
             /\ UNCHANGED <<shad, sbuf, wlock, evType>>
    BY <1>1, <2>1, <2>4
  <2> QED BY <2>2, <2>3, <2>4
<1> QED BY <1>2, <1>3

------------------------------------------------------------------------------
(* Types of the steps of agents and network *)

\* The types of the messages in a queue of messages.
LEMMA HeadType ==
  ASSUME NEW q \in Seq(Msg), q # <<>>
  PROVE  Head(q) \in Msg /\ Head(q).type \in Types(q) /\ Tail(q) \in Seq(Msg)
<1>1. Head(q) \in Range(q) /\ Tail(q) \in Seq(Msg)
  BY Taking
<1>2. Head(q) \in Msg
  BY HeadTailProperties
<1> QED BY <1>1, <1>2 DEF Types

\* A cache agent takes a message from its ring.
LEMMA TakeType ==
  ASSUME NetInv, NEW n \in Node, NEW k \in SysThread, AgentTake(n, k)
  PROVE  /\ AgentTypeOK' /\ sysQ' \in [Node -> [SysThread -> Seq(Msg)]]
         /\ UNCHANGED <<entry, copy, mem, up, down, peer, appQ, line, buf, shad, sbuf, wlock, pc, op, got, evType>>
         /\ sysQ[n][k] # <<>> /\ sysQ' = [sysQ EXCEPT ![n][k] = Tail(@)]
<1> DEFINE t == Head(sysQ[n][k]).type
           z == CASE line[n].st # "NONE" /\ shad[n].st # "PRESERVED" -> [type |-> t, at |-> "assert"]
                  [] line[n].st # "NONE" /\ shad[n].st = "PRESERVED" -> [type |-> t, at |-> "line"]
                  [] line[n].st = "NONE" /\ shad[n].st # "PRESERVED" -> [type |-> t, at |-> "shad"]
                  [] OTHER -> AgentIdle
<1>1. /\ UNCHANGED <<entry, copy, mem, up, down, peer, appQ, line, buf, shad, sbuf, wlock, pc, op, got, evType>>
      /\ sysQ[n][k] # <<>> /\ sysQ' = [sysQ EXCEPT ![n][k] = Tail(@)]
      /\ agent' = [agent EXCEPT ![n][k] = z]
  BY DEF AgentTake, dirVars, netVars, lineVars, threadVars
<1>2. sysQ \in [Node -> [SysThread -> Seq(Msg)]] /\ AgentTypeOK
  BY DEF NetInv, TypeOK, AgentTypeOK
<1>3. sysQ[n][k] \in Seq(Msg) /\ t \in Types(sysQ[n][k]) /\ Tail(sysQ[n][k]) \in Seq(Msg)
  BY <1>1, <1>2, HeadType
<1>4. t \in ToAgent
  BY <1>3 DEF NetInv, Addressed
<1>5. z \in [type : ToAgent \cup {"none"}, at : {"none", "line", "shad", "assert"}]
  <2> HIDE DEF t
  <2> QED BY <1>4 DEF AgentIdle
<1> HIDE DEF z
<1>6. AgentTypeOK'
  BY <1>1, <1>2, <1>5 DEF AgentTypeOK
<1>7. sysQ' \in [Node -> [SysThread -> Seq(Msg)]]
  BY <1>1, <1>2, <1>3
<1> QED BY <1>1, <1>6, <1>7

\* The CAS of an agent leaves a status that the line can have.
LEMMA CasType ==
  ASSUME NEW t, NEW S \in {LineStatus, ShadStatus}, NEW l \in [fl : BOOLEAN, st : S], NEW x \in AgentCas(t, l)
  PROVE  x \in [fl : BOOLEAN, st : S]
<1>1. \/ x = l
      \/ \E s \in {"INVALID", "SHARED", "TO_SHARED"} : x = Tag(FALSE, s)
      \/ x = Tag(TRUE, l.st)
  BY DEF AgentCas
<1>2. {"INVALID", "SHARED", "TO_SHARED"} \subseteq S
  BY DEF LineStatus, ShadStatus
<1>3. \A s \in S : Tag(TRUE, s) \in [fl : BOOLEAN, st : S] /\ Tag(FALSE, s) \in [fl : BOOLEAN, st : S]
  BY DEF Tag
<1>4. l.st \in S
  OBVIOUS
<1> QED BY <1>1, <1>2, <1>3, <1>4

\* A cache agent acts on a line.
LEMMA ApplyType ==
  ASSUME NetInv, NEW n \in Node, NEW k \in SysThread, AgentApply(n, k)
  PROVE  /\ AgentTypeOK' /\ LineTypeOK'
         /\ agent' = [agent EXCEPT ![n][k] = AgentIdle]
         /\ UNCHANGED <<entry, copy, mem, up, down, peer, appQ, sysQ, buf, sbuf, wlock, pc, op, got, evType>>
<1>1. /\ UNCHANGED <<entry, copy, mem, up, down, peer, appQ, sysQ, buf, sbuf, wlock, pc, op, got, evType>>
      /\ agent' = [agent EXCEPT ![n][k] = AgentIdle]
  BY DEF AgentApply, dirVars, netVars, hostQ, threadVars
<1>2. LineTypeOK /\ AgentTypeOK
  BY DEF NetInv, TypeOK, LineTypeOK, AgentTypeOK
<1>3. AgentTypeOK'
  BY <1>1, <1>2 DEF AgentTypeOK, AgentIdle
<1>4. \/ /\ \E l \in AgentCas(agent[n][k].type, line[n]) : line' = [line EXCEPT ![n] = l]
         /\ UNCHANGED shad
      \/ /\ \E l \in AgentCas(agent[n][k].type, shad[n]) : shad' = [shad EXCEPT ![n] = l]
         /\ UNCHANGED line
  BY DEF AgentApply
<1>5. LineTypeOK'
  <2>1. line[n] \in [fl : BOOLEAN, st : LineStatus] /\ shad[n] \in [fl : BOOLEAN, st : ShadStatus]
    BY <1>2 DEF LineTypeOK
  <2>2. CASE UNCHANGED shad /\ \E l \in AgentCas(agent[n][k].type, line[n]) : line' = [line EXCEPT ![n] = l]
    <3>1. PICK l \in [fl : BOOLEAN, st : LineStatus] : line' = [line EXCEPT ![n] = l]
      BY <2>1, <2>2, CasType
    <3> QED BY <1>1, <1>2, <2>2, <3>1 DEF LineTypeOK
  <2>3. CASE UNCHANGED line /\ \E l \in AgentCas(agent[n][k].type, shad[n]) : shad' = [shad EXCEPT ![n] = l]
    <3>1. PICK l \in [fl : BOOLEAN, st : ShadStatus] : shad' = [shad EXCEPT ![n] = l]
      BY <2>1, <2>3, CasType
    <3> QED BY <1>1, <1>2, <2>3, <3>1 DEF LineTypeOK
  <2> QED BY <1>4, <2>2, <2>3
<1> QED BY <1>1, <1>3, <1>5

\* A message reaches the application thread.
LEMMA ToAppType ==
  ASSUME NetInv, NEW n \in Node, FpgaToApp(n)
  PROVE  /\ UNCHANGED <<entry, copy, mem, up, sysQ, agent, line, shad, pc, op, got, evType>>
         /\ LineTypeOK'
         /\ \/ \E i \in DOMAIN down[n] :
                 /\ down[n][i].type \notin ToAgent
                 /\ down' = [down EXCEPT ![n] = RemoveAt(@, i)]
                 /\ appQ' = [appQ EXCEPT ![n] = Append(@, down[n][i])]
                 /\ UNCHANGED peer
            \/ /\ peer[n] # <<>>
               /\ peer' = [peer EXCEPT ![n] = Tail(@)]
               /\ appQ' = [appQ EXCEPT ![n] = Append(@, Head(peer[n]))]
               /\ UNCHANGED down
<1>1. /\ UNCHANGED <<entry, copy, mem, up, sysQ, agent, line, shad, sbuf, wlock, pc, op, got, evType>>
  BY DEF FpgaToApp, dirVars, threadVars
<1>2. LineTypeOK /\ QueueTypeOK
  BY DEF NetInv, TypeOK, LineTypeOK, QueueTypeOK
<1>3. ASSUME NEW m \in Msg, ToAppThread(n, m)
      PROVE  LineTypeOK' /\ appQ' = [appQ EXCEPT ![n] = Append(@, m)]
  <2>1. m.fresh \in BOOLEAN
    BY DEF Msg
  <2> QED BY <1>1, <1>2, <1>3, <2>1 DEF ToAppThread, LineTypeOK
<1>4. CASE \E i \in Deliverable(down[n]) :
             /\ down[n][i].type \notin ToAgent
             /\ down' = [down EXCEPT ![n] = RemoveAt(@, i)]
             /\ ToAppThread(n, down[n][i])
             /\ UNCHANGED peer
  <2>1. PICK i \in DOMAIN down[n] :
          /\ down[n][i].type \notin ToAgent
          /\ down' = [down EXCEPT ![n] = RemoveAt(@, i)]
          /\ ToAppThread(n, down[n][i])
          /\ UNCHANGED peer
    BY <1>4 DEF Deliverable
  <2>2. down[n][i] \in Msg
    BY <1>2 DEF QueueTypeOK
  <2>3. LineTypeOK' /\ appQ' = [appQ EXCEPT ![n] = Append(@, down[n][i])]
    BY <1>3, <2>1, <2>2
  <2> QED BY <1>1, <2>1, <2>3
<1>5. CASE /\ peer[n] # <<>>
           /\ peer' = [peer EXCEPT ![n] = Tail(@)]
           /\ ToAppThread(n, Head(peer[n]))
           /\ UNCHANGED down
  <2>1. Head(peer[n]) \in Msg
    BY <1>2, <1>5, HeadType, SMTT(20) DEF QueueTypeOK
  <2> QED BY <1>1, <1>3, <1>5, <2>1
<1> QED BY <1>4, <1>5 DEF FpgaToApp

\* The messages that the FPGA of an owner or sharer sends on an order m.
PeerOf(t) == CASE t = ReadOrder -> "AGENT_2_APP_READ_MISS_DIRTY_ACKDATA"
               [] t = WriteOrder -> "AGENT_2_APP_WRITE_MISS_DIRTY_ACKDATA"

\* A message reaches a cache agent.
LEMMA ToAgentType ==
  ASSUME NetInv, NEW n \in Node, FpgaToAgent(n)
  PROVE  \E i \in DOMAIN down[n], k \in SysThread, f \in BOOLEAN :
           LET m == down[n][i] IN
           /\ m \in Msg /\ m.type \in ToAgent
           /\ down' = [down EXCEPT ![n] = RemoveAt(@, i)]
           /\ sysQ' = [sysQ EXCEPT ![n][k] = Append(@, m)]
           /\ up' = [up EXCEPT ![n] = Append(@, M(AckOf(m.type), m.req, n, f))]
           /\ peer' = IF m.type \in {ReadOrder, WriteOrder}
                      THEN [peer EXCEPT ![m.req] = Append(@, M(PeerOf(m.type), m.req, n, f))]
                      ELSE peer
           /\ UNCHANGED <<entry, copy, mem, appQ, agent, line, buf, shad, sbuf, wlock, pc, op, got, evType>>
<1>1. LineTypeOK /\ QueueTypeOK
  BY DEF NetInv, TypeOK, LineTypeOK, QueueTypeOK
<1>2. AgentData(n) \in BOOLEAN
  BY <1>1 DEF LineTypeOK, AgentData
<1>3. PICK i \in DOMAIN down[n] :
        LET m == down[n][i] IN
        /\ m.type \in ToAgent
        /\ down' = [down EXCEPT ![n] = RemoveAt(@, i)]
        /\ \E k \in SysThread : sysQ' = [sysQ EXCEPT ![n][k] = Append(@, m)]
        /\ up' = [up EXCEPT ![n] = Append(@, M(AckOf(m.type), m.req, n, AgentData(n)))]
        /\ peer' =
             CASE m.type = "DIR_2_AGENT_READ_MISS_DIRTY" ->
                    [peer EXCEPT ![m.req] = Append(@, M("AGENT_2_APP_READ_MISS_DIRTY_ACKDATA", m.req, n, AgentData(n)))]
               [] m.type = "DIR_2_AGENT_WRITE_MISS_DIRTY" ->
                    [peer EXCEPT ![m.req] = Append(@, M("AGENT_2_APP_WRITE_MISS_DIRTY_ACKDATA", m.req, n, AgentData(n)))]
               [] OTHER -> peer
        /\ UNCHANGED <<entry, copy, mem, appQ, agent, line, buf, shad, sbuf, wlock, pc, op, got, evType>>
  BY DEF FpgaToAgent, Deliverable, dirVars, lineVars, threadVars
<1> DEFINE m == down[n][i]
<1>4. m \in Msg
  BY <1>1 DEF QueueTypeOK
<1>5. peer' = IF m.type \in {ReadOrder, WriteOrder}
              THEN [peer EXCEPT ![m.req] = Append(@, M(PeerOf(m.type), m.req, n, AgentData(n)))]
              ELSE peer
  BY <1>3 DEF PeerOf, ReadOrder, WriteOrder
<1> QED BY <1>2, <1>3, <1>4, <1>5

\* The directory takes a request or an answer.
LEMMA ReceiveType ==
  ASSUME NetInv, NEW n \in Node, DirReceive(n)
  PROVE  \E i \in DOMAIN up[n] :
           LET m == up[n][i]
               res == IF m.type \in Request THEN HandleRequest(entry, m.type, m.req)
                      ELSE HandleAck(entry, m.type, m.req, m.agent)
           IN /\ m \in Msg /\ copy.type = "none"
              /\ up' = [up EXCEPT ![n] = RemoveAt(@, i)]
              /\ entry' = res.entry
              /\ copy' = res.copy
              /\ mem' \in BOOLEAN
              /\ SendDown(res.out)
              /\ UNCHANGED <<peer, appQ, sysQ, agent, line, buf, shad, sbuf, wlock, pc, op, got, evType>>
<1>1. QueueTypeOK /\ mem \in BOOLEAN
  BY DEF NetInv, TypeOK, QueueTypeOK
<1>2. PICK i \in DOMAIN up[n] :
         LET m == up[n][i]
             res == IF m.type \in Request THEN HandleRequest(entry, m.type, m.req)
                    ELSE HandleAck(entry, m.type, m.req, m.agent)
         IN /\ copy.type = "none"
            /\ up' = [up EXCEPT ![n] = RemoveAt(@, i)]
            /\ entry' = res.entry
            /\ copy' = res.copy
            /\ mem' \in HomeMemory(m)
            /\ SendDown(res.out)
            /\ UNCHANGED <<peer, appQ, sysQ, agent, line, buf, shad, sbuf, wlock, pc, op, got, evType>>
  BY DEF DirReceive, Deliverable, DirIdle, hostQ, lineVars, threadVars
<1>3. up[n][i] \in Msg
  BY <1>1 DEF QueueTypeOK
<1>4. HomeMemory(up[n][i]) \subseteq BOOLEAN
  BY <1>1, <1>3 DEF HomeMemory, Msg
<1> QED BY <1>2, <1>3, <1>4

------------------------------------------------------------------------------
(* The answers due *)

Strip(m) == [type |-> m.type, req |-> m.req, agent |-> m.agent]

AnswerTo(m) == [type |-> AckOf(m.type), req |-> m.req, agent |-> m.agent]

\* The messages of a queue whose type is in P.
Sel(q, P) == {m \in Range(q) : m.type \in P}

\* What a node with the queues u to and d from the directory owes.
OwedIn(u, d) == {AnswerTo(m) : m \in Sel(d, ToAgent)} \cup {Strip(m) : m \in Sel(u, Ack)}

\* What is owed is owed by some node.
LEMMA OwedIs ==
  \A x : x \in Owed <=> \E n \in Node : x \in OwedIn(up[n], down[n])
<1>1. \A n : Owing(Range(down[n])) = {AnswerTo(m) : m \in Sel(down[n], ToAgent)}
  BY DEF Owing, Sel, AnswerTo
<1>2. \A x : x \in Owed <=> \/ \E n \in Node : x \in Owing(Range(down[n]))
                            \/ \E n \in Node : \E m \in Range(up[n]) : m.type \in Ack /\ x = Strip(m)
  <2> DEFINE D == UNION {Owing(Range(down[n])) : n \in Node}
             U == UNION {{x \in Range(up[n]) : x.type \in Ack} : n \in Node}
  <2>1. \A x : x \in D <=> \E n \in Node : x \in Owing(Range(down[n]))
    OBVIOUS
  <2>2. \A x : x \in U <=> \E n \in Node : x \in Range(up[n]) /\ x.type \in Ack
    OBVIOUS
  <2> HIDE DEF D, U
  <2>3. Owed = D \cup {Strip(m) : m \in U}
    BY DEF Owed, Strip, D, U
  <2> QED BY <2>1, <2>2, <2>3
<1>3. \A x, n : x \in OwedIn(up[n], down[n]) <=>
                  \/ x \in Owing(Range(down[n]))
                  \/ \E m \in Range(up[n]) : m.type \in Ack /\ x = Strip(m)
  BY <1>1 DEF OwedIn, Sel
<1> QED BY <1>2, <1>3

\* The node that owes an answer is the one it names.
LEMMA OwedAt ==
  ASSUME \A n \in Node : Addressed(n), NEW n \in Node
  PROVE  \A x : x \in OwedIn(up[n], down[n]) <=> x \in Owed /\ x.agent = n
<1>1. ASSUME NEW a \in Node, NEW x \in OwedIn(up[a], down[a])
      PROVE  x.agent = a
  <2>1. CASE \E m \in Sel(down[a], ToAgent) : x = AnswerTo(m)
    <3>1. PICK m \in Range(down[a]) : m.type \in ToAgent /\ x = AnswerTo(m)
      BY <2>1 DEF Sel
    <3>2. m.agent = a
      BY <3>1 DEF Addressed, DownFor, ToApp, ToAgent
    <3> QED BY <3>1, <3>2 DEF AnswerTo
  <2>2. CASE \E m \in Sel(up[a], Ack) : x = Strip(m)
    <3>1. PICK m \in Range(up[a]) : m.type \in Ack /\ x = Strip(m)
      BY <2>2 DEF Sel
    <3>2. m.agent = a
      BY <3>1 DEF Addressed, UpFor, Request, Ack
    <3> QED BY <3>1, <3>2 DEF Strip
  <2> QED BY <2>1, <2>2 DEF OwedIn
<1> QED BY <1>1, OwedIs

\* Selections of a queue that a message joins or leaves.
LEMMA SelAppend ==
  ASSUME NEW q \in Seq(Msg), NEW x \in Msg, NEW P
  PROVE  Sel(Append(q, x), P) = IF x.type \in P THEN Sel(q, P) \cup {x} ELSE Sel(q, P)
<1>1. Range(Append(q, x)) = Range(q) \cup {x}
  BY Appending
<1> QED BY <1>1 DEF Sel

LEMMA SelRemove ==
  ASSUME NEW q \in Seq(Msg), NEW i \in DOMAIN q, NEW P
  PROVE  /\ q[i].type \notin P => Sel(RemoveAt(q, i), P) = Sel(q, P)
         /\ q[i].type \in P /\ AtMostOne(q, P) => Sel(q, P) = {q[i]} /\ Sel(RemoveAt(q, i), P) = {}
<1>1. /\ Range(q) = Range(RemoveAt(q, i)) \cup {q[i]}
      /\ AtMostOne(q, P) /\ q[i].type \in P => \A m \in Range(RemoveAt(q, i)) : m.type \notin P
  BY Removing
<1> QED BY <1>1 DEF Sel

\* A queue without messages of some types.
LEMMA SelEmpty ==
  ASSUME NEW q, NEW P
  PROVE  /\ Types(q) \cap P = {} <=> Sel(q, P) = {}
         /\ Types(q) \cap P = {m.type : m \in Sel(q, P)}
BY DEF Types, Sel

\* A step at which no node's answers change.
LEMMA OwedSame ==
  ASSUME \A n \in Node : OwedIn(up[n], down[n])' = OwedIn(up[n], down[n])
  PROVE  Owed' = Owed
<1>1. (\A x : x \in Owed <=> \E n \in Node : x \in OwedIn(up[n], down[n]))'
  BY OwedIs, PTL
<1> QED BY <1>1, OwedIs

------------------------------------------------------------------------------
(* What the steps do to the queues between a node and the directory *)

\* The kinds of messages are told apart by their types.
LEMMA Kinds ==
  /\ Request \cap Ack = {} /\ ToApp \cap ToAgent = {} /\ ToApp \cap PeerAck = {} /\ ToAgent \cap PeerAck = {}
  /\ \A t \in ToAgent : AckOf(t) \in Ack
BY DEF Request, Ack, ToApp, ToAgent, PeerAck, AckOf

\* The answer that a message of the directory will bring back.
LEMMA OwingIs ==
  ASSUME NEW x
  PROVE  Owing({x}) = IF x.type \in ToAgent THEN {AnswerTo(x)} ELSE {}
<1>1. CASE x.type \in ToAgent
  <2>1. {y \in {x} : y.type \in ToAgent} = {x}
    BY <1>1
  <2> QED BY <1>1, <2>1 DEF Owing, AnswerTo
<1>2. CASE x.type \notin ToAgent
  <2>1. {y \in {x} : y.type \in ToAgent} = {}
    BY <1>2
  <2> QED BY <1>2, <2>1 DEF Owing
<1> QED BY <1>1, <1>2

\* A node that sends a request owes what it owed.
LEMMA Asking ==
  ASSUME NEW n \in Node, NEW u \in Seq(Msg), NEW d \in Seq(Msg), NEW x \in Msg,
         x.type \in Request, x.req = n, UpFor(n, u), AtMostOneOrder(u, d)
  PROVE  /\ UpFor(n, Append(u, x)) /\ AtMostOneOrder(Append(u, x), d)
         /\ OwedIn(Append(u, x), d) = OwedIn(u, d)
<1>1. Range(Append(u, x)) = Range(u) \cup {x} /\ x.type \notin Ack
  BY Appending, Kinds
<1>2. Sel(Append(u, x), Ack) = Sel(u, Ack)
  BY <1>1, SelAppend
<1>3. AtMostOne(Append(u, x), Ack)
  BY <1>1, Appending DEF AtMostOneOrder
<1>4. Types(Append(u, x)) \cap Ack = Types(u) \cap Ack
  BY <1>1 DEF Types
<1> QED BY <1>1, <1>2, <1>3, <1>4 DEF UpFor, AtMostOneOrder, OwedIn

\* A request that the directory takes was not owed ...
LEMMA AskedAway ==
  ASSUME NEW n \in Node, NEW u \in Seq(Msg), NEW d \in Seq(Msg), NEW i \in DOMAIN u,
         u[i].type \in Request, UpFor(n, u), AtMostOneOrder(u, d)
  PROVE  /\ UpFor(n, RemoveAt(u, i)) /\ AtMostOneOrder(RemoveAt(u, i), d)
         /\ OwedIn(RemoveAt(u, i), d) = OwedIn(u, d)
         /\ u[i].req = n
<1>1. /\ Range(u) = Range(RemoveAt(u, i)) \cup {u[i]} /\ u[i].type \notin Ack
      /\ AtMostOne(u, Ack) => AtMostOne(RemoveAt(u, i), Ack)
  BY Removing, Kinds
<1>2. Sel(RemoveAt(u, i), Ack) = Sel(u, Ack)
  BY <1>1, SelRemove
<1>3. Types(RemoveAt(u, i)) \cap Ack = Types(u) \cap Ack
  BY <1>1 DEF Types
<1>4. u[i].req = n
  BY <1>1, Kinds DEF UpFor
<1> QED BY <1>1, <1>2, <1>3, <1>4 DEF UpFor, AtMostOneOrder, OwedIn

\* ... and an answer that it takes was all that the node owed.
LEMMA AnsweredAway ==
  ASSUME NEW n \in Node, NEW u \in Seq(Msg), NEW d \in Seq(Msg), NEW i \in DOMAIN u,
         u[i].type \in Ack, UpFor(n, u), AtMostOneOrder(u, d)
  PROVE  /\ UpFor(n, RemoveAt(u, i)) /\ AtMostOneOrder(RemoveAt(u, i), d)
         /\ OwedIn(RemoveAt(u, i), d) = {} /\ OwedIn(u, d) = {Strip(u[i])}
         /\ u[i].agent = n
<1>1. /\ Range(u) = Range(RemoveAt(u, i)) \cup {u[i]} /\ u[i].type \notin Request
      /\ AtMostOne(u, Ack) => AtMostOne(RemoveAt(u, i), Ack)
  BY Removing, Kinds
<1>2. Sel(u, Ack) = {u[i]} /\ Sel(RemoveAt(u, i), Ack) = {}
  BY SelRemove DEF AtMostOneOrder
<1>3. Types(RemoveAt(u, i)) \subseteq Types(u) /\ u[i].type \in Types(u)
  BY <1>1 DEF Types
<1>4. Types(d) \cap ToAgent = {}
  BY <1>3 DEF AtMostOneOrder
<1>5. Sel(d, ToAgent) = {}
  BY <1>4, SelEmpty
<1>6. u[i].agent = n
  BY <1>1 DEF UpFor
<1> QED BY <1>1, <1>2, <1>3, <1>4, <1>5, <1>6 DEF UpFor, AtMostOneOrder, OwedIn

\* A message of the directory joins a queue.
LEMMA Emitting ==
  ASSUME NEW a \in Node, NEW u \in Seq(Msg), NEW d \in Seq(Msg), NEW x \in OutMsg, NEW w \in Msg,
         w.type = x.type, w.req = x.req, w.agent = x.agent, Dst(x) = a,
         DownFor(a, d), AtMostOneOrder(u, d),
         x.type \in ToAgent => OwedIn(u, d) = {}
  PROVE  /\ DownFor(a, Append(d, w)) /\ AtMostOneOrder(u, Append(d, w))
         /\ OwedIn(u, Append(d, w)) = OwedIn(u, d) \cup Owing({x})
<1>1. Range(Append(d, w)) = Range(d) \cup {w}
  BY Appending
<1>2. x.type \in ToApp \cup ToAgent
  BY DEF OutMsg
<1>3. DownFor(a, Append(d, w))
  BY <1>1, <1>2 DEF DownFor, Dst
<1>4. CASE x.type \in ToAgent
  <2>1. Sel(u, Ack) = {} /\ Sel(d, ToAgent) = {}
    BY <1>4 DEF OwedIn
  <2>2. Types(u) \cap Ack = {} /\ Types(d) \cap ToAgent = {}
    BY <2>1, SelEmpty
  <2>3. \A m \in Range(d) : m.type \notin ToAgent
    BY <2>2 DEF Types
  <2>4. AtMostOne(Append(d, w), ToAgent)
    BY <2>3, Appending DEF AtMostOneOrder
  <2>5. Sel(Append(d, w), ToAgent) = {w}
    BY <1>4, <2>1, SelAppend
  <2>6. AnswerTo(w) = AnswerTo(x)
    BY DEF AnswerTo
  <2>7. OwedIn(u, Append(d, w)) = {AnswerTo(w)}
    BY <2>1, <2>5 DEF OwedIn
  <2> QED BY <1>3, <1>4, <2>2, <2>4, <2>6, <2>7, OwingIs DEF AtMostOneOrder
<1>5. CASE x.type \notin ToAgent
  <2>1. Sel(Append(d, w), ToAgent) = Sel(d, ToAgent)
    BY <1>5, SelAppend
  <2>2. AtMostOne(Append(d, w), ToAgent)
    BY <1>5, Appending DEF AtMostOneOrder
  <2>3. Types(Append(d, w)) \cap ToAgent = Types(d) \cap ToAgent
    BY <1>1, <1>5 DEF Types
  <2> QED BY <1>3, <1>5, <2>1, <2>2, <2>3, OwingIs DEF AtMostOneOrder, OwedIn
<1> QED BY <1>4, <1>5

\* The FPGA of a node passes an order on and answers it: the node owes the same.
LEMMA PassingOn ==
  ASSUME NEW n \in Node, NEW u \in Seq(Msg), NEW d \in Seq(Msg), NEW i \in DOMAIN d, NEW f \in BOOLEAN,
         d[i] \in Msg, d[i].type \in ToAgent, UpFor(n, u), DownFor(n, d), AtMostOneOrder(u, d)
  PROVE  LET x == M(AckOf(d[i].type), d[i].req, n, f) IN
         /\ x \in Msg
         /\ UpFor(n, Append(u, x)) /\ DownFor(n, RemoveAt(d, i))
         /\ AtMostOneOrder(Append(u, x), RemoveAt(d, i))
         /\ OwedIn(Append(u, x), RemoveAt(d, i)) = OwedIn(u, d)
         /\ d[i].agent = n
<1> DEFINE x == M(AckOf(d[i].type), d[i].req, n, f)
<1>1. AckOf(d[i].type) \in Ack /\ AckOf(d[i].type) \in MsgType /\ d[i].req \in Node
  BY Kinds DEF MsgType, Msg
<1>2. x \in Msg /\ x.type = AckOf(d[i].type) /\ x.req = d[i].req /\ x.agent = n
  BY <1>1, MsgIs
<1> HIDE DEF x
<1>3. /\ Range(d) = Range(RemoveAt(d, i)) \cup {d[i]}
      /\ AtMostOne(d, ToAgent) => AtMostOne(RemoveAt(d, i), ToAgent)
  BY Removing
<1>4. d[i].agent = n
  BY <1>3, Kinds DEF DownFor
<1>5. Sel(d, ToAgent) = {d[i]} /\ Sel(RemoveAt(d, i), ToAgent) = {}
  BY SelRemove DEF AtMostOneOrder
<1>6. d[i].type \in Types(d)
  BY <1>3 DEF Types
<1>7. Types(u) \cap Ack = {}
  BY <1>6 DEF AtMostOneOrder
<1>8. Sel(u, Ack) = {}
  BY <1>7, SelEmpty
<1>9. Sel(Append(u, x), Ack) = {x}
  BY <1>1, <1>2, <1>8, SelAppend
<1>10. Strip(x) = AnswerTo(d[i])
  BY <1>2, <1>4 DEF Strip, AnswerTo
<1>11. OwedIn(Append(u, x), RemoveAt(d, i)) = {Strip(x)} /\ OwedIn(u, d) = {AnswerTo(d[i])}
  BY <1>5, <1>8, <1>9 DEF OwedIn
<1>12. Range(Append(u, x)) = Range(u) \cup {x}
  BY <1>2, Appending
<1>13. UpFor(n, Append(u, x)) /\ DownFor(n, RemoveAt(d, i))
  BY <1>1, <1>2, <1>3, <1>12 DEF UpFor, DownFor
<1>14. AtMostOne(Append(u, x), Ack)
  <2>1. \A m \in Range(u) : m.type \notin Ack
    BY <1>7 DEF Types
  <2> QED BY <1>2, <2>1, Appending DEF AtMostOneOrder
<1>15. Types(RemoveAt(d, i)) \cap ToAgent = {}
  BY <1>5, SelEmpty
<1>16. AtMostOneOrder(Append(u, x), RemoveAt(d, i))
  BY <1>3, <1>14, <1>15 DEF AtMostOneOrder
<1> QED BY <1>2, <1>4, <1>10, <1>11, <1>13, <1>16 DEF x

\* A message for the application thread leaves the queue.
LEMMA Delivering ==
  ASSUME NEW n \in Node, NEW u \in Seq(Msg), NEW d \in Seq(Msg), NEW i \in DOMAIN d,
         d[i].type \notin ToAgent, DownFor(n, d), AtMostOneOrder(u, d)
  PROVE  /\ DownFor(n, RemoveAt(d, i)) /\ AtMostOneOrder(u, RemoveAt(d, i))
         /\ OwedIn(u, RemoveAt(d, i)) = OwedIn(u, d)
         /\ d[i].type \in ToApp /\ d[i].req = n
<1>1. /\ Range(d) = Range(RemoveAt(d, i)) \cup {d[i]}
      /\ AtMostOne(d, ToAgent) => AtMostOne(RemoveAt(d, i), ToAgent)
  BY Removing
<1>2. Sel(RemoveAt(d, i), ToAgent) = Sel(d, ToAgent)
  BY SelRemove
<1>3. Types(RemoveAt(d, i)) \cap ToAgent = Types(d) \cap ToAgent
  BY <1>1 DEF Types
<1>4. d[i].type \in ToApp /\ d[i].req = n
  BY <1>1 DEF DownFor
<1> QED BY <1>1, <1>2, <1>3, <1>4 DEF DownFor, AtMostOneOrder, OwedIn

\* Data that has become old.
LEMMA Ageing ==
  ASSUME NEW n \in Node, NEW u \in Seq(Msg), NEW d \in Seq(Msg),
         UpFor(n, u), DownFor(n, d), AtMostOneOrder(u, d)
  PROVE  /\ UpFor(n, StaleQueue(u)) /\ DownFor(n, StaleQueue(d))
         /\ AtMostOneOrder(StaleQueue(u), StaleQueue(d))
         /\ OwedIn(StaleQueue(u), StaleQueue(d)) = OwedIn(u, d)
<1> DEFINE same(q) == /\ DOMAIN StaleQueue(q) = DOMAIN q
                      /\ \A i \in DOMAIN q : /\ StaleQueue(q)[i].type = q[i].type
                                             /\ StaleQueue(q)[i].req = q[i].req
                                             /\ StaleQueue(q)[i].agent = q[i].agent
<1>1. same(u) /\ same(d)
  BY StaleIs
<1>2. UpFor(n, StaleQueue(u))
  <2> SUFFICES ASSUME NEW i \in DOMAIN u
               PROVE  LET m == StaleQueue(u)[i] IN
                      (m.type \in Request /\ m.req = n) \/ (m.type \in Ack /\ m.agent = n)
    BY <1>1 DEF UpFor, Range
  <2>1. u[i] \in Range(u)
    BY DEF Range
  <2>2. /\ StaleQueue(u)[i].type = u[i].type /\ StaleQueue(u)[i].req = u[i].req
        /\ StaleQueue(u)[i].agent = u[i].agent
    BY <1>1
  <2>3. (u[i].type \in Request /\ u[i].req = n) \/ (u[i].type \in Ack /\ u[i].agent = n)
    BY <2>1 DEF UpFor
  <2> QED BY <2>2, <2>3
<1>3. DownFor(n, StaleQueue(d))
  <2> SUFFICES ASSUME NEW i \in DOMAIN d
               PROVE  LET m == StaleQueue(d)[i] IN
                      (m.type \in ToApp /\ m.req = n) \/ (m.type \in ToAgent /\ m.agent = n)
    BY <1>1 DEF DownFor, Range
  <2>1. d[i] \in Range(d)
    BY DEF Range
  <2>2. /\ StaleQueue(d)[i].type = d[i].type /\ StaleQueue(d)[i].req = d[i].req
        /\ StaleQueue(d)[i].agent = d[i].agent
    BY <1>1
  <2>3. (d[i].type \in ToApp /\ d[i].req = n) \/ (d[i].type \in ToAgent /\ d[i].agent = n)
    BY <2>1 DEF DownFor
  <2> QED BY <2>2, <2>3
<1>4. ASSUME NEW q, same(q)
      PROVE  /\ Types(StaleQueue(q)) = Types(q)
             /\ \A P : AtMostOne(q, P) => AtMostOne(StaleQueue(q), P)
             /\ \A P : {Strip(m) : m \in Sel(StaleQueue(q), P)} = {Strip(m) : m \in Sel(q, P)}
             /\ \A P : {AnswerTo(m) : m \in Sel(StaleQueue(q), P)} = {AnswerTo(m) : m \in Sel(q, P)}
  <2>1. Types(StaleQueue(q)) = Types(q)
    <3>1. \A t : t \in Types(StaleQueue(q)) <=> \E i \in DOMAIN q : t = StaleQueue(q)[i].type
      BY <1>4 DEF Types, Range
    <3>2. \A t : t \in Types(q) <=> \E i \in DOMAIN q : t = q[i].type
      BY DEF Types, Range
    <3>3. \A i \in DOMAIN q : StaleQueue(q)[i].type = q[i].type
      BY <1>4
    <3>4. \A t : t \in Types(StaleQueue(q)) <=> t \in Types(q)
      BY <3>1, <3>2, <3>3
    <3> QED BY <3>4
  <2>2. \A P : AtMostOne(q, P) => AtMostOne(StaleQueue(q), P)
    BY <1>4 DEF AtMostOne
  <2>3. \A i \in DOMAIN q : /\ Strip(StaleQueue(q)[i]) = Strip(q[i])
                            /\ AnswerTo(StaleQueue(q)[i]) = AnswerTo(q[i])
    BY <1>4 DEF Strip, AnswerTo
  <2>4. ASSUME NEW P
        PROVE  /\ {Strip(m) : m \in Sel(StaleQueue(q), P)} = {Strip(m) : m \in Sel(q, P)}
               /\ {AnswerTo(m) : m \in Sel(StaleQueue(q), P)} = {AnswerTo(m) : m \in Sel(q, P)}
    <3>1. \A m : m \in Sel(StaleQueue(q), P) <=>
                   \E i \in DOMAIN q : m = StaleQueue(q)[i] /\ q[i].type \in P
      BY <1>4 DEF Sel, Range
    <3>2. \A m : m \in Sel(q, P) <=> \E i \in DOMAIN q : m = q[i] /\ q[i].type \in P
      BY DEF Sel, Range
    <3> QED BY <2>3, <3>1, <3>2
  <2> QED BY <2>1, <2>2, <2>4
<1> HIDE DEF same
<1>5. AtMostOneOrder(StaleQueue(u), StaleQueue(d))
  BY <1>1, <1>4 DEF AtMostOneOrder
<1>6. OwedIn(StaleQueue(u), StaleQueue(d)) = OwedIn(u, d)
  BY <1>1, <1>4 DEF OwedIn
<1> QED BY <1>2, <1>3, <1>5, <1>6

------------------------------------------------------------------------------
(* The directory's messages *)

\* At most one message leaves the directory, and an order to a node's agent only
\* if the node owes no answer: on a request ...
LEMMA RequestOut ==
  ASSUME NEW e, NEW c, NEW o, EntryInv(e, c, o), NEW t \in Request, NEW n \in Node
  PROVE  \/ HandleRequest(e, t, n).out = {}
         \/ \E x \in OutMsg : HandleRequest(e, t, n).out = {x} /\ (x.type \in ToAgent => o = {})
<1> DEFINE R == HandleRequest(e, t, n).out
<1>1. \A u \in ToApp : ToReq(u, n) \in OutMsg /\ ToReq(u, n).type \notin ToAgent
  BY Kinds DEF ToReq, OutMsg
<1>2. ASSUME NEW u \in ToApp, R = {ToReq(u, n)}
      PROVE  \E x \in OutMsg : R = {x} /\ (x.type \in ToAgent => o = {})
  BY <1>1, <1>2
<1>3. ASSUME NEW u \in ToAgent, e.state = "S_DIRTY",
             R = {[type |-> u, req |-> n, agent |-> AgentNode(e)]}
      PROVE  \E x \in OutMsg : R = {x} /\ (x.type \in ToAgent => o = {})
  <2>1. o = {} /\ \E a \in Node : e.bitmap = {a}
    BY <1>3 DEF EntryInv, EntryConsistent, StableConsistent
  <2>2. AgentNode(e) \in Node
    BY <2>1, AgentNodeOfOwner
  <2>3. [type |-> u, req |-> n, agent |-> AgentNode(e)] \in OutMsg
    BY <2>2 DEF OutMsg
  <2> QED BY <1>3, <2>1, <2>3
<1>4. \/ R = {}
      \/ \E u \in ToApp : R = {ToReq(u, n)}
      \/ \E u \in ToAgent : e.state = "S_DIRTY" /\ R = {[type |-> u, req |-> n, agent |-> AgentNode(e)]}
  <2> USE DEF Result, Refuse, MCheckFail, BitmapCheckFail, ToApp, ToAgent
  <2>1. CASE t = "R_READ_MISS"
    BY <2>1 DEF HandleRequest, ReadMiss
  <2>2. CASE t = "R_WRITE_MISS"
    BY <2>2 DEF HandleRequest, WriteMiss
  <2>3. CASE t = "R_WRITE_SHARED"
    BY <2>3 DEF HandleRequest, WriteShared
  <2>4. CASE t = "R_EVICT_SHARED"
    BY <2>4 DEF HandleRequest, EvictShared
  <2>5. CASE t = "R_EVICT_DIRTY"
    BY <2>5 DEF HandleRequest, EvictDirty
  <2> QED BY <2>1, <2>2, <2>3, <2>4, <2>5 DEF Request
<1> QED BY <1>2, <1>3, <1>4

\* ... on an answer ...
LEMMA AckOut ==
  ASSUME NEW e \in Entry, NEW t \in Ack, NEW r \in Node, NEW a \in Node
  PROVE  \/ HandleAck(e, t, r, a).out = {}
         \/ \E x \in OutMsg : HandleAck(e, t, r, a).out = {x} /\ x.type \notin ToAgent
<1> DEFINE R == HandleAck(e, t, r, a).out
<1>1. \/ R = {}
      \/ \E u \in ToApp : R = {ToReq(u, r)}
  <2> USE DEF Result, Ignore, ToApp
  <2>1. CASE t = "AGENT_2_DIR_READ_MISS_DIRTY_ACKDATA"
    BY <2>1 DEF HandleAck, ReadMissDirtyAckdata
  <2>2. CASE t = "AGENT_2_DIR_WRITE_MISS_DIRTY_ACK"
    BY <2>2 DEF HandleAck, WriteMissDirtyAck
  <2>3. CASE t = "AGENT_2_DIR_WRITE_MISS_SHARED_ACK"
    BY <2>3 DEF HandleAck, WriteMissSharedAck
  <2>4. CASE t = "AGENT_2_DIR_WRITE_SHARED_NOTONLY_ACK"
    BY <2>4 DEF HandleAck, WriteSharedNotonlyAck
  <2> QED BY <2>1, <2>2, <2>3, <2>4 DEF Ack
<1>2. \A u \in ToApp : ToReq(u, r) \in OutMsg /\ ToReq(u, r).type \notin ToAgent
  BY Kinds DEF ToReq, OutMsg
<1> QED BY <1>1, <1>2

\* ... and in the copy loop, to a node that is still to be told.
LEMMA CopyOutIs ==
  ASSUME NEW c \in Copy
  PROVE  \/ CopyOut(c) = {}
         \/ \E x \in OutMsg : /\ CopyOut(c) = {x}
                              /\ x.type \in ToAgent
                              /\ x.req = c.req
                              /\ x.agent \in ToCopy(c)
<1>1. CASE CopyOut(c) # {}
  <2>1. c.left # {} /\ ~ (c.type = "R_WRITE_SHARED" /\ LastLeft(c) = c.req)
    BY <1>1 DEF CopyOut
  <2>2. LastLeft(c) \in c.left /\ c.left \subseteq Node /\ c.req \in Node
    BY <2>1, LastLeftIn DEF Copy
  <2>3. LastLeft(c) \in ToCopy(c) /\ LastLeft(c) \in Node
    BY <2>1, <2>2 DEF ToCopy
  <2>4. PICK u \in Invalidation : CopyOut(c) = {[type |-> u, req |-> c.req, agent |-> LastLeft(c)]}
    BY <2>1 DEF CopyOut, Invalidation
  <2>5. u \in ToAgent
    BY DEF Invalidation, ToAgent
  <2>6. [type |-> u, req |-> c.req, agent |-> LastLeft(c)] \in OutMsg
    BY <2>2, <2>3, <2>5 DEF OutMsg
  <2> QED BY <2>3, <2>4, <2>5, <2>6
<1> QED BY <1>1

\* The message goes to the queue of the node it is for.
LEMMA Sending ==
  ASSUME down \in [Node -> Seq(Msg)], mem \in BOOLEAN, NEW out, SendDown(out),
         out = {} \/ \E x \in OutMsg : out = {x}
  PROVE  \/ out = {} /\ down' = down
         \/ \E x \in OutMsg, w \in Msg :
              /\ out = {x} /\ Dst(x) \in Node
              /\ w.type = x.type /\ w.req = x.req /\ w.agent = x.agent
              /\ down' = [down EXCEPT ![Dst(x)] = Append(@, w)]
<1>1. CASE out = {}
  BY <1>1, SendNothing
<1>2. ASSUME NEW x \in OutMsg, out = {x}
      PROVE  \E w \in Msg : /\ Dst(x) \in Node
                            /\ w.type = x.type /\ w.req = x.req /\ w.agent = x.agent
                            /\ down' = [down EXCEPT ![Dst(x)] = Append(@, w)]
  <2>1. Dst(x) \in Node
    BY DEF Dst, OutMsg
  <2>2. x.type \in MsgType /\ x.req \in Node /\ x.agent \in Node
    BY DEF OutMsg, MsgType
  <2>3. /\ WithFresh(x, mem) \in Msg
        /\ WithFresh(x, mem).type = x.type /\ WithFresh(x, mem).req = x.req /\ WithFresh(x, mem).agent = x.agent
    BY <2>2 DEF WithFresh, Msg
  <2>4. down' = [down EXCEPT ![Dst(x)] = Append(@, WithFresh(x, mem))]
    BY <1>2, <2>1, <2>3, SendOne
  <2> QED BY <2>1, <2>3, <2>4
<1> QED BY <1>1, <1>2

\* What the network looks like after the directory has sent out, when O was due
\* with the new queues to the directory.
LEMMA SentNet ==
  ASSUME down \in [Node -> Seq(Msg)], up' \in [Node -> Seq(Msg)], mem \in BOOLEAN,
         NEW out, SendDown(out), out = {} \/ \E x \in OutMsg : out = {x},
         \A a \in Node : DownFor(a, down[a]) /\ AtMostOneOrder(up'[a], down[a]),
         \A x \in out : x.type \in ToAgent => OwedIn(up'[x.agent], down[x.agent]) = {},
         NEW O, \A y : y \in O <=> \E a \in Node : y \in OwedIn(up'[a], down[a])
  PROVE  /\ down' \in [Node -> Seq(Msg)]
         /\ \A a \in Node : DownFor(a, down'[a]) /\ AtMostOneOrder(up'[a], down'[a])
         /\ Owed' = O \cup Owing(out)
<1>1. (\A x : x \in Owed <=> \E n \in Node : x \in OwedIn(up[n], down[n]))'
  BY OwedIs, PTL
<1>2. CASE out = {} /\ down' = down
  <2>1. Owing(out) = {}
    BY <1>2, OwingNone
  <2>2. \A y : y \in Owed' <=> y \in O
    BY <1>1, <1>2
  <2> QED BY <1>2, <2>1, <2>2
<1>3. ASSUME NEW x \in OutMsg, NEW w \in Msg,
             out = {x}, Dst(x) \in Node,
             w.type = x.type, w.req = x.req, w.agent = x.agent,
             down' = [down EXCEPT ![Dst(x)] = Append(@, w)]
      PROVE  /\ down' \in [Node -> Seq(Msg)]
             /\ \A a \in Node : DownFor(a, down'[a]) /\ AtMostOneOrder(up'[a], down'[a])
             /\ Owed' = O \cup Owing(out)
  <2> DEFINE b == Dst(x)
  <2>1. b \in Node /\ down[b] \in Seq(Msg) /\ up'[b] \in Seq(Msg)
    BY <1>3
  <2>2. Append(down[b], w) \in Seq(Msg)
    BY <2>1, Appending
  <2>3. down' \in [Node -> Seq(Msg)]
    BY <1>3, <2>2
  <2>4. down'[b] = Append(down[b], w) /\ \A a \in Node : a # b => down'[a] = down[a]
    BY <1>3
  <2>5. x.type \in ToAgent => OwedIn(up'[b], down[b]) = {}
    <3>1. x.type \in ToAgent => b = x.agent
      BY DEF Dst
    <3> QED BY <1>3, <3>1
  <2> HIDE DEF b
  <2>6. /\ DownFor(b, Append(down[b], w)) /\ AtMostOneOrder(up'[b], Append(down[b], w))
        /\ OwedIn(up'[b], Append(down[b], w)) = OwedIn(up'[b], down[b]) \cup Owing({x})
    <3>1. Dst(x) = b /\ DownFor(b, down[b]) /\ AtMostOneOrder(up'[b], down[b])
      BY <2>1 DEF b
    <3>2. PICK u \in Seq(Msg), d \in Seq(Msg) : u = up'[b] /\ d = down[b]
      BY <2>1
    <3>3. DownFor(b, d) /\ AtMostOneOrder(u, d) /\ (x.type \in ToAgent => OwedIn(u, d) = {})
      BY <2>5, <3>1, <3>2
    <3>4. /\ DownFor(b, Append(d, w)) /\ AtMostOneOrder(u, Append(d, w))
          /\ OwedIn(u, Append(d, w)) = OwedIn(u, d) \cup Owing({x})
      BY <1>3, <2>1, <3>1, <3>3, Emitting
    <3> QED BY <3>2, <3>4
  <2>7. \A a \in Node : DownFor(a, down'[a]) /\ AtMostOneOrder(up'[a], down'[a])
    BY <2>4, <2>6
  <2>8. \A y : y \in Owed' <=> y \in O \/ y \in Owing({x})
    <3>1. \A y : y \in Owed' <=> \E a \in Node : y \in OwedIn(up'[a], down'[a])
      BY <1>1
    <3>2. \A a \in Node : a # b => OwedIn(up'[a], down'[a]) = OwedIn(up'[a], down[a])
      BY <2>4
    <3>3. OwedIn(up'[b], down'[b]) = OwedIn(up'[b], down[b]) \cup Owing({x})
      BY <2>4, <2>6
    <3> QED BY <2>1, <3>1, <3>2, <3>3
  <2> QED BY <1>3, <2>3, <2>7, <2>8
<1> QED BY <1>2, <1>3, Sending, ZenonT(60)

------------------------------------------------------------------------------
(* The first part of the invariant is kept by every step, and every step is  *)
(* a step of the directory's specification or leaves what that speaks of     *)
(* alone.                                                                    *)

\* The entry, the registers and the answers due stay as they are.
DirSame == entry' = entry /\ copy' = copy /\ Owed' = Owed

\* A step that leaves the network alone.
LEMMA NetFrame ==
  ASSUME NetInv, TypeOK', UNCHANGED <<entry, copy, up, down, peer, appQ, sysQ>>
  PROVE  NetInv' /\ DirSame
<1>1. Owed' = Owed
  BY DEF Owed
<1>2. ASSUME NEW n \in Node PROVE Addressed(n)' /\ OneOrder(n)'
  BY DEF NetInv, Addressed, OneOrder
<1>3. EntryInv(entry, copy, Owed)'
  BY <1>1 DEF NetInv
<1> QED BY <1>1, <1>2, <1>3 DEF NetInv, DirSame

\* The parts of NetInv that a step must establish when the directory stays as it is.
LEMMA NetParts ==
  ASSUME NetInv, TypeOK', entry' = entry, copy' = copy,
         \A n \in Node : /\ UpFor(n, up'[n]) /\ DownFor(n, down'[n])
                         /\ AtMostOneOrder(up'[n], down'[n])
                         /\ OwedIn(up'[n], down'[n]) = OwedIn(up[n], down[n])
                         /\ Types(peer'[n]) \subseteq PeerAck
                         /\ Types(appQ'[n]) \subseteq ToApp \cup PeerAck
                         /\ \A k \in SysThread : Types(sysQ'[n][k]) \subseteq ToAgent
  PROVE  NetInv' /\ DirSame
<1>1. Owed' = Owed
  BY OwedSame
<1>2. ASSUME NEW n \in Node PROVE Addressed(n)' /\ OneOrder(n)'
  BY DEF Addressed, OneOrder
<1>3. EntryInv(entry, copy, Owed)'
  BY <1>1 DEF NetInv
<1> QED BY <1>1, <1>2, <1>3 DEF NetInv, DirSame

\* What NetInv says of one node.
LEMMA NetAt ==
  ASSUME NetInv, NEW n \in Node
  PROVE  /\ up[n] \in Seq(Msg) /\ down[n] \in Seq(Msg) /\ peer[n] \in Seq(Msg) /\ appQ[n] \in Seq(Msg)
         /\ \A k \in SysThread : sysQ[n][k] \in Seq(Msg) /\ Types(sysQ[n][k]) \subseteq ToAgent
         /\ UpFor(n, up[n]) /\ DownFor(n, down[n]) /\ AtMostOneOrder(up[n], down[n])
         /\ Types(peer[n]) \subseteq PeerAck /\ Types(appQ[n]) \subseteq ToApp \cup PeerAck
BY DEF NetInv, TypeOK, Addressed, OneOrder

LEMMA NetTypes ==
  ASSUME NetInv
  PROVE  /\ TypeOK /\ entry \in Entry /\ copy \in Copy /\ mem \in BOOLEAN
         /\ QueueTypeOK /\ AgentTypeOK /\ LineTypeOK /\ ThreadTypeOK
BY TypeParts DEF NetInv

\* The next state is well typed when its parts are.
LEMMA TypesNext ==
  ASSUME entry' \in Entry, copy' \in Copy, mem' \in BOOLEAN,
         QueueTypeOK', AgentTypeOK', LineTypeOK', ThreadTypeOK'
  PROVE  TypeOK'
<1>1. (TypeOK <=> /\ entry \in Entry /\ copy \in Copy /\ mem \in BOOLEAN
                  /\ QueueTypeOK /\ AgentTypeOK /\ LineTypeOK /\ ThreadTypeOK)'
  BY TypeParts, PTL
<1> QED BY <1>1

LEMMA NetLocal ==
  ASSUME NetInv, NEW n \in Node, LocalStep(n)
  PROVE  NetInv' /\ DirSame
<1>1. /\ LineTypeOK' /\ ThreadTypeOK'
      /\ UNCHANGED <<entry, copy, mem, up, down, peer, appQ, sysQ, agent>>
  BY NetTypes, LocalType
<1>2. QueueTypeOK' /\ AgentTypeOK'
  BY <1>1, NetTypes DEF QueueTypeOK, AgentTypeOK
<1>3. TypeOK'
  BY <1>1, <1>2, NetTypes, TypesNext
<1> QED BY <1>1, <1>3, NetFrame

LEMMA NetApply ==
  ASSUME NetInv, NEW n \in Node, NEW k \in SysThread, AgentApply(n, k)
  PROVE  NetInv' /\ DirSame
<1>1. /\ AgentTypeOK' /\ LineTypeOK'
      /\ UNCHANGED <<entry, copy, mem, up, down, peer, appQ, sysQ, buf, sbuf, wlock, pc, op, got, evType>>
  BY ApplyType
<1>2. QueueTypeOK' /\ ThreadTypeOK'
  BY <1>1, NetTypes DEF QueueTypeOK, ThreadTypeOK
<1>3. TypeOK'
  BY <1>1, <1>2, NetTypes, TypesNext
<1> QED BY <1>1, <1>3, NetFrame

LEMMA NetSend ==
  ASSUME NetInv, NEW n \in Node, StartMiss(n) \/ EvictSend(n)
  PROVE  NetInv' /\ DirSame
<1>1. /\ LineTypeOK' /\ ThreadTypeOK'
      /\ UNCHANGED <<entry, copy, mem, down, peer, appQ, sysQ, agent>>
      /\ \E t \in Request, f \in BOOLEAN : up' = [up EXCEPT ![n] = Append(@, M(t, n, n, f))]
  BY NetTypes, SendType
<1>2. PICK x \in Msg : up' = [up EXCEPT ![n] = Append(@, x)] /\ x.type \in Request /\ x.req = n
  <2>1. PICK t \in Request, f \in BOOLEAN : up' = [up EXCEPT ![n] = Append(@, M(t, n, n, f))]
    BY <1>1
  <2>2. t \in MsgType
    BY DEF MsgType
  <2>3. M(t, n, n, f) \in Msg /\ M(t, n, n, f).type = t /\ M(t, n, n, f).req = n
    BY <2>2, MsgIs
  <2> QED BY <2>1, <2>3
<1>3. /\ UpFor(n, Append(up[n], x)) /\ AtMostOneOrder(Append(up[n], x), down[n])
      /\ OwedIn(Append(up[n], x), down[n]) = OwedIn(up[n], down[n])
      /\ Append(up[n], x) \in Seq(Msg)
  <2>1. up[n] \in Seq(Msg) /\ down[n] \in Seq(Msg) /\ UpFor(n, up[n]) /\ AtMostOneOrder(up[n], down[n])
    BY NetAt
  <2>2. Append(up[n], x) \in Seq(Msg)
    BY <2>1, Appending
  <2> QED BY <1>2, <2>1, <2>2, Asking
<1>4. QueueTypeOK' /\ AgentTypeOK'
  BY <1>1, <1>2, <1>3, NetTypes DEF QueueTypeOK, AgentTypeOK
<1>5. TypeOK'
  BY <1>1, <1>4, NetTypes, TypesNext
<1>6. \A a \in Node : /\ up'[a] = IF a = n THEN Append(up[n], x) ELSE up[a]
                      /\ down'[a] = down[a] /\ peer'[a] = peer[a] /\ appQ'[a] = appQ[a] /\ sysQ'[a] = sysQ[a]
  BY <1>1, <1>2, NetTypes DEF QueueTypeOK
<1> QED BY <1>1, <1>3, <1>5, <1>6, NetAt, NetParts

LEMMA NetAccess ==
  ASSUME NetInv, NEW n \in Node, Access(n)
  PROVE  NetInv' /\ DirSame
<1>1. /\ LineTypeOK' /\ ThreadTypeOK' /\ mem' \in BOOLEAN
      /\ UNCHANGED <<entry, copy, appQ, sysQ, agent>>
      /\ \/ UNCHANGED <<up, down, peer>>
         \/ /\ up' = [m \in Node |-> StaleQueue(up[m])]
            /\ down' = [m \in Node |-> StaleQueue(down[m])]
            /\ peer' = [m \in Node |-> StaleQueue(peer[m])]
  BY NetTypes, AccessType
<1>2. AgentTypeOK'
  BY <1>1, NetTypes DEF AgentTypeOK
<1>3. CASE UNCHANGED <<up, down, peer>>
  <2>1. QueueTypeOK'
    BY <1>1, <1>3, NetTypes DEF QueueTypeOK
  <2>2. TypeOK'
    BY <1>1, <1>2, <2>1, NetTypes, TypesNext
  <2> QED BY <1>1, <1>3, <2>2, NetFrame
<1>4. CASE /\ up' = [m \in Node |-> StaleQueue(up[m])]
           /\ down' = [m \in Node |-> StaleQueue(down[m])]
           /\ peer' = [m \in Node |-> StaleQueue(peer[m])]
  <2>1. \A a \in Node : /\ StaleQueue(up[a]) \in Seq(Msg) /\ StaleQueue(down[a]) \in Seq(Msg)
                        /\ StaleQueue(peer[a]) \in Seq(Msg)
    BY NetAt, StaleIs
  <2>2. QueueTypeOK'
    BY <1>1, <1>4, <2>1, NetTypes DEF QueueTypeOK
  <2>3. TypeOK'
    BY <1>1, <1>2, <2>2, NetTypes, TypesNext
  <2>4. ASSUME NEW a \in Node
        PROVE  /\ UpFor(a, StaleQueue(up[a])) /\ DownFor(a, StaleQueue(down[a]))
               /\ AtMostOneOrder(StaleQueue(up[a]), StaleQueue(down[a]))
               /\ OwedIn(StaleQueue(up[a]), StaleQueue(down[a])) = OwedIn(up[a], down[a])
    BY NetAt, Ageing
  <2>5. ASSUME NEW a \in Node PROVE Types(StaleQueue(peer[a])) \subseteq PeerAck
    <3>1. peer[a] \in Seq(Msg) /\ Types(peer[a]) \subseteq PeerAck
      BY NetAt
    <3>2. DOMAIN StaleQueue(peer[a]) = DOMAIN peer[a]
          /\ \A i \in DOMAIN peer[a] : StaleQueue(peer[a])[i].type = peer[a][i].type
      BY <3>1, StaleIs
    <3>3. \A i \in DOMAIN peer[a] : peer[a][i].type \in PeerAck
      BY <3>1 DEF Types, Range
    <3> QED BY <3>2, <3>3 DEF Types, Range
  <2>6. \A a \in Node : /\ up'[a] = StaleQueue(up[a]) /\ down'[a] = StaleQueue(down[a])
                        /\ peer'[a] = StaleQueue(peer[a]) /\ appQ'[a] = appQ[a] /\ sysQ'[a] = sysQ[a]
    BY <1>1, <1>4
  <2> QED BY <1>1, <2>3, <2>4, <2>5, <2>6, NetAt, NetParts
<1> QED BY <1>1, <1>3, <1>4

LEMMA NetReply ==
  ASSUME NetInv, NEW n \in Node, Receive(n) \/ EvictReply(n)
  PROVE  NetInv' /\ DirSame
<1>1. /\ LineTypeOK' /\ ThreadTypeOK'
      /\ UNCHANGED <<entry, copy, mem, up, down, peer, sysQ, agent>>
      /\ appQ[n] # <<>>
      /\ appQ' = [appQ EXCEPT ![n] = Tail(@)]
  BY NetTypes, ReplyType
<1>2. Tail(appQ[n]) \in Seq(Msg) /\ Types(Tail(appQ[n])) \subseteq Types(appQ[n])
  <2>1. Tail(appQ[n]) \in Seq(Msg) /\ Range(appQ[n]) = Range(Tail(appQ[n])) \cup {Head(appQ[n])}
    BY <1>1, NetAt, Taking
  <2> QED BY <2>1 DEF Types
<1>3. QueueTypeOK' /\ AgentTypeOK'
  BY <1>1, <1>2, NetTypes DEF QueueTypeOK, AgentTypeOK
<1>4. TypeOK'
  BY <1>1, <1>3, NetTypes, TypesNext
<1>5. \A a \in Node : /\ appQ'[a] = IF a = n THEN Tail(appQ[n]) ELSE appQ[a]
                      /\ down'[a] = down[a] /\ peer'[a] = peer[a] /\ up'[a] = up[a] /\ sysQ'[a] = sysQ[a]
  BY <1>1, NetTypes DEF QueueTypeOK
<1> QED BY <1>1, <1>2, <1>4, <1>5, NetAt, NetParts

LEMMA NetTake ==
  ASSUME NetInv, NEW n \in Node, NEW k \in SysThread, AgentTake(n, k)
  PROVE  NetInv' /\ DirSame
<1>1. /\ AgentTypeOK' /\ sysQ' \in [Node -> [SysThread -> Seq(Msg)]]
      /\ UNCHANGED <<entry, copy, mem, up, down, peer, appQ, line, buf, shad, sbuf, wlock, pc, op, got, evType>>
      /\ sysQ[n][k] # <<>> /\ sysQ' = [sysQ EXCEPT ![n][k] = Tail(@)]
  BY TakeType
<1>2. QueueTypeOK' /\ LineTypeOK' /\ ThreadTypeOK'
  BY <1>1, NetTypes DEF QueueTypeOK, LineTypeOK, ThreadTypeOK
<1>3. TypeOK'
  BY <1>1, <1>2, NetTypes, TypesNext
<1>4. Types(Tail(sysQ[n][k])) \subseteq Types(sysQ[n][k])
  <2>1. Range(sysQ[n][k]) = Range(Tail(sysQ[n][k])) \cup {Head(sysQ[n][k])}
    BY <1>1, NetAt, Taking
  <2> QED BY <2>1 DEF Types
<1>5. \A a \in Node : \A j \in SysThread :
        sysQ'[a][j] = IF a = n /\ j = k THEN Tail(sysQ[n][k]) ELSE sysQ[a][j]
  BY <1>1, NetTypes DEF QueueTypeOK
<1>6. \A a \in Node : \A j \in SysThread : Types(sysQ'[a][j]) \subseteq ToAgent
  BY <1>4, <1>5, NetAt
<1> QED BY <1>1, <1>3, <1>6, NetAt, NetParts

LEMMA NetToApp ==
  ASSUME NetInv, NEW n \in Node, FpgaToApp(n)
  PROVE  NetInv' /\ DirSame
<1>1. /\ UNCHANGED <<entry, copy, mem, up, sysQ, agent, pc, op, got, evType>>
      /\ LineTypeOK'
      /\ \/ \E i \in DOMAIN down[n] :
              /\ down[n][i].type \notin ToAgent
              /\ down' = [down EXCEPT ![n] = RemoveAt(@, i)]
              /\ appQ' = [appQ EXCEPT ![n] = Append(@, down[n][i])]
              /\ UNCHANGED peer
         \/ /\ peer[n] # <<>>
            /\ peer' = [peer EXCEPT ![n] = Tail(@)]
            /\ appQ' = [appQ EXCEPT ![n] = Append(@, Head(peer[n]))]
            /\ UNCHANGED down
  BY ToAppType
<1>2. AgentTypeOK' /\ ThreadTypeOK'
  BY <1>1, NetTypes DEF AgentTypeOK, ThreadTypeOK
<1>3. ASSUME NEW x \in Msg, x.type \in ToApp \cup PeerAck
      PROVE  Append(appQ[n], x) \in Seq(Msg) /\ Types(Append(appQ[n], x)) \subseteq ToApp \cup PeerAck
  <2>1. appQ[n] \in Seq(Msg) /\ Types(appQ[n]) \subseteq ToApp \cup PeerAck
    BY NetAt
  <2>2. Append(appQ[n], x) \in Seq(Msg) /\ Range(Append(appQ[n], x)) = Range(appQ[n]) \cup {x}
    BY <2>1, Appending
  <2> QED BY <1>3, <2>1, <2>2 DEF Types
<1>4. ASSUME NEW i \in DOMAIN down[n],
             down[n][i].type \notin ToAgent,
             down' = [down EXCEPT ![n] = RemoveAt(@, i)],
             appQ' = [appQ EXCEPT ![n] = Append(@, down[n][i])],
             UNCHANGED peer
      PROVE  NetInv' /\ DirSame
  <2>1. down[n] \in Seq(Msg) /\ up[n] \in Seq(Msg) /\ DownFor(n, down[n]) /\ AtMostOneOrder(up[n], down[n])
        /\ down[n][i] \in Msg
    BY NetAt
  <2>2. /\ DownFor(n, RemoveAt(down[n], i)) /\ AtMostOneOrder(up[n], RemoveAt(down[n], i))
        /\ OwedIn(up[n], RemoveAt(down[n], i)) = OwedIn(up[n], down[n])
        /\ down[n][i].type \in ToApp
        /\ RemoveAt(down[n], i) \in Seq(Msg)
    BY <1>4, <2>1, Delivering, Removing
  <2>3. /\ Append(appQ[n], down[n][i]) \in Seq(Msg)
        /\ Types(Append(appQ[n], down[n][i])) \subseteq ToApp \cup PeerAck
    BY <1>3, <2>1, <2>2
  <2>4. QueueTypeOK'
    BY <1>1, <1>4, <2>2, <2>3, NetTypes DEF QueueTypeOK
  <2>5. TypeOK'
    BY <1>1, <1>2, <2>4, NetTypes, TypesNext
  <2>6. \A a \in Node : /\ down'[a] = IF a = n THEN RemoveAt(down[n], i) ELSE down[a]
                        /\ appQ'[a] = IF a = n THEN Append(appQ[n], down[n][i]) ELSE appQ[a]
                        /\ peer'[a] = peer[a] /\ up'[a] = up[a] /\ sysQ'[a] = sysQ[a]
    BY <1>1, <1>4, NetTypes DEF QueueTypeOK
  <2> QED BY <1>1, <2>2, <2>3, <2>5, <2>6, NetAt, NetParts
<1>5. CASE /\ peer[n] # <<>>
           /\ peer' = [peer EXCEPT ![n] = Tail(@)]
           /\ appQ' = [appQ EXCEPT ![n] = Append(@, Head(peer[n]))]
           /\ UNCHANGED down
  <2>1. peer[n] \in Seq(Msg) /\ Types(peer[n]) \subseteq PeerAck
    BY NetAt
  <2>2. Head(peer[n]) \in Msg /\ Head(peer[n]).type \in Types(peer[n]) /\ Tail(peer[n]) \in Seq(Msg)
    BY <1>5, <2>1, HeadType
  <2>3. Types(Tail(peer[n])) \subseteq PeerAck
    <3>1. Range(peer[n]) = Range(Tail(peer[n])) \cup {Head(peer[n])}
      BY <1>5, <2>1, Taking
    <3> QED BY <2>1, <3>1 DEF Types
  <2>4. /\ Append(appQ[n], Head(peer[n])) \in Seq(Msg)
        /\ Types(Append(appQ[n], Head(peer[n]))) \subseteq ToApp \cup PeerAck
    BY <1>3, <2>1, <2>2
  <2>5. QueueTypeOK'
    BY <1>1, <1>5, <2>2, <2>4, NetTypes DEF QueueTypeOK
  <2>6. TypeOK'
    BY <1>1, <1>2, <2>5, NetTypes, TypesNext
  <2>7. \A a \in Node : /\ peer'[a] = IF a = n THEN Tail(peer[n]) ELSE peer[a]
                        /\ appQ'[a] = IF a = n THEN Append(appQ[n], Head(peer[n])) ELSE appQ[a]
                        /\ down'[a] = down[a] /\ up'[a] = up[a] /\ sysQ'[a] = sysQ[a]
    BY <1>1, <1>5, NetTypes DEF QueueTypeOK
  <2> QED BY <1>1, <2>3, <2>4, <2>6, <2>7, NetAt, NetParts
<1> QED BY <1>1, <1>4, <1>5

LEMMA NetToAgent ==
  ASSUME NetInv, NEW n \in Node, FpgaToAgent(n)
  PROVE  NetInv' /\ DirSame
<1>1. PICK i \in DOMAIN down[n], k \in SysThread, f \in BOOLEAN :
        LET m == down[n][i] IN
        /\ m \in Msg /\ m.type \in ToAgent
        /\ down' = [down EXCEPT ![n] = RemoveAt(@, i)]
        /\ sysQ' = [sysQ EXCEPT ![n][k] = Append(@, m)]
        /\ up' = [up EXCEPT ![n] = Append(@, M(AckOf(m.type), m.req, n, f))]
        /\ peer' = IF m.type \in {ReadOrder, WriteOrder}
                   THEN [peer EXCEPT ![m.req] = Append(@, M(PeerOf(m.type), m.req, n, f))]
                   ELSE peer
        /\ UNCHANGED <<entry, copy, mem, appQ, agent, line, buf, shad, sbuf, wlock, pc, op, got, evType>>
  BY ToAgentType
<1> DEFINE m == down[n][i]
           x == M(AckOf(m.type), m.req, n, f)
           y == M(PeerOf(m.type), m.req, n, f)
<1>2. /\ x \in Msg
      /\ UpFor(n, Append(up[n], x)) /\ DownFor(n, RemoveAt(down[n], i))
      /\ AtMostOneOrder(Append(up[n], x), RemoveAt(down[n], i))
      /\ OwedIn(Append(up[n], x), RemoveAt(down[n], i)) = OwedIn(up[n], down[n])
  <2>1. /\ up[n] \in Seq(Msg) /\ down[n] \in Seq(Msg) /\ UpFor(n, up[n]) /\ DownFor(n, down[n])
        /\ AtMostOneOrder(up[n], down[n])
    BY NetAt
  <2> QED BY <1>1, <2>1, PassingOn
<1>3. m \in Msg /\ m.type \in ToAgent /\ m.req \in Node
  BY <1>1 DEF Msg
<1>4. m.type \in {ReadOrder, WriteOrder} => y \in Msg /\ y.type \in PeerAck
  <2>1. m.type \in {ReadOrder, WriteOrder} => PeerOf(m.type) \in PeerAck
    BY DEF PeerOf, PeerAck, ReadOrder, WriteOrder
  <2>2. PeerAck \subseteq MsgType
    BY DEF MsgType
  <2> QED BY <1>3, <2>1, <2>2, MsgIs
<1>5. /\ down' = [down EXCEPT ![n] = RemoveAt(@, i)]
      /\ sysQ' = [sysQ EXCEPT ![n][k] = Append(@, m)]
      /\ up' = [up EXCEPT ![n] = Append(@, x)]
      /\ peer' = IF m.type \in {ReadOrder, WriteOrder}
                 THEN [peer EXCEPT ![m.req] = Append(@, y)]
                 ELSE peer
      /\ UNCHANGED <<entry, copy, mem, appQ, agent, line, buf, shad, sbuf, wlock, pc, op, got, evType>>
  BY <1>1
<1> HIDE DEF x, y, m
<1>6. /\ Append(up[n], x) \in Seq(Msg) /\ RemoveAt(down[n], i) \in Seq(Msg)
      /\ Append(sysQ[n][k], m) \in Seq(Msg) /\ Types(Append(sysQ[n][k], m)) \subseteq ToAgent
  <2>1. Append(up[n], x) \in Seq(Msg) /\ RemoveAt(down[n], i) \in Seq(Msg)
    BY <1>2, NetAt, Appending, Removing
  <2>2. sysQ[n][k] \in Seq(Msg) /\ Types(sysQ[n][k]) \subseteq ToAgent
    BY NetAt
  <2>3. Append(sysQ[n][k], m) \in Seq(Msg) /\ Range(Append(sysQ[n][k], m)) = Range(sysQ[n][k]) \cup {m}
    BY <1>3, <2>2, Appending
  <2> QED BY <1>3, <2>1, <2>2, <2>3 DEF Types
<1>7. peer' \in [Node -> Seq(Msg)] /\ \A a \in Node : Types(peer'[a]) \subseteq PeerAck
  <2>1. CASE m.type \in {ReadOrder, WriteOrder}
    <3>1. peer[m.req] \in Seq(Msg) /\ Types(peer[m.req]) \subseteq PeerAck
      BY <1>3, NetAt
    <3>2. /\ Append(peer[m.req], y) \in Seq(Msg)
          /\ Range(Append(peer[m.req], y)) = Range(peer[m.req]) \cup {y}
      BY <1>4, <2>1, <3>1, Appending
    <3>3. Types(Append(peer[m.req], y)) \subseteq PeerAck
      BY <1>4, <2>1, <3>1, <3>2 DEF Types
    <3>4. peer \in [Node -> Seq(Msg)] /\ peer' = [peer EXCEPT ![m.req] = Append(@, y)]
      BY <1>5, <2>1, NetTypes DEF QueueTypeOK
    <3>5. peer' \in [Node -> Seq(Msg)]
      BY <1>3, <3>2, <3>4
    <3>6. \A a \in Node : peer'[a] = IF a = m.req THEN Append(peer[m.req], y) ELSE peer[a]
      BY <3>4
    <3>7. \A a \in Node : Types(peer[a]) \subseteq PeerAck
      BY NetAt
    <3> QED BY <3>3, <3>5, <3>6, <3>7
  <2>2. CASE m.type \notin {ReadOrder, WriteOrder}
    <3>1. peer' = peer
      BY <1>5, <2>2
    <3> QED BY <3>1, NetAt, NetTypes DEF QueueTypeOK
  <2> QED BY <2>1, <2>2
<1>8. QueueTypeOK' /\ AgentTypeOK' /\ LineTypeOK' /\ ThreadTypeOK'
  <2>1. AgentTypeOK' /\ LineTypeOK' /\ ThreadTypeOK'
    BY <1>5, NetTypes DEF AgentTypeOK, LineTypeOK, ThreadTypeOK
  <2>2. QueueTypeOK
    BY NetTypes
  <2>3. up' \in [Node -> Seq(Msg)] /\ down' \in [Node -> Seq(Msg)] /\ sysQ' \in [Node -> [SysThread -> Seq(Msg)]]
    BY <1>5, <1>6, <2>2 DEF QueueTypeOK
  <2>4. QueueTypeOK'
    BY <1>5, <1>7, <2>2, <2>3 DEF QueueTypeOK
  <2> QED BY <2>1, <2>4
<1>9. TypeOK'
  BY <1>5, <1>8, NetTypes, TypesNext
<1>10. \A a \in Node : /\ down'[a] = IF a = n THEN RemoveAt(down[n], i) ELSE down[a]
                       /\ up'[a] = IF a = n THEN Append(up[n], x) ELSE up[a]
                       /\ appQ'[a] = appQ[a]
  BY <1>5, NetTypes DEF QueueTypeOK
<1>11. \A a \in Node : \A j \in SysThread : Types(sysQ'[a][j]) \subseteq ToAgent
  <2>1. \A a \in Node : \A j \in SysThread :
          sysQ'[a][j] = IF a = n /\ j = k THEN Append(sysQ[n][k], m) ELSE sysQ[a][j]
    BY <1>5, NetTypes DEF QueueTypeOK
  <2> QED BY <1>6, <2>1, NetAt
<1> QED BY <1>2, <1>5, <1>7, <1>9, <1>10, <1>11, NetAt, NetParts

\* What is due at a node is part of what is due.
LEMMA OwedOf ==
  ASSUME NetInv, NEW n \in Node
  PROVE  \A y : y \in OwedIn(up[n], down[n]) <=> y \in Owed /\ y.agent = n
<1>1. \A a \in Node : Addressed(a)
  BY DEF NetInv
<1> QED BY <1>1, OwedAt

\* The parts of NetInv after the directory has sent something.
LEMMA NetSent ==
  ASSUME NetInv, entry' \in Entry, copy' \in Copy, mem' \in BOOLEAN,
         up' \in [Node -> Seq(Msg)], down' \in [Node -> Seq(Msg)],
         UNCHANGED <<peer, appQ, sysQ, agent, line, buf, shad, sbuf, wlock, pc, op, got, evType>>,
         \A a \in Node : UpFor(a, up'[a]) /\ DownFor(a, down'[a]) /\ AtMostOneOrder(up'[a], down'[a]),
         EntryInv(entry', copy', Owed')
  PROVE  NetInv'
<1>1. QueueTypeOK' /\ AgentTypeOK' /\ LineTypeOK' /\ ThreadTypeOK'
  BY NetTypes DEF QueueTypeOK, AgentTypeOK, LineTypeOK, ThreadTypeOK
<1>2. TypeOK'
  BY <1>1, TypesNext
<1>3. ASSUME NEW n \in Node PROVE Addressed(n)' /\ OneOrder(n)'
  BY NetAt DEF Addressed, OneOrder
<1> QED BY <1>2, <1>3 DEF NetInv

\* The directory's step on a request.
LEMMA NetRequest ==
  ASSUME NetInv, NEW n \in Node, NEW i \in DOMAIN up[n], NEW t \in Request,
         up[n][i].type = t, copy.type = "none",
         up' = [up EXCEPT ![n] = RemoveAt(@, i)],
         entry' = HandleRequest(entry, t, n).entry,
         copy' = HandleRequest(entry, t, n).copy,
         mem' \in BOOLEAN,
         SendDown(HandleRequest(entry, t, n).out),
         UNCHANGED <<peer, appQ, sysQ, agent, line, buf, shad, sbuf, wlock, pc, op, got, evType>>
  PROVE  /\ NetInv' /\ Requested(t, n, entry, copy, Owed, entry', copy', Owed')
         /\ down' \in [Node -> Seq(Msg)]
<1> DEFINE out == HandleRequest(entry, t, n).out
<1>1. EntryInv(entry, copy, Owed) /\ down \in [Node -> Seq(Msg)] /\ up \in [Node -> Seq(Msg)] /\ mem \in BOOLEAN
  BY NetTypes DEF NetInv, QueueTypeOK
<1>2. /\ UpFor(n, RemoveAt(up[n], i)) /\ AtMostOneOrder(RemoveAt(up[n], i), down[n])
      /\ OwedIn(RemoveAt(up[n], i), down[n]) = OwedIn(up[n], down[n])
      /\ RemoveAt(up[n], i) \in Seq(Msg)
  <2>1. /\ up[n] \in Seq(Msg) /\ down[n] \in Seq(Msg) /\ UpFor(n, up[n]) /\ AtMostOneOrder(up[n], down[n])
    BY NetAt
  <2> QED BY <2>1, AskedAway, Removing
<1>3. /\ up' \in [Node -> Seq(Msg)]
      /\ \A a \in Node : up'[a] = IF a = n THEN RemoveAt(up[n], i) ELSE up[a]
  BY <1>1, <1>2
<1>4. \A a \in Node : /\ UpFor(a, up'[a]) /\ DownFor(a, down[a]) /\ AtMostOneOrder(up'[a], down[a])
                      /\ OwedIn(up'[a], down[a]) = OwedIn(up[a], down[a])
  BY <1>2, <1>3, NetAt
<1>5. out = {} \/ \E x \in OutMsg : out = {x} /\ (x.type \in ToAgent => Owed = {})
  <2>1. EntryInv(entry, copy, Owed) /\ t \in Request /\ n \in Node
    BY <1>1
  <2> QED BY ONLY <2>1, RequestOut
<1>6. \A y : y \in Owed <=> \E a \in Node : y \in OwedIn(up'[a], down[a])
  BY <1>4, OwedIs
<1>7. \A x \in out : x.type \in ToAgent => OwedIn(up'[x.agent], down[x.agent]) = {}
  <2> SUFFICES ASSUME NEW x \in OutMsg, out = {x}, Owed = {} PROVE OwedIn(up'[x.agent], down[x.agent]) = {}
    BY <1>5
  <2>1. x.agent \in Node
    BY DEF OutMsg
  <2> QED BY <1>6, <2>1
<1>8. SendDown(out)
  OBVIOUS
<1> HIDE DEF out
<1>9. /\ down' \in [Node -> Seq(Msg)]
      /\ \A a \in Node : DownFor(a, down'[a]) /\ AtMostOneOrder(up'[a], down'[a])
      /\ Owed' = Owed \cup Owing(out)
  BY <1>1, <1>3, <1>4, <1>5, <1>6, <1>7, <1>8, SentNet
<1>10. Requested(t, n, entry, copy, Owed, entry', copy', Owed')
  BY <1>9 DEF Requested, Writes, out
<1>11. EntryInv(entry', copy', Owed')
  BY <1>1, <1>10, RequestStep
<1>12. entry' \in Entry /\ copy' \in Copy
  BY <1>11 DEF EntryInv, EntryTyped
<1>13. NetInv'
  BY <1>3, <1>4, <1>9, <1>11, <1>12, NetSent
<1> QED BY <1>9, <1>10, <1>13

\* The directory's step on an answer.
LEMMA NetAck ==
  ASSUME NetInv, NEW n \in Node, NEW i \in DOMAIN up[n], NEW m, m = up[n][i], m.type \in Ack,
         copy.type = "none",
         up' = [up EXCEPT ![n] = RemoveAt(@, i)],
         entry' = HandleAck(entry, m.type, m.req, m.agent).entry,
         copy' = HandleAck(entry, m.type, m.req, m.agent).copy,
         mem' \in BOOLEAN,
         SendDown(HandleAck(entry, m.type, m.req, m.agent).out),
         UNCHANGED <<peer, appQ, sysQ, agent, line, buf, shad, sbuf, wlock, pc, op, got, evType>>
  PROVE  /\ NetInv' /\ Strip(m) \in Owed
         /\ Answered(Strip(m), entry, copy, Owed, entry', copy', Owed')
         /\ down' \in [Node -> Seq(Msg)] /\ m.agent = n
<1> DEFINE out == HandleAck(entry, m.type, m.req, m.agent).out
           s == Strip(m)
<1>1. EntryInv(entry, copy, Owed) /\ down \in [Node -> Seq(Msg)] /\ up \in [Node -> Seq(Msg)] /\ mem \in BOOLEAN
  BY NetTypes DEF NetInv, QueueTypeOK
<1>2. /\ UpFor(n, RemoveAt(up[n], i)) /\ AtMostOneOrder(RemoveAt(up[n], i), down[n])
      /\ OwedIn(RemoveAt(up[n], i), down[n]) = {} /\ OwedIn(up[n], down[n]) = {s}
      /\ RemoveAt(up[n], i) \in Seq(Msg) /\ m \in Msg /\ m.agent = n
  <2>1. /\ up[n] \in Seq(Msg) /\ down[n] \in Seq(Msg) /\ UpFor(n, up[n]) /\ AtMostOneOrder(up[n], down[n])
    BY NetAt
  <2> QED BY <2>1, AnsweredAway, Removing
<1>3. /\ up' \in [Node -> Seq(Msg)]
      /\ \A a \in Node : up'[a] = IF a = n THEN RemoveAt(up[n], i) ELSE up[a]
  BY <1>1, <1>2
<1>4. \A a \in Node : UpFor(a, up'[a]) /\ DownFor(a, down[a]) /\ AtMostOneOrder(up'[a], down[a])
  BY <1>2, <1>3, NetAt
<1>5. m.req \in Node /\ m.agent \in Node
  BY <1>2 DEF Msg
<1>6. out = {} \/ \E x \in OutMsg : out = {x} /\ x.type \notin ToAgent
  <2>1. PICK t \in Ack, r \in Node, a \in Node : t = m.type /\ r = m.req /\ a = m.agent
    BY <1>5
  <2>2. entry \in Entry
    BY NetTypes
  <2>3. \/ HandleAck(entry, t, r, a).out = {}
        \/ \E x \in OutMsg : HandleAck(entry, t, r, a).out = {x} /\ x.type \notin ToAgent
    BY ONLY <2>2, AckOut
  <2> QED BY <2>1, <2>3
<1>7. s.type = m.type /\ s.req = m.req /\ s.agent = m.agent
  BY DEF Strip
<1> HIDE DEF s
<1>8. \A y : y \in Owed \ {s} <=> \E a \in Node : y \in OwedIn(up'[a], down[a])
  <2>1. \A a \in Node : a # n => OwedIn(up'[a], down[a]) = OwedIn(up[a], down[a])
    BY <1>3
  <2>2. OwedIn(up'[n], down[n]) = {}
    BY <1>2, <1>3
  <2>3. \A a \in Node : a # n => s \notin OwedIn(up[a], down[a])
    BY <1>2, <1>7, OwedOf
  <2>4. \A y : y \in Owed <=> \E a \in Node : y \in OwedIn(up[a], down[a])
    BY OwedIs
  <2> QED BY <1>2, <2>1, <2>2, <2>3, <2>4
<1>9. s \in Owed
  BY <1>2, OwedIs
<1>10. SendDown(out)
  OBVIOUS
<1>11. Owing(out) = {}
  <2>1. ASSUME NEW x \in OutMsg, out = {x}, x.type \notin ToAgent PROVE Owing(out) = {}
    BY <2>1, OwingIs
  <2> QED BY <1>6, <2>1, OwingNone
<1> HIDE DEF out
<1>12. /\ down' \in [Node -> Seq(Msg)]
       /\ \A a \in Node : DownFor(a, down'[a]) /\ AtMostOneOrder(up'[a], down'[a])
       /\ Owed' = (Owed \ {s}) \cup Owing(out)
  <2>1. \A x \in out : x.type \in ToAgent => OwedIn(up'[x.agent], down[x.agent]) = {}
    BY <1>6
  <2> QED BY <1>1, <1>3, <1>4, <1>6, <1>8, <1>10, <2>1, SentNet
<1>13. Answered(s, entry, copy, Owed, entry', copy', Owed')
  BY <1>7, <1>11, <1>12 DEF Answered, Writes
<1>14. EntryInv(entry', copy', Owed')
  BY <1>1, <1>9, <1>13, AckStep, SMTT(20)
<1>15. entry' \in Entry /\ copy' \in Copy
  BY <1>14 DEF EntryInv, EntryTyped
<1>16. NetInv'
  BY <1>3, <1>4, <1>12, <1>14, <1>15, NetSent
<1> QED BY <1>2, <1>9, <1>12, <1>13, <1>16 DEF s

\* The copy loop.
LEMMA NetCopy ==
  ASSUME NetInv, DirCopyLoop
  PROVE  /\ NetInv' /\ CopiedOne(entry, copy, Owed, entry', copy', Owed')
         /\ down' \in [Node -> Seq(Msg)]
<1> DEFINE out == CopyOut(copy)
<1>1. /\ EntryInv(entry, copy, Owed) /\ down \in [Node -> Seq(Msg)] /\ up \in [Node -> Seq(Msg)] /\ mem \in BOOLEAN
      /\ copy \in Copy
  BY NetTypes DEF NetInv, QueueTypeOK
<1>2. /\ copy.type # "none" /\ copy' = CopyNext(copy) /\ SendDown(out) /\ UNCHANGED <<entry, mem, up>>
      /\ UNCHANGED <<peer, appQ, sysQ, agent, line, buf, shad, sbuf, wlock, pc, op, got, evType>>
  BY DEF DirCopyLoop, hostQ, lineVars, threadVars
<1>3. out = {} \/ \E x \in OutMsg : out = {x} /\ x.agent \in ToCopy(copy)
  BY <1>1, CopyOutIs
<1>4. OwedBy(Owed) \cap ToCopy(copy) = {}
  <2>1. \/ Invalidating(entry, copy, Owed, "R_WRITE_MISS", "AGENT_2_DIR_WRITE_MISS_SHARED_ACK", 0)
        \/ Invalidating(entry, copy, Owed, "R_WRITE_SHARED", "AGENT_2_DIR_WRITE_SHARED_NOTONLY_ACK", 1)
    BY <1>1, <1>2 DEF EntryInv, EntryTyped, EntryConsistent, StableConsistent, TransientConsistent, HandingOver,
                      Entry, State
  <2> QED BY <2>1 DEF Invalidating
<1>5. \A x \in out : x.type \in ToAgent => OwedIn(up'[x.agent], down[x.agent]) = {}
  <2> SUFFICES ASSUME NEW x \in OutMsg, x.agent \in ToCopy(copy) PROVE OwedIn(up[x.agent], down[x.agent]) = {}
    BY <1>2, <1>3
  <2>1. x.agent \in Node /\ x.agent \notin OwedBy(Owed)
    BY <1>4 DEF OutMsg
  <2>2. \A y : y \in OwedIn(up[x.agent], down[x.agent]) <=> y \in Owed /\ y.agent = x.agent
    BY <2>1, OwedOf
  <2> QED BY <2>1, <2>2 DEF OwedBy
<1>6. \A a \in Node : UpFor(a, up'[a]) /\ DownFor(a, down[a]) /\ AtMostOneOrder(up'[a], down[a])
  BY <1>2, NetAt
<1>7. \A y : y \in Owed <=> \E a \in Node : y \in OwedIn(up'[a], down[a])
  BY <1>2, OwedIs
<1>8. up' \in [Node -> Seq(Msg)]
  BY <1>1, <1>2
<1> HIDE DEF out
<1>9. /\ down' \in [Node -> Seq(Msg)]
      /\ \A a \in Node : DownFor(a, down'[a]) /\ AtMostOneOrder(up'[a], down'[a])
      /\ Owed' = Owed \cup Owing(out)
  BY <1>1, <1>2, <1>3, <1>5, <1>6, <1>7, <1>8, SentNet
<1>10. CopiedOne(entry, copy, Owed, entry', copy', Owed')
  BY <1>2, <1>9 DEF CopiedOne, out
<1>11. EntryInv(entry', copy', Owed')
  BY <1>1, <1>10, CopyStep
<1>12. entry' \in Entry /\ copy' \in Copy /\ mem' \in BOOLEAN
  BY <1>1, <1>2, <1>11 DEF EntryInv, EntryTyped
<1>13. NetInv'
  BY <1>2, <1>6, <1>8, <1>9, <1>11, <1>12, NetSent
<1> QED BY <1>9, <1>10, <1>13

\* The operators of DirEntry that Directory speaks of are the ones used here.
LEMMA SameHandler ==
  /\ Dir!Node = Node /\ Dir!Request = Request /\ Dir!NoCopy = NoCopy
  /\ \A e, t, n : Dir!HandleRequest(e, t, n) = HandleRequest(e, t, n)
  /\ \A e, t, r, a : Dir!HandleAck(e, t, r, a) = HandleAck(e, t, r, a)
  /\ \A c : Dir!CopyNext(c) = CopyNext(c) /\ Dir!CopyOut(c) = CopyOut(c)
  /\ \A out : Dir!Owing(out) = Owing(out)
<1>1. Dir!Node = Node /\ Dir!Request = Request /\ Dir!NoCopy = NoCopy
  BY DEF Node, Dir!Node, Request, Dir!Request, NoCopy, Dir!NoCopy
<1>2. \A e, n : Dir!ReadMiss(e, n) = ReadMiss(e, n)
  BY DEF ReadMiss, Dir!ReadMiss, NoCopy, Dir!NoCopy, ToReq, Dir!ToReq, Result, Dir!Result, Refuse, Dir!Refuse, MCheckFail, Dir!MCheckFail, BitmapCheckFail, Dir!BitmapCheckFail, AgentNode, Dir!AgentNode, Byte, Dir!Byte
<1>3. \A e, n : Dir!WriteMiss(e, n) = WriteMiss(e, n)
  BY DEF WriteMiss, Dir!WriteMiss, NoCopy, Dir!NoCopy, ToReq, Dir!ToReq, Result, Dir!Result, Refuse, Dir!Refuse, MCheckFail, Dir!MCheckFail, BitmapCheckFail, Dir!BitmapCheckFail, AgentNode, Dir!AgentNode, Byte, Dir!Byte
<1>4. \A e, n : Dir!WriteShared(e, n) = WriteShared(e, n)
  BY DEF WriteShared, Dir!WriteShared, NoCopy, Dir!NoCopy, ToReq, Dir!ToReq, Result, Dir!Result, Refuse, Dir!Refuse, MCheckFail, Dir!MCheckFail, BitmapCheckFail, Dir!BitmapCheckFail, AgentNode, Dir!AgentNode, Byte, Dir!Byte
<1>5. \A e, n : Dir!EvictShared(e, n) = EvictShared(e, n)
  BY DEF EvictShared, Dir!EvictShared, NoCopy, Dir!NoCopy, ToReq, Dir!ToReq, Result, Dir!Result, Refuse, Dir!Refuse, MCheckFail, Dir!MCheckFail, BitmapCheckFail, Dir!BitmapCheckFail, AgentNode, Dir!AgentNode, Byte, Dir!Byte
<1>6. \A e, n : Dir!EvictDirty(e, n) = EvictDirty(e, n)
  BY DEF EvictDirty, Dir!EvictDirty, NoCopy, Dir!NoCopy, ToReq, Dir!ToReq, Result, Dir!Result, Refuse, Dir!Refuse, MCheckFail, Dir!MCheckFail, BitmapCheckFail, Dir!BitmapCheckFail, AgentNode, Dir!AgentNode, Byte, Dir!Byte
<1>7. \A e, t, n : Dir!HandleRequest(e, t, n) = HandleRequest(e, t, n)
  BY <1>2, <1>3, <1>4, <1>5, <1>6 DEF HandleRequest, Dir!HandleRequest
<1>8. \A e, r, a : Dir!ReadMissDirtyAckdata(e, r, a) = ReadMissDirtyAckdata(e, r, a)
  BY DEF ReadMissDirtyAckdata, Dir!ReadMissDirtyAckdata, NoCopy, Dir!NoCopy, ToReq, Dir!ToReq, Result, Dir!Result, Byte, Dir!Byte, Ignore, Dir!Ignore
<1>9. \A e, r, a : Dir!WriteMissDirtyAck(e, r, a) = WriteMissDirtyAck(e, r, a)
  BY DEF WriteMissDirtyAck, Dir!WriteMissDirtyAck, NoCopy, Dir!NoCopy, ToReq, Dir!ToReq, Result, Dir!Result, Byte, Dir!Byte, Ignore, Dir!Ignore
<1>10. \A e, r, a : Dir!WriteMissSharedAck(e, r, a) = WriteMissSharedAck(e, r, a)
  BY DEF WriteMissSharedAck, Dir!WriteMissSharedAck, NoCopy, Dir!NoCopy, ToReq, Dir!ToReq, Result, Dir!Result, Byte, Dir!Byte, Ignore, Dir!Ignore
<1>11. \A e, r, a : Dir!WriteSharedNotonlyAck(e, r, a) = WriteSharedNotonlyAck(e, r, a)
  BY DEF WriteSharedNotonlyAck, Dir!WriteSharedNotonlyAck, NoCopy, Dir!NoCopy, ToReq, Dir!ToReq, Result, Dir!Result, Byte, Dir!Byte, Ignore, Dir!Ignore
<1>12. \A e, t, r, a : Dir!HandleAck(e, t, r, a) = HandleAck(e, t, r, a)
  BY <1>8, <1>9, <1>10, <1>11 DEF HandleAck, Dir!HandleAck
<1>13. \A c : Dir!CopyNext(c) = CopyNext(c) /\ Dir!CopyOut(c) = CopyOut(c)
  BY DEF CopyNext, Dir!CopyNext, CopyOut, Dir!CopyOut, LastLeft, Dir!LastLeft, NoCopy, Dir!NoCopy
<1>14. \A out : Dir!Owing(out) = Owing(out)
  BY DEF Owing, Dir!Owing, AckOf, Dir!AckOf, ToAgent, Dir!ToAgent
<1> QED BY <1>1, <1>7, <1>12, <1>13, <1>14

\* Every step keeps the first part of the invariant and is a step of Directory.
LEMMA NetReceive ==
  ASSUME NetInv, NEW n \in Node, DirReceive(n)
  PROVE  /\ NetInv'
         /\ \/ \E i \in DOMAIN up[n] : \E t \in Request :
                 /\ up[n][i].type = t /\ up' = [up EXCEPT ![n] = RemoveAt(@, i)]
                 /\ Requested(t, n, entry, copy, Owed, entry', copy', Owed')
                 /\ SendDown(HandleRequest(entry, t, n).out)
            \/ \E i \in DOMAIN up[n] :
                 /\ up[n][i].type \in Ack /\ up[n][i].agent = n
                 /\ up' = [up EXCEPT ![n] = RemoveAt(@, i)]
                 /\ Strip(up[n][i]) \in Owed
                 /\ Answered(Strip(up[n][i]), entry, copy, Owed, entry', copy', Owed')
                 /\ SendDown(HandleAck(entry, up[n][i].type, up[n][i].req, n).out)
         /\ UNCHANGED <<peer, appQ, sysQ, agent, line, shad, pc, op, got, evType>>
<1>1. PICK i \in DOMAIN up[n] :
        LET m == up[n][i]
            res == IF m.type \in Request THEN HandleRequest(entry, m.type, m.req)
                   ELSE HandleAck(entry, m.type, m.req, m.agent)
        IN /\ m \in Msg /\ copy.type = "none"
           /\ up' = [up EXCEPT ![n] = RemoveAt(@, i)]
           /\ entry' = res.entry
           /\ copy' = res.copy
           /\ mem' \in BOOLEAN
           /\ SendDown(res.out)
           /\ UNCHANGED <<peer, appQ, sysQ, agent, line, buf, shad, sbuf, wlock, pc, op, got, evType>>
  BY ReceiveType
<1> DEFINE m == up[n][i]
<1>2. (m.type \in Request /\ m.req = n) \/ (m.type \in Ack /\ m.agent = n)
  <2>1. UpFor(n, up[n]) /\ m \in Range(up[n])
    BY NetAt DEF Range
  <2> QED BY <2>1 DEF UpFor
<1>3. CASE m.type \in Request /\ m.req = n
  <2>1. /\ copy.type = "none"
        /\ up' = [up EXCEPT ![n] = RemoveAt(@, i)]
        /\ entry' = HandleRequest(entry, m.type, n).entry
        /\ copy' = HandleRequest(entry, m.type, n).copy
        /\ mem' \in BOOLEAN
        /\ SendDown(HandleRequest(entry, m.type, n).out)
        /\ UNCHANGED <<peer, appQ, sysQ, agent, line, buf, shad, sbuf, wlock, pc, op, got, evType>>
    BY <1>1, <1>3
  <2>2. NetInv' /\ Requested(m.type, n, entry, copy, Owed, entry', copy', Owed')
    BY <1>3, <2>1, NetRequest
  <2> QED BY <1>3, <2>1, <2>2
<1>4. CASE m.type \in Ack /\ m.agent = n
  <2>0. m.type \notin Request
    BY <1>4, Kinds
  <2>1. /\ copy.type = "none"
        /\ up' = [up EXCEPT ![n] = RemoveAt(@, i)]
        /\ entry' = HandleAck(entry, m.type, m.req, m.agent).entry
        /\ copy' = HandleAck(entry, m.type, m.req, m.agent).copy
        /\ mem' \in BOOLEAN
        /\ SendDown(HandleAck(entry, m.type, m.req, m.agent).out)
        /\ UNCHANGED <<peer, appQ, sysQ, agent, line, buf, shad, sbuf, wlock, pc, op, got, evType>>
    BY <1>1, <2>0
  <2>2. /\ NetInv' /\ Strip(m) \in Owed /\ m.agent = n
        /\ Answered(Strip(m), entry, copy, Owed, entry', copy', Owed')
    BY <1>4, <2>1, NetAck
  <2> QED BY <1>4, <2>1, <2>2
<1> QED BY <1>2, <1>3, <1>4

LEMMA NetNext ==
  ASSUME NetInv, [Next]_vars
  PROVE  NetInv' /\ [Dir!DirNext]_(Dir!dvars)
<1>1. ASSUME NetInv' /\ DirSame PROVE NetInv' /\ [Dir!DirNext]_(Dir!dvars)
  BY <1>1 DEF DirSame, Dir!dvars
<1>2. CASE DirCopyLoop
  <2>1. NetInv' /\ CopiedOne(entry, copy, Owed, entry', copy', Owed')
    BY <1>2, NetCopy
  <2>2. Dir!DirCopy
    BY <2>1, SameHandler DEF CopiedOne, Dir!DirCopy
  <2> QED BY <2>1, <2>2 DEF Dir!DirNext
<1>3. ASSUME NEW n \in Node, DirReceive(n) PROVE NetInv' /\ [Dir!DirNext]_(Dir!dvars)
  <2>1. /\ NetInv'
        /\ \/ \E t \in Request : Requested(t, n, entry, copy, Owed, entry', copy', Owed')
           \/ \E m \in Owed : Answered(m, entry, copy, Owed, entry', copy', Owed')
    BY <1>3, NetReceive
  <2>2. ASSUME NEW t \in Request, Requested(t, n, entry, copy, Owed, entry', copy', Owed')
        PROVE  Dir!DirNext
    <3>1. Dir!DirRequest(t, n)
      BY <2>2, SameHandler DEF Requested, Writes, Dir!DirRequest, Dir!Write
    <3> QED BY <3>1, SameHandler DEF Dir!DirNext
  <2>3. ASSUME NEW m \in Owed, Answered(m, entry, copy, Owed, entry', copy', Owed')
        PROVE  Dir!DirNext
    <3>1. Dir!DirAck(m)
      BY <2>3, SameHandler DEF Answered, Writes, Dir!DirAck, Dir!Write
    <3> QED BY <3>1, SameHandler DEF Dir!DirNext
  <2> QED BY <2>1, <2>2, <2>3
<1>4. ASSUME NEW n \in Node, FpgaToAgent(n) PROVE NetInv' /\ [Dir!DirNext]_(Dir!dvars)
  BY <1>1, <1>4, NetToAgent
<1>5. ASSUME NEW n \in Node, FpgaToApp(n) PROVE NetInv' /\ [Dir!DirNext]_(Dir!dvars)
  BY <1>1, <1>5, NetToApp
<1>6. ASSUME NEW n \in Node, AgentStep(n) PROVE NetInv' /\ [Dir!DirNext]_(Dir!dvars)
  BY <1>1, <1>6, NetTake, NetApply DEF AgentStep
<1>7. ASSUME NEW n \in Node, LocalStep(n) PROVE NetInv' /\ [Dir!DirNext]_(Dir!dvars)
  BY <1>1, <1>7, NetLocal
<1>8. ASSUME NEW n \in Node, StartMiss(n) \/ EvictSend(n) PROVE NetInv' /\ [Dir!DirNext]_(Dir!dvars)
  BY <1>1, <1>8, NetSend
<1>9. ASSUME NEW n \in Node, Access(n) PROVE NetInv' /\ [Dir!DirNext]_(Dir!dvars)
  BY <1>1, <1>9, NetAccess
<1>10. ASSUME NEW n \in Node, Receive(n) \/ EvictReply(n) PROVE NetInv' /\ [Dir!DirNext]_(Dir!dvars)
  BY <1>1, <1>10, NetReply
<1>11. CASE UNCHANGED vars
  <2>1. UNCHANGED <<entry, copy, mem, up, down, peer, appQ, sysQ, agent, line, buf, shad, sbuf, wlock, pc, op, got, evType>>
    BY <1>11 DEF vars, dirVars, netVars, hostQ, lineVars, threadVars
  <2>2. QueueTypeOK' /\ AgentTypeOK' /\ LineTypeOK' /\ ThreadTypeOK'
    BY <2>1, NetTypes DEF QueueTypeOK, AgentTypeOK, LineTypeOK, ThreadTypeOK
  <2>3. TypeOK'
    BY <2>1, <2>2, NetTypes, TypesNext
  <2> QED BY <1>1, <2>1, <2>3, NetFrame
<1>12. CASE Next
  <2>1. DirCopyLoop \/ \E n \in Node :
          \/ DirReceive(n) \/ FpgaToAgent(n) \/ FpgaToApp(n) \/ AgentStep(n)
          \/ LocalStep(n) \/ (StartMiss(n) \/ EvictSend(n)) \/ Access(n) \/ (Receive(n) \/ EvictReply(n))
    BY <1>12 DEF Next, Thread, LocalStep
  <2> QED BY <1>2, <1>3, <1>4, <1>5, <1>6, <1>7, <1>8, <1>9, <1>10, <2>1
<1> QED BY <1>11, <1>12

\* The initial state.
LEMMA NetInit ==
  ASSUME Init
  PROVE  NetInv /\ Dir!DirInit
<1>1. /\ entry = [state |-> "S_UNSHARED", bitmap |-> {}, count |-> 0] /\ copy = NoCopy
      /\ mem = TRUE
      /\ up = [n \in Node |-> <<>>] /\ down = [n \in Node |-> <<>>] /\ peer = [n \in Node |-> <<>>]
      /\ appQ = [n \in Node |-> <<>>] /\ sysQ = [n \in Node |-> [k \in SysThread |-> <<>>]]
  BY DEF Init
<1>2. Range(<<>>) = {} /\ <<>> \in Seq(Msg)
  BY DEF Range
<1>3. \A n \in Node : OwedIn(up[n], down[n]) = {}
  BY <1>1, <1>2 DEF OwedIn, Sel
<1>4. Owed = {}
  BY <1>3, OwedIs
<1>5. EntryInv(entry, copy, Owed)
  BY <1>1, <1>4, InitEntry
<1>6. ASSUME NEW n \in Node PROVE Addressed(n) /\ OneOrder(n)
  <2>1. AtMostOne(<<>>, Ack) /\ AtMostOne(<<>>, ToAgent)
    BY DEF AtMostOne
  <2>2. Types(<<>>) = {}
    BY <1>2 DEF Types
  <2>3. up[n] = <<>> /\ down[n] = <<>> /\ peer[n] = <<>> /\ appQ[n] = <<>> /\ \A k \in SysThread : sysQ[n][k] = <<>>
    BY <1>1
  <2> QED BY <1>2, <2>1, <2>2, <2>3 DEF Addressed, UpFor, DownFor, OneOrder, AtMostOneOrder
<1>7. TypeOK
  <2>1. entry \in Entry /\ copy \in Copy /\ mem \in BOOLEAN
    BY <1>1, <1>5 DEF EntryInv, EntryTyped
  <2>2. QueueTypeOK
    BY <1>1, <1>2 DEF QueueTypeOK
  <2>3. AgentTypeOK
    BY DEF Init, AgentTypeOK, AgentIdle
  <2>4. LineTypeOK
    BY DEF Init, LineTypeOK, Tag, LineStatus, ShadStatus
  <2>5. ThreadTypeOK
    BY DEF Init, ThreadTypeOK, ThreadPc
  <2> QED BY <2>1, <2>2, <2>3, <2>4, <2>5, TypeParts
<1> QED BY <1>1, <1>4, <1>5, <1>6, <1>7, SameHandler DEF NetInv, Dir!DirInit

------------------------------------------------------------------------------
(* Theorems for any number of cache agents *)

\* The queues, line words and registers of the whole protocol (Cache.cpp,
\* CacheAgent.cpp, cacheCtrlHLS_*, dirCtrlHLS_to_net) stay well typed: in
\* particular no answer finds the directory in a state that takes its count or
\* its owner out of range.
THEOREM CoherenceTypeCorrect == Spec => []TypeOK
<1>1. Init => NetInv
  BY NetInit
<1>2. NetInv /\ [Next]_vars => NetInv'
  BY NetNext
<1>3. NetInv => TypeOK
  BY DEF NetInv
<1> QED BY <1>1, <1>2, <1>3, PTL DEF Spec

\* The protocol as a whole, with its reordering network, with the FPGAs that
\* answer for the hosts and with any number of cache agents, is an environment
\* that the directory's specification allows: every node answers every order
\* exactly once.  All that is proved of Directory holds of it.
THEOREM CoherenceImplementsDirectory == Spec => ImplementsDirectory
<1>1. Init => NetInv /\ Dir!DirInit
  BY NetInit
<1>2. NetInv /\ [Next]_vars => NetInv' /\ [Dir!DirNext]_(Dir!dvars)
  BY NetNext
<1> QED BY <1>1, <1>2, PTL DEF Spec, ImplementsDirectory, Dir!DirSpec

==============================================================================
