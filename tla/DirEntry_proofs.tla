--------------------------- MODULE DirEntry_proofs ---------------------------
(****************************************************************************)
(* What the handler of dirCtrlHLS_to_net.cpp does to an entry, for every    *)
(* number of nodes that an 8-bit replica_count can hold.  The facts are     *)
(* about any entry, registers and answers due, so that both the directory   *)
(* on its own (Directory_proofs) and the directory inside the protocol      *)
(* (Coherence_proofs) rest on them.                                         *)
(****************************************************************************)
EXTENDS DirEntry, TLAPS, FiniteSetTheorems, WellFoundedInduction

------------------------------------------------------------------------------
(* The operators of DirEntry *)

\* Every set of nodes is finite and its size fits in the byte of replica_count.
LEMMA NodeSets ==
  ASSUME NEW S \in SUBSET Node
  PROVE  IsFiniteSet(S) /\ Cardinality(S) \in 0 .. N
<1>1. N \in Int /\ N >= 1
  BY NAssumption
<1>2. IsFiniteSet(Node) /\ Cardinality(Node) = N
  BY <1>1, FS_Interval DEF Node
<1>3. IsFiniteSet(S) /\ Cardinality(S) <= N
  BY <1>2, FS_Subset
<1> QED
  BY <1>3, FS_CardinalityType, NAssumption

\* replica_count does not wrap as long as it counts nodes.
LEMMA ByteFits ==
  ASSUME NEW k \in 0 .. 255
  PROVE  Byte(k) = k
BY DEF Byte

\* A replica_count is a byte.
LEMMA ByteType ==
  ASSUME NEW k \in Int
  PROVE  Byte(k) \in 0 .. 255
BY DEF Byte

\* The loops of dirCtrlHLS_to_net that look for the last node of a bitmap find
\* one unless the bitmap is empty.
LEMMA LastNode ==
  ASSUME NEW S \in SUBSET Node, S # {}
  PROVE  \E a \in S : \A b \in S : b <= a
<1> DEFINE Above(a) == {b \in S : b > a}
           T == {Above(a) : a \in S}
           R == StrictSubsetOrdering(Node)
<1>1. IsWellFoundedOn(R, FiniteSubsetsOf(Node))
  BY FS_StrictSubsetOrderingWellFounded
<1>2. T \subseteq FiniteSubsetsOf(Node) /\ T # {}
  BY NodeSets DEF FiniteSubsetsOf
<1>3. PICK U \in T : \A V \in T : ~ (<<V, U>> \in R)
  <2> HIDE DEF T, R
  <2> QED BY <1>1, <1>2, WFMin
<1>4. PICK a \in S : U = Above(a)
  BY <1>3
<1>5. Above(a) = {}
  <2> SUFFICES ASSUME NEW y \in Above(a) PROVE FALSE
    OBVIOUS
  <2>0. S \subseteq Int /\ a \in Int /\ y \in Int /\ y > a /\ y \in S
    BY NAssumption DEF Node
  <2>1. Above(y) \subseteq Above(a) /\ Above(y) # Above(a)
    <3>1. \A b \in S : b > y => b > a
      BY <2>0
    <3>2. y \notin Above(y)
      BY <2>0
    <3> QED BY <2>0, <3>1, <3>2
  <2>2. <<Above(y), Above(a)>> \in R
    BY <2>1 DEF StrictSubsetOrdering
  <2> QED BY <1>3, <1>4, <2>2
<1>6. \A b \in S : b <= a
  BY <1>5, NAssumption DEF Node
<1> QED BY <1>6

\* The node the copy loop picks is one of those left.
LEMMA LastLeftIn ==
  ASSUME NEW c \in Copy, c.left # {}
  PROVE  LastLeft(c) \in c.left
BY LastNode DEF LastLeft, Copy

\* With a single owner, tmp_agent_node_id is the owner.
LEMMA AgentNodeOfOwner ==
  ASSUME NEW e, NEW a \in Node, e.bitmap = {a}
  PROVE  AgentNode(e) = a
BY NAssumption DEF AgentNode, Node

\* A message for an application thread brings no answer from an agent.
LEMMA OwingToApp ==
  ASSUME NEW t \in ToApp, NEW n
  PROVE  Owing({ToReq(t, n)}) = {}
BY DEF Owing, ToReq, ToApp, ToAgent

\* A message to an agent will bring back one answer ...
LEMMA OwingOne ==
  ASSUME NEW t \in ToAgent, NEW r, NEW a
  PROVE  Owing({[type |-> t, req |-> r, agent |-> a]}) =
           {[type |-> AckOf(t), req |-> r, agent |-> a]}
<1> DEFINE m == [type |-> t, req |-> r, agent |-> a]
           ack(x) == [type |-> AckOf(x.type), req |-> x.req, agent |-> x.agent]
<1>1. m.type = t /\ m.req = r /\ m.agent = a
  OBVIOUS
<1>2. ack(m) = [type |-> AckOf(t), req |-> r, agent |-> a]
  BY <1>1
<1>3. {x \in {m} : x.type \in ToAgent} = {m}
  BY <1>1
<1>4. Owing({m}) = {ack(x) : x \in {m}}
  <2> HIDE DEF m
  <2> QED BY <1>3 DEF Owing
<1> QED
  <2> HIDE DEF m, ack
  <2>1. {ack(x) : x \in {m}} = {ack(m)}
    OBVIOUS
  <2> QED BY <1>2, <1>4, <2>1 DEF m

\* ... and no message none.
LEMMA OwingNone == Owing({}) = {}
BY DEF Owing

------------------------------------------------------------------------------
(* The inductive invariant: the entry is consistent and, besides, the       *)
(* registers of the copy loop hold nothing while the flag is 0.             *)

CopyIdle(c) == c.type = "none" => c = NoCopy

EntryInv(e, c, o) == EntryTyped(e, c, o) /\ EntryConsistent(e, c, o) /\ CopyIdle(c)

\* One pass of the handler, from the entry e, the registers c and the answers
\* due o to e1, c1 and o1: on a request, on an answer, and in the copy loop.
Writes(res, e1, c1) == e1 = res.entry /\ c1 = res.copy

Requested(t, n, e, c, o, e1, c1, o1) ==
  /\ c.type = "none"
  /\ Writes(HandleRequest(e, t, n), e1, c1)
  /\ o1 = o \cup Owing(HandleRequest(e, t, n).out)

Answered(m, e, c, o, e1, c1, o1) ==
  /\ c.type = "none"
  /\ Writes(HandleAck(e, m.type, m.req, m.agent), e1, c1)
  /\ o1 = o \ {m}

CopiedOne(e, c, o, e1, c1, o1) ==
  /\ c.type # "none"
  /\ c1 = CopyNext(c)
  /\ o1 = o \cup Owing(CopyOut(c))
  /\ e1 = e

\* What is to be shown of a step that ends in a stable state, ...
LEMMA ToStable ==
  ASSUME NEW e1, NEW c1, NEW o1,
         e1 \in Entry, o1 = {}, c1 = NoCopy,
         e1.count = Cardinality(e1.bitmap),
         \/ e1.state = "S_UNSHARED" /\ e1.bitmap = {}
         \/ e1.state = "S_SHARED" /\ e1.bitmap # {}
         \/ e1.state = "S_DIRTY" /\ \E a \in Node : e1.bitmap = {a}
  PROVE  EntryInv(e1, c1, o1)
<1>1. NoCopy \in Copy /\ NoCopy.type = "none"
  BY NAssumption DEF NoCopy, Copy, Node
<1>2. EntryTyped(e1, c1, o1) /\ CopyIdle(c1)
  BY <1>1 DEF EntryTyped, CopyIdle
<1>3. StableConsistent(e1, c1, o1)
  BY <1>1 DEF StableConsistent
<1>4. TransientConsistent(e1, c1, o1)
  BY DEF TransientConsistent
<1> QED BY <1>2, <1>3, <1>4 DEF EntryInv, EntryConsistent

\* ... and of one that asks the owner a to hand the block over to r.
LEMMA ToHandover ==
  ASSUME NEW e1, NEW c1, NEW o1,
         NEW s, NEW t,
         \/ s = "S_TO_SHARED" /\ t = "AGENT_2_DIR_READ_MISS_DIRTY_ACKDATA"
         \/ s = "S_TO_DIRTY" /\ t = "AGENT_2_DIR_WRITE_MISS_DIRTY_ACK",
         NEW a \in Node, NEW r \in Node, a # r,
         e1 = [state |-> s, bitmap |-> {a}, count |-> 1],
         o1 = {[type |-> t, req |-> r, agent |-> a]},
         c1 = NoCopy
  PROVE  EntryInv(e1, c1, o1)
<1>1. NoCopy \in Copy /\ NoCopy.type = "none"
  BY NAssumption DEF NoCopy, Copy, Node
<1>2. EntryTyped(e1, c1, o1) /\ CopyIdle(c1)
  BY <1>1 DEF EntryTyped, CopyIdle, Entry, State, AckMsg, Ack
<1>3. StableConsistent(e1, c1, o1)
  BY DEF StableConsistent
<1>4. HandingOver(e1, c1, o1, t)
  BY <1>1 DEF HandingOver
<1>5. TransientConsistent(e1, c1, o1)
  BY <1>4 DEF TransientConsistent
<1> QED BY <1>2, <1>3, <1>5 DEF EntryInv, EntryConsistent

\* A step that starts the invalidations for r: the copy registers hold all the
\* sharers, and the count is theirs, with r counted in when r is one of them.
LEMMA ToInvalidation ==
  ASSUME NEW e1, NEW c1, NEW o1,
         e1 \in Entry, e1.state = "S_TO_DIRTY",
         o1 = {},
         c1 \in Copy, c1.left = e1.bitmap,
         e1.bitmap \ {c1.req} # {},
         \/ /\ c1.type = "R_WRITE_MISS"
            /\ c1.req \notin e1.bitmap
            /\ e1.count = Cardinality(e1.bitmap \ {c1.req})
         \/ /\ c1.type = "R_WRITE_SHARED"
            /\ e1.count = Cardinality(e1.bitmap \ {c1.req}) + 1
  PROVE  EntryInv(e1, c1, o1)
<1>1. EntryTyped(e1, c1, o1) /\ CopyIdle(c1)
  BY DEF EntryTyped, CopyIdle
<1>2. StableConsistent(e1, c1, o1)
  BY DEF StableConsistent
<1>3. OwedBy(o1) = {} /\ ToCopy(c1) = e1.bitmap \ {c1.req} /\ Pending(c1, o1) = e1.bitmap \ {c1.req}
  BY DEF OwedBy, ToCopy, Pending
<1>4. c1.req \in Node /\ IsFiniteSet(Pending(c1, o1)) /\ Cardinality(Pending(c1, o1)) \in Nat
  BY <1>3, NodeSets, NAssumption DEF Copy, Entry
<1>5. \/ Invalidating(e1, c1, o1, "R_WRITE_MISS", "AGENT_2_DIR_WRITE_MISS_SHARED_ACK", 0)
      \/ Invalidating(e1, c1, o1, "R_WRITE_SHARED", "AGENT_2_DIR_WRITE_SHARED_NOTONLY_ACK", 1)
  <2>1. CASE c1.type = "R_WRITE_MISS"
    BY <1>3, <1>4, <2>1 DEF Invalidating
  <2>2. CASE c1.type = "R_WRITE_SHARED"
    BY <1>3, <1>4, <2>2 DEF Invalidating
  <2> QED BY <2>1, <2>2
<1>6. TransientConsistent(e1, c1, o1)
  BY <1>5 DEF TransientConsistent
<1> QED BY <1>1, <1>2, <1>6 DEF EntryInv, EntryConsistent

\* A refused request changes nothing.
LEMMA Refused ==
  ASSUME NEW e, NEW c, NEW o, NEW e1, NEW c1, NEW o1, EntryInv(e, c, o), NEW n, NEW u \in ToApp,
         c.type = "none",
         Writes(Refuse(e, u, n), e1, c1),
         o1 = o \cup Owing(Refuse(e, u, n).out)
  PROVE  e1 = e /\ c1 = c /\ o1 = o
<1>1. Refuse(e, u, n).out = {ToReq(u, n)}
  BY DEF Refuse, Result
<1>2. e1 = e /\ c1 = NoCopy
  BY DEF Refuse, Result, Writes
<1>3. c1 = c
  BY <1>2 DEF EntryInv, CopyIdle
<1> QED BY <1>1, <1>2, <1>3, OwingToApp

\* What EntryInv says of a directory that takes a message in a stable state.
LEMMA StableFacts ==
  ASSUME NEW e, NEW c, NEW o, EntryInv(e, c, o), e.state \in {"S_UNSHARED", "S_SHARED", "S_DIRTY"}
  PROVE  /\ o = {} /\ c = NoCopy
         /\ e \in Entry
         /\ e.bitmap \in SUBSET Node
         /\ e = [state |-> e.state, bitmap |-> e.bitmap, count |-> e.count]
         /\ IsFiniteSet(e.bitmap)
         /\ e.count = Cardinality(e.bitmap)
         /\ e.count \in 0 .. N
<1>1. e \in Entry /\ o = {} /\ c = NoCopy /\ e.count = Cardinality(e.bitmap)
  BY DEF EntryInv, EntryTyped, EntryConsistent, StableConsistent, CopyIdle
<1>2. e.bitmap \in SUBSET Node
  BY <1>1 DEF Entry
<1>3. e = [state |-> e.state, bitmap |-> e.bitmap, count |-> e.count]
  BY <1>1 DEF Entry
<1> QED BY <1>1, <1>2, <1>3, NodeSets

------------------------------------------------------------------------------
(* Requests *)

\* R_READ_MISS adds a sharer, asks the owner, or is refused.
LEMMA ReadMissStep ==
  ASSUME NEW e, NEW c, NEW o, NEW e1, NEW c1, NEW o1, EntryInv(e, c, o), NEW n \in Node, Requested("R_READ_MISS", n, e, c, o, e1, c1, o1)
  PROVE  EntryInv(e1, c1, o1)
<1>1. /\ c.type = "none"
      /\ Writes(ReadMiss(e, n), e1, c1)
      /\ o1 = o \cup Owing(ReadMiss(e, n).out)
  BY DEF Requested, HandleRequest
<1>2. CASE e.state \in {"S_UNSHARED", "S_SHARED"} /\ n \notin e.bitmap
  <2>1. ReadMiss(e, n) =
          Result([state |-> "S_SHARED", bitmap |-> e.bitmap \cup {n}, count |-> Byte(e.count + 1)],
                 {ToReq("DIR_2_APP_READ_MISS_ACKDATA", n)}, NoCopy)
    BY <1>2 DEF ReadMiss
  <2>2. o1 = {} /\ c1 = NoCopy
    BY <1>1, <1>2, <2>1, StableFacts, OwingToApp DEF Result, Writes, ToApp
  <2>3. e1 = [state |-> "S_SHARED", bitmap |-> e.bitmap \cup {n}, count |-> Byte(e.count + 1)]
    BY <1>1, <2>1 DEF Result, Writes
  <2>s. /\ e.bitmap \in SUBSET Node /\ IsFiniteSet(e.bitmap)
        /\ e.count = Cardinality(e.bitmap) /\ e.count \in 0 .. N
    BY <1>2, StableFacts
  <2>4. Cardinality(e.bitmap \cup {n}) = e.count + 1
    BY <1>2, <2>s, FS_AddElement
  <2>5. e.count + 1 \in 0 .. 255
    BY <1>2, <2>4, StableFacts, NodeSets, NAssumption
  <2>6. Byte(e.count + 1) = e.count + 1
    BY <2>5, ByteFits
  <2>7. /\ e1 \in Entry /\ e1.state = "S_SHARED" /\ e1.bitmap # {}
        /\ e1.count = Cardinality(e1.bitmap)
    BY <2>s, <2>3, <2>4, <2>5, <2>6 DEF Entry, State
  <2> QED BY <2>2, <2>7, ToStable
<1>3. CASE e.state = "S_DIRTY" /\ n \notin e.bitmap
  <2>1. PICK a \in Node : e.bitmap = {a}
    BY <1>3 DEF EntryInv, EntryConsistent, StableConsistent
  <2>2. AgentNode(e) = a /\ a # n /\ e.count = 1
    BY <1>3, <2>1, AgentNodeOfOwner, StableFacts, FS_Singleton
  <2>3. ReadMiss(e, n) =
          Result([e EXCEPT !.state = "S_TO_SHARED"],
                 {[type |-> "DIR_2_AGENT_READ_MISS_DIRTY", req |-> n, agent |-> a]}, NoCopy)
    BY <1>3, <2>2 DEF ReadMiss
  <2>4. Owing({[type |-> "DIR_2_AGENT_READ_MISS_DIRTY", req |-> n, agent |-> a]}) =
          {[type |-> "AGENT_2_DIR_READ_MISS_DIRTY_ACKDATA", req |-> n, agent |-> a]}
    <3>1. AckOf("DIR_2_AGENT_READ_MISS_DIRTY") = "AGENT_2_DIR_READ_MISS_DIRTY_ACKDATA"
      BY DEF AckOf
    <3>2. "DIR_2_AGENT_READ_MISS_DIRTY" \in ToAgent
      BY DEF ToAgent
    <3> QED BY <3>1, <3>2, OwingOne
  <2>5. /\ o1 = {[type |-> "AGENT_2_DIR_READ_MISS_DIRTY_ACKDATA", req |-> n, agent |-> a]}
        /\ c1 = NoCopy
        /\ e1 = [e EXCEPT !.state = "S_TO_SHARED"]
    <3>1. o = {}
      BY <1>3, StableFacts
    <3> QED BY <1>1, <2>3, <2>4, <3>1 DEF Result, Writes
  <2>6. e1 = [state |-> "S_TO_SHARED", bitmap |-> {a}, count |-> 1]
    BY <1>3, <2>1, <2>2, <2>5, StableFacts
  <2> QED BY <2>2, <2>5, <2>6, ToHandover
<1>4. CASE ~ (e.state \in {"S_UNSHARED", "S_SHARED", "S_DIRTY"} /\ n \notin e.bitmap)
  <2>1. PICK u \in ToApp : ReadMiss(e, n) = Refuse(e, u, n)
    BY <1>4 DEF ReadMiss, MCheckFail, BitmapCheckFail, ToApp
  <2>2. Writes(Refuse(e, u, n), e1, c1) /\ o1 = o \cup Owing(Refuse(e, u, n).out)
    BY <1>1, <2>1
  <2>3. e1 = e /\ c1 = c /\ o1 = o
    BY <1>1, <2>2, Refused
  <2> QED BY <2>3
<1> QED BY <1>2, <1>3, <1>4

\* R_WRITE_MISS makes an owner, opens a round of invalidations or a handover, or
\* is refused.
LEMMA WriteMissStep ==
  ASSUME NEW e, NEW c, NEW o, NEW e1, NEW c1, NEW o1, EntryInv(e, c, o), NEW n \in Node, Requested("R_WRITE_MISS", n, e, c, o, e1, c1, o1)
  PROVE  EntryInv(e1, c1, o1)
<1>1. /\ c.type = "none"
      /\ Writes(WriteMiss(e, n), e1, c1)
      /\ o1 = o \cup Owing(WriteMiss(e, n).out)
  BY DEF Requested, HandleRequest
<1>2. CASE e.state = "S_UNSHARED" /\ n \notin e.bitmap
  <2>1. e.bitmap = {}
    BY <1>2 DEF EntryInv, EntryConsistent, StableConsistent
  <2>2. WriteMiss(e, n) =
          Result([state |-> "S_DIRTY", bitmap |-> e.bitmap \cup {n}, count |-> 1],
                 {ToReq("DIR_2_APP_WRITE_MISS_ACKDATA", n)}, NoCopy)
    BY <1>2 DEF WriteMiss
  <2>3. /\ o1 = {} /\ c1 = NoCopy
        /\ e1 = [state |-> "S_DIRTY", bitmap |-> {n}, count |-> 1]
    BY <1>1, <1>2, <2>1, <2>2, StableFacts, OwingToApp DEF Result, Writes, ToApp
  <2>4. Cardinality({n}) = 1
    BY FS_Singleton
  <2>5. /\ e1 \in Entry /\ e1.state = "S_DIRTY" /\ e1.bitmap = {n}
        /\ e1.count = Cardinality(e1.bitmap)
    BY <2>3, <2>4 DEF Entry, State
  <2> QED BY <2>3, <2>5, ToStable
<1>3. CASE e.state = "S_SHARED" /\ n \notin e.bitmap
  <2>1. WriteMiss(e, n) =
          Result([e EXCEPT !.state = "S_TO_DIRTY"], {ToReq("DIR_2_APP_WRITE_MISS_SHAREDDATA", n)},
                 [type |-> "R_WRITE_MISS", req |-> n, left |-> e.bitmap])
    BY <1>3 DEF WriteMiss
  <2>2. /\ o1 = {}
        /\ c1 = [type |-> "R_WRITE_MISS", req |-> n, left |-> e.bitmap]
        /\ e1 = [e EXCEPT !.state = "S_TO_DIRTY"]
    BY <1>1, <1>3, <2>1, StableFacts, OwingToApp DEF Result, Writes, ToApp
  <2>3. e1 = [state |-> "S_TO_DIRTY", bitmap |-> e.bitmap, count |-> e.count]
    BY <1>3, <2>2, StableFacts
  <2>4. e.bitmap \ {n} = e.bitmap /\ e.bitmap # {}
    BY <1>3 DEF EntryInv, EntryConsistent, StableConsistent
  <2>5. e.count \in 0 .. 255 /\ e.count = Cardinality(e.bitmap) /\ e.bitmap \in SUBSET Node
    BY <1>3, StableFacts, NAssumption
  <2>6. e1 \in Entry /\ c1 \in Copy
    BY <2>2, <2>3, <2>5 DEF Entry, Copy, State
  <2> QED BY <1>3, <2>2, <2>3, <2>4, <2>5, <2>6, ToInvalidation
<1>4. CASE e.state = "S_DIRTY" /\ n \notin e.bitmap
  <2>1. PICK a \in Node : e.bitmap = {a}
    BY <1>4 DEF EntryInv, EntryConsistent, StableConsistent
  <2>2. AgentNode(e) = a /\ a # n /\ e.count = 1
    BY <1>4, <2>1, AgentNodeOfOwner, StableFacts, FS_Singleton
  <2>3. WriteMiss(e, n) =
          Result([e EXCEPT !.state = "S_TO_DIRTY"],
                 {[type |-> "DIR_2_AGENT_WRITE_MISS_DIRTY", req |-> n, agent |-> a]}, NoCopy)
    BY <1>4, <2>2 DEF WriteMiss
  <2>4. Owing({[type |-> "DIR_2_AGENT_WRITE_MISS_DIRTY", req |-> n, agent |-> a]}) =
          {[type |-> "AGENT_2_DIR_WRITE_MISS_DIRTY_ACK", req |-> n, agent |-> a]}
    <3>1. AckOf("DIR_2_AGENT_WRITE_MISS_DIRTY") = "AGENT_2_DIR_WRITE_MISS_DIRTY_ACK"
      BY DEF AckOf
    <3>2. "DIR_2_AGENT_WRITE_MISS_DIRTY" \in ToAgent
      BY DEF ToAgent
    <3> QED BY <3>1, <3>2, OwingOne
  <2>5. /\ o1 = {[type |-> "AGENT_2_DIR_WRITE_MISS_DIRTY_ACK", req |-> n, agent |-> a]}
        /\ c1 = NoCopy
        /\ e1 = [e EXCEPT !.state = "S_TO_DIRTY"]
    <3>1. o = {}
      BY <1>4, StableFacts
    <3> QED BY <1>1, <2>3, <2>4, <3>1 DEF Result, Writes
  <2>6. e1 = [state |-> "S_TO_DIRTY", bitmap |-> {a}, count |-> 1]
    BY <1>4, <2>1, <2>2, <2>5, StableFacts
  <2> QED BY <2>2, <2>5, <2>6, ToHandover
<1>5. CASE ~ (e.state \in {"S_UNSHARED", "S_SHARED", "S_DIRTY"} /\ n \notin e.bitmap)
  <2>1. PICK u \in ToApp : WriteMiss(e, n) = Refuse(e, u, n)
    BY <1>5 DEF WriteMiss, MCheckFail, BitmapCheckFail, ToApp
  <2>2. Writes(Refuse(e, u, n), e1, c1) /\ o1 = o \cup Owing(Refuse(e, u, n).out)
    BY <1>1, <2>1
  <2>3. e1 = e /\ c1 = c /\ o1 = o
    BY <1>1, <2>2, Refused
  <2> QED BY <2>3
<1> QED BY <1>2, <1>3, <1>4, <1>5

\* R_WRITE_SHARED makes the only sharer the owner, opens a round of
\* invalidations of the others, or is refused.
LEMMA WriteSharedStep ==
  ASSUME NEW e, NEW c, NEW o, NEW e1, NEW c1, NEW o1, EntryInv(e, c, o), NEW n \in Node, Requested("R_WRITE_SHARED", n, e, c, o, e1, c1, o1)
  PROVE  EntryInv(e1, c1, o1)
<1>1. /\ c.type = "none"
      /\ Writes(WriteShared(e, n), e1, c1)
      /\ o1 = o \cup Owing(WriteShared(e, n).out)
  BY DEF Requested, HandleRequest
<1>2. CASE e.state = "S_SHARED" /\ n \in e.bitmap /\ e.count > 1
  <2>1. WriteShared(e, n) =
          Result([e EXCEPT !.state = "S_TO_DIRTY"], {},
                 [type |-> "R_WRITE_SHARED", req |-> n, left |-> e.bitmap])
    BY <1>2, StableFacts, NAssumption DEF WriteShared
  <2>2. /\ o1 = {}
        /\ c1 = [type |-> "R_WRITE_SHARED", req |-> n, left |-> e.bitmap]
        /\ e1 = [e EXCEPT !.state = "S_TO_DIRTY"]
    BY <1>1, <1>2, <2>1, StableFacts, OwingNone DEF Result, Writes
  <2>3. e1 = [state |-> "S_TO_DIRTY", bitmap |-> e.bitmap, count |-> e.count]
    BY <1>2, <2>2, StableFacts
  <2>4. e.count \in 0 .. 255 /\ e.count = Cardinality(e.bitmap) /\ e.bitmap \in SUBSET Node
    BY <1>2, StableFacts, NAssumption
  <2>5. e1 \in Entry /\ c1 \in Copy
    BY <2>2, <2>3, <2>4 DEF Entry, Copy, State
  <2>f. IsFiniteSet(e.bitmap)
    BY <2>4, NodeSets
  <2>6. Cardinality(e.bitmap \ {n}) = e.count - 1
    <3>1. n \in e.bitmap
      BY <1>2
    <3>2. Cardinality(e.bitmap \ {n}) = Cardinality(e.bitmap) - 1
      BY <2>f, <3>1, FS_RemoveElement
    <3> QED BY <2>4, <3>2
  <2>7. e.bitmap \ {n} # {}
    BY <1>2, <2>4, <2>6, FS_EmptySet
  <2>8. /\ e1.state = "S_TO_DIRTY" /\ e1.bitmap = e.bitmap /\ e1.count = e.count
        /\ c1.type = "R_WRITE_SHARED" /\ c1.req = n /\ c1.left = e.bitmap
    BY <2>2, <2>3
  <2>9. e1.count = Cardinality(e1.bitmap \ {c1.req}) + 1
    BY <2>4, <2>6, <2>8
  <2> QED BY <2>2, <2>5, <2>7, <2>8, <2>9, ToInvalidation
<1>3. CASE e.state = "S_SHARED" /\ n \in e.bitmap /\ e.count <= 1
  <2>1. WriteShared(e, n) =
          Result([e EXCEPT !.state = "S_DIRTY", !.count = 1],
                 {ToReq("DIR_2_APP_WRITE_SHARED_ONLYACK", n)}, NoCopy)
    BY <1>3, StableFacts, NAssumption DEF WriteShared
  <2>2. e.bitmap = {n}
    <3>1. Cardinality(e.bitmap) = 1
      BY <1>3, StableFacts, FS_EmptySet, NAssumption
    <3> QED BY <1>3, <3>1, StableFacts, FS_Singleton
  <2>3. /\ o1 = {} /\ c1 = NoCopy
        /\ e1 = [e EXCEPT !.state = "S_DIRTY", !.count = 1]
    BY <1>1, <1>3, <2>1, StableFacts, OwingToApp DEF Result, Writes, ToApp
  <2>4. e1 = [state |-> "S_DIRTY", bitmap |-> {n}, count |-> 1]
    <3>1. e = [state |-> e.state, bitmap |-> e.bitmap, count |-> e.count]
      BY <1>3, StableFacts
    <3> QED BY <2>2, <2>3, <3>1
  <2>5. Cardinality({n}) = 1
    BY FS_Singleton
  <2>6. e1 \in Entry /\ e1.count = Cardinality(e1.bitmap)
    BY <2>4, <2>5 DEF Entry, State
  <2>7. e1.state = "S_DIRTY" /\ \E a \in Node : e1.bitmap = {a}
    BY <2>4
  <2>8. o1 = {} /\ c1 = NoCopy
    BY <2>3
  <2> QED BY <2>6, <2>7, <2>8, ToStable
<1>4. CASE ~ (e.state = "S_SHARED" /\ n \in e.bitmap)
  <2>1. PICK u \in ToApp : WriteShared(e, n) = Refuse(e, u, n)
    BY <1>4 DEF WriteShared, MCheckFail, BitmapCheckFail, ToApp
  <2>2. Writes(Refuse(e, u, n), e1, c1) /\ o1 = o \cup Owing(Refuse(e, u, n).out)
    BY <1>1, <2>1
  <2>3. e1 = e /\ c1 = c /\ o1 = o
    BY <1>1, <2>2, Refused
  <2> QED BY <2>3
<1>5. e.count \in Int
  BY DEF EntryInv, EntryTyped, Entry
<1> QED BY <1>2, <1>3, <1>4, <1>5

\* R_EVICT_SHARED takes a sharer out, or is refused.
LEMMA EvictSharedStep ==
  ASSUME NEW e, NEW c, NEW o, NEW e1, NEW c1, NEW o1, EntryInv(e, c, o), NEW n \in Node, Requested("R_EVICT_SHARED", n, e, c, o, e1, c1, o1)
  PROVE  EntryInv(e1, c1, o1)
<1>1. /\ c.type = "none"
      /\ Writes(EvictShared(e, n), e1, c1)
      /\ o1 = o \cup Owing(EvictShared(e, n).out)
  BY DEF Requested, HandleRequest
<1>2. CASE e.state = "S_SHARED" /\ n \in e.bitmap
  <2> DEFINE s == IF e.count = 1 THEN "S_UNSHARED" ELSE "S_SHARED"
  <2>1. EvictShared(e, n) =
          Result([state |-> s, bitmap |-> e.bitmap \ {n}, count |-> Byte(e.count - 1)],
                 {ToReq("DIR_2_APP_EVICT_SHARED_ACK", n)}, NoCopy)
    BY <1>2 DEF EvictShared
  <2>2. /\ o1 = {} /\ c1 = NoCopy
        /\ e1 = [state |-> s, bitmap |-> e.bitmap \ {n}, count |-> Byte(e.count - 1)]
    BY <1>1, <1>2, <2>1, StableFacts, OwingToApp DEF Result, Writes, ToApp
  <2>3. Cardinality(e.bitmap \ {n}) = e.count - 1 /\ IsFiniteSet(e.bitmap \ {n})
    BY <1>2, StableFacts, FS_RemoveElement
  <2>4. e.count # 0
    BY <1>2, StableFacts, FS_EmptySet
  <2>5. e.count - 1 \in 0 .. 255
    BY <1>2, <2>4, StableFacts, NAssumption
  <2>6. Byte(e.count - 1) = e.count - 1
    BY <2>5, ByteFits
  <2>7. e.count = 1 <=> e.bitmap \ {n} = {}
    <3>1. e.count = 1 <=> Cardinality(e.bitmap \ {n}) = 0
      BY <2>3, <2>5
    <3> QED BY <2>3, <3>1, FS_EmptySet
  <2>8. e1 \in Entry
    BY <1>2, <2>2, <2>5, <2>6, StableFacts DEF Entry, State
  <2> QED BY <2>2, <2>3, <2>6, <2>7, <2>8, ToStable
<1>3. CASE ~ (e.state = "S_SHARED" /\ n \in e.bitmap)
  <2>1. PICK u \in ToApp : EvictShared(e, n) = Refuse(e, u, n)
    BY <1>3 DEF EvictShared, MCheckFail, BitmapCheckFail, ToApp
  <2>2. Writes(Refuse(e, u, n), e1, c1) /\ o1 = o \cup Owing(Refuse(e, u, n).out)
    BY <1>1, <2>1
  <2>3. e1 = e /\ c1 = c /\ o1 = o
    BY <1>1, <2>2, Refused
  <2> QED BY <2>3
<1> QED BY <1>2, <1>3

\* R_EVICT_DIRTY takes the owner out, or is refused.
LEMMA EvictDirtyStep ==
  ASSUME NEW e, NEW c, NEW o, NEW e1, NEW c1, NEW o1, EntryInv(e, c, o), NEW n \in Node, Requested("R_EVICT_DIRTY", n, e, c, o, e1, c1, o1)
  PROVE  EntryInv(e1, c1, o1)
<1>1. /\ c.type = "none"
      /\ Writes(EvictDirty(e, n), e1, c1)
      /\ o1 = o \cup Owing(EvictDirty(e, n).out)
  BY DEF Requested, HandleRequest
<1>2. CASE e.state = "S_DIRTY" /\ n \in e.bitmap
  <2>1. EvictDirty(e, n) =
          Result([state |-> "S_UNSHARED", bitmap |-> e.bitmap \ {n}, count |-> Byte(e.count - 1)],
                 {ToReq("DIR_2_APP_EVICT_DIRTY_ACK", n)}, NoCopy)
    BY <1>2 DEF EvictDirty
  <2>2. e.bitmap = {n} /\ e.count = 1
    <3>1. PICK a \in Node : e.bitmap = {a}
      BY <1>2 DEF EntryInv, EntryConsistent, StableConsistent
    <3> QED BY <1>2, <3>1, StableFacts, FS_Singleton
  <2>3. Byte(e.count - 1) = 0
    BY <2>2 DEF Byte
  <2>4. /\ o1 = {} /\ c1 = NoCopy
        /\ e1 = [state |-> "S_UNSHARED", bitmap |-> {}, count |-> 0]
    BY <1>1, <1>2, <2>1, <2>2, <2>3, StableFacts, OwingToApp DEF Result, Writes, ToApp
  <2> QED BY <2>4, ToStable, FS_EmptySet, SMTT(30) DEF Entry, State
<1>3. CASE ~ (e.state = "S_DIRTY" /\ n \in e.bitmap)
  <2>1. PICK u \in ToApp : EvictDirty(e, n) = Refuse(e, u, n)
    BY <1>3 DEF EvictDirty, MCheckFail, BitmapCheckFail, ToApp
  <2>2. Writes(Refuse(e, u, n), e1, c1) /\ o1 = o \cup Owing(Refuse(e, u, n).out)
    BY <1>1, <2>1
  <2>3. e1 = e /\ c1 = c /\ o1 = o
    BY <1>1, <2>2, Refused
  <2> QED BY <2>3
<1> QED BY <1>2, <1>3

------------------------------------------------------------------------------
(* Answers *)

\* While the copy loop rests, the nodes that have not answered are those whose
\* answer is due.
LEMMA PendingIdle ==
  ASSUME NEW e, NEW c, NEW o, EntryInv(e, c, o), c.type = "none"
  PROVE  c = NoCopy /\ ToCopy(c) = {} /\ Pending(c, o) = OwedBy(o)
BY DEF EntryInv, CopyIdle, NoCopy, ToCopy, Pending

\* The answer of an owner closes the handover.
LEMMA HandoverAck ==
  ASSUME NEW e, NEW c, NEW o, NEW e1, NEW c1, NEW o1, EntryInv(e, c, o), NEW m \in o, Answered(m, e, c, o, e1, c1, o1),
         \/ e.state = "S_TO_SHARED" /\ HandingOver(e, c, o, "AGENT_2_DIR_READ_MISS_DIRTY_ACKDATA")
         \/ e.state = "S_TO_DIRTY" /\ HandingOver(e, c, o, "AGENT_2_DIR_WRITE_MISS_DIRTY_ACK")
  PROVE  EntryInv(e1, c1, o1) /\ Closes(e, o, e1)
<1>1. PICK a \in Node, r \in Node :
        /\ a # r
        /\ e.bitmap = {a} /\ e.count = 1
        /\ \/ e.state = "S_TO_SHARED" /\ o = {[type |-> "AGENT_2_DIR_READ_MISS_DIRTY_ACKDATA", req |-> r, agent |-> a]}
           \/ e.state = "S_TO_DIRTY" /\ o = {[type |-> "AGENT_2_DIR_WRITE_MISS_DIRTY_ACK", req |-> r, agent |-> a]}
  BY DEF HandingOver
<1>2. o1 = {} /\ m.req = r /\ m.agent = a
  BY <1>1 DEF Answered
<1>3. CASE e.state = "S_TO_SHARED"
  <2>1. m.type = "AGENT_2_DIR_READ_MISS_DIRTY_ACKDATA"
    BY <1>1, <1>3
  <2>2. e1 = [state |-> "S_SHARED", bitmap |-> {a} \cup {r}, count |-> Byte(1 + 1)] /\ c1 = NoCopy
    BY <1>1, <1>2, <1>3, <2>1 DEF Answered, HandleAck, ReadMissDirtyAckdata, Writes, Result
  <2>3. Byte(1 + 1) = 2
    BY DEF Byte
  <2>4. Cardinality({a} \cup {r}) = 2
    <3>1. IsFiniteSet({a}) /\ Cardinality({a}) = 1
      BY FS_Singleton
    <3>2. Cardinality({a} \cup {r}) = Cardinality({a}) + 1
      BY <1>1, <3>1, FS_AddElement
    <3> QED BY <3>1, <3>2
  <2>5. e1 \in Entry /\ e1.count = Cardinality(e1.bitmap) /\ e1.state = "S_SHARED" /\ e1.bitmap # {}
    BY <2>2, <2>3, <2>4 DEF Entry, State
  <2>6. Closes(e, o, e1)
    BY <1>1, <1>2, <1>3, <2>2, <2>5 DEF Closes
  <2> QED BY <1>2, <2>2, <2>5, <2>6, ToStable
<1>4. CASE e.state = "S_TO_DIRTY"
  <2>1. m.type = "AGENT_2_DIR_WRITE_MISS_DIRTY_ACK"
    BY <1>1, <1>4
  <2>2. e1 = [state |-> "S_DIRTY", bitmap |-> ({a} \cup {r}) \ {a}, count |-> 1] /\ c1 = NoCopy
    BY <1>1, <1>2, <1>4, <2>1 DEF Answered, HandleAck, WriteMissDirtyAck, Writes, Result
  <2>3. ({a} \cup {r}) \ {a} = {r} /\ Cardinality({r}) = 1
    BY <1>1, FS_Singleton
  <2>4. e1 \in Entry /\ e1.count = Cardinality(e1.bitmap) /\ e1.state = "S_DIRTY"
        /\ \E x \in Node : e1.bitmap = {x}
    BY <2>2, <2>3 DEF Entry, State
  <2>5. Closes(e, o, e1)
    BY <1>1, <1>2, <1>4, <2>2, <2>3 DEF Closes
  <2> QED BY <1>2, <2>2, <2>4, <2>5, ToStable
<1> QED BY <1>1, <1>3, <1>4

\* The sharers are being invalidated for r and the copy loop rests.
Answering(e, c, o, t, x, r) ==
  /\ c.type = "none"
  /\ \A y \in o : y.type = t /\ y.req = r
  /\ r \notin Pending(c, o) /\ Pending(c, o) = e.bitmap \ {r}
  /\ e.count = Cardinality(Pending(c, o)) + x

\* What the answer m then changes: its sender is no longer pending, and if the
\* count says that it was the last one, nobody is.
AnswerEffect(e, c, o, m, t, x, r) ==
  /\ m.type = t /\ m.req = r /\ m.agent \in Pending(c, o)
  /\ IsFiniteSet(Pending(c, o)) /\ Cardinality(Pending(c, o)) \in 1 .. N
  /\ e.count = 1 + x <=> Pending(c, o) = {m.agent}
  /\ Pending(c, o) = {m.agent} => o = {m}
  /\ {y.agent : y \in o \ {m}} = Pending(c, o) \ {m.agent}

\* What an answer to an invalidation does to the entry and to the nodes pending,
\* for both kinds of invalidation.
LEMMA AnswerFacts ==
  ASSUME NEW e, NEW c, NEW o, EntryInv(e, c, o), NEW m \in o, NEW t, NEW x \in {0, 1}, NEW r \in Node, Answering(e, c, o, t, x, r)
  PROVE  AnswerEffect(e, c, o, m, t, x, r)
<1> USE DEF Answering
<1>1. /\ e.bitmap \in SUBSET Node /\ o \subseteq AckMsg
      /\ Pending(c, o) = {y.agent : y \in o}
  BY PendingIdle DEF EntryInv, EntryTyped, Entry, OwedBy
<1>2. m.type = t /\ m.req = r /\ m.agent \in Pending(c, o)
  BY <1>1
<1>3. IsFiniteSet(Pending(c, o)) /\ Cardinality(Pending(c, o)) \in 0 .. N
  BY NodeSets, <1>1
<1>4. Cardinality(Pending(c, o)) # 0
  BY <1>2, <1>3, FS_EmptySet
<1>5. Cardinality(Pending(c, o)) = 1 <=> Pending(c, o) = {m.agent}
  <2>1. Cardinality(Pending(c, o)) = 1 <=> \E z : Pending(c, o) = {z}
    BY <1>3, FS_Singleton
  <2> QED BY <1>2, <2>1
<1>6. e.count = 1 + x <=> Pending(c, o) = {m.agent}
  <2>1. Cardinality(Pending(c, o)) \in Int
    BY <1>3, NAssumption
  <2> QED BY <1>5, <2>1
<1>7. \A y \in o : y.agent = m.agent => y = m
  <2> SUFFICES ASSUME NEW y \in o, y.agent = m.agent PROVE y = m
    OBVIOUS
  <2>1. y \in AckMsg /\ m \in AckMsg
    BY <1>1
  <2>2. y.type = m.type /\ y.req = m.req
    OBVIOUS
  <2> QED BY <2>1, <2>2 DEF AckMsg
<1>8. Pending(c, o) = {m.agent} => o = {m}
  BY <1>1, <1>7
<1>9. {y.agent : y \in o \ {m}} = Pending(c, o) \ {m.agent}
  BY <1>1, <1>7
<1> QED BY <1>2, <1>3, <1>4, <1>6, <1>8, <1>9, NAssumption DEF AnswerEffect

\* What is to be shown of a step inside the invalidations for r.
LEMMA ToInvalidating ==
  ASSUME NEW e1, NEW c1, NEW o1, e1 \in Entry, e1.state = "S_TO_DIRTY",
         c1 \in Copy, CopyIdle(c1), o1 \subseteq AckMsg,
         \/ Invalidating(e1, c1, o1, "R_WRITE_MISS", "AGENT_2_DIR_WRITE_MISS_SHARED_ACK", 0)
         \/ Invalidating(e1, c1, o1, "R_WRITE_SHARED", "AGENT_2_DIR_WRITE_SHARED_NOTONLY_ACK", 1)
  PROVE  EntryInv(e1, c1, o1)
<1>1. EntryTyped(e1, c1, o1)
  BY DEF EntryTyped
<1>2. StableConsistent(e1, c1, o1)
  BY DEF StableConsistent
<1>3. TransientConsistent(e1, c1, o1)
  BY DEF TransientConsistent
<1> QED BY <1>1, <1>2, <1>3 DEF EntryInv, EntryConsistent

\* The two kinds of answer to an invalidation differ in the count that tells
\* the last one and in what the requester is sent.
LEMMA InvalidationAck ==
  ASSUME NEW e, NEW c, NEW o, NEW e1, NEW c1, NEW o1, EntryInv(e, c, o), NEW m \in o, Answered(m, e, c, o, e1, c1, o1), e.state = "S_TO_DIRTY",
         NEW q, NEW t, NEW x \in {0, 1},
         \/ q = "R_WRITE_MISS" /\ t = "AGENT_2_DIR_WRITE_MISS_SHARED_ACK" /\ x = 0
         \/ q = "R_WRITE_SHARED" /\ t = "AGENT_2_DIR_WRITE_SHARED_NOTONLY_ACK" /\ x = 1,
         Invalidating(e, c, o, q, t, x)
  PROVE  EntryInv(e1, c1, o1) /\ Closes(e, o, e1)
<1>1. PICK r \in Node :
        /\ \A y \in o : y.type = t /\ y.req = r
        /\ r \notin Pending(c, o) /\ Pending(c, o) # {} /\ Pending(c, o) = e.bitmap \ {r}
        /\ e.count = Cardinality(Pending(c, o)) + x
  BY DEF Invalidating
<1>2. /\ c.type = "none" /\ c = NoCopy
      /\ e \in Entry /\ e.bitmap \in SUBSET Node /\ e.count \in 0 .. 255
      /\ o \subseteq AckMsg
  BY PendingIdle DEF Answered, EntryInv, EntryTyped, Entry
<1>3. /\ m.type = t /\ m.req = r /\ m.agent \in Pending(c, o)
      /\ IsFiniteSet(Pending(c, o)) /\ Cardinality(Pending(c, o)) \in 1 .. N
      /\ e.count = 1 + x <=> Pending(c, o) = {m.agent}
      /\ Pending(c, o) = {m.agent} => o = {m}
      /\ {y.agent : y \in o \ {m}} = Pending(c, o) \ {m.agent}
  <2>1. Answering(e, c, o, t, x, r)
    BY <1>1, <1>2 DEF Answering
  <2>2. AnswerEffect(e, c, o, m, t, x, r)
    BY <2>1, AnswerFacts
  <2> QED BY <2>2 DEF AnswerEffect
<1> DEFINE b == (e.bitmap \cup {r}) \ {m.agent}
<1>4. b \in SUBSET Node /\ b \ {r} = Pending(c, o) \ {m.agent} /\ r \in b
  BY <1>1, <1>2, <1>3
<1>5. /\ c1 = NoCopy /\ o1 = o \ {m}
      /\ e1 = IF e.count = 1 + x
                  THEN [state |-> "S_DIRTY", bitmap |-> b, count |-> 1]
                  ELSE [state |-> "S_TO_DIRTY", bitmap |-> b, count |-> Byte(e.count - 1)]
  <2>0. Writes(HandleAck(e, t, r, m.agent), e1, c1) /\ o1 = o \ {m}
    BY <1>3 DEF Answered
  <2>1. CASE t = "AGENT_2_DIR_WRITE_MISS_SHARED_ACK" /\ x = 0
    <3>1. Writes(WriteMissSharedAck(e, r, m.agent), e1, c1)
      BY <2>0, <2>1 DEF HandleAck
    <3>2. CASE e.count = 1
      BY <2>0, <2>1, <3>1, <3>2 DEF WriteMissSharedAck, Writes, Result
    <3>3. CASE e.count # 1
      BY <2>0, <2>1, <3>1, <3>3 DEF WriteMissSharedAck, Writes, Result
    <3> QED BY <3>2, <3>3
  <2>2. CASE t = "AGENT_2_DIR_WRITE_SHARED_NOTONLY_ACK" /\ x = 1
    <3>1. Writes(WriteSharedNotonlyAck(e, r, m.agent), e1, c1)
      BY <2>0, <2>2 DEF HandleAck
    <3>2. CASE e.count = 2
      BY <2>0, <2>2, <3>1, <3>2 DEF WriteSharedNotonlyAck, Writes, Result
    <3>3. CASE e.count # 2
      BY <2>0, <2>2, <3>1, <3>3 DEF WriteSharedNotonlyAck, Writes, Result
    <3> QED BY <3>2, <3>3
  <2> QED BY <2>1, <2>2
<1>6. CASE e.count = 1 + x
  <2>1. b = {r} /\ o1 = {}
    BY <1>3, <1>4, <1>5, <1>6
  <2>2. e1 = [state |-> "S_DIRTY", bitmap |-> {r}, count |-> 1]
    BY <1>5, <1>6, <2>1
  <2>3. Cardinality({r}) = 1
    BY FS_Singleton
  <2>4. e1 \in Entry /\ e1.count = Cardinality(e1.bitmap) /\ e1.state = "S_DIRTY"
        /\ \E z \in Node : e1.bitmap = {z}
    BY <2>2, <2>3 DEF Entry, State
  <2>5. c1 = NoCopy
    BY <1>5
  <2>6. Closes(e, o, e1)
    BY <1>3, <2>2 DEF Closes
  <2> QED BY <2>1, <2>4, <2>5, <2>6, ToStable
<1>7. CASE e.count # 1 + x
  <2>1. Cardinality(Pending(c, o) \ {m.agent}) = Cardinality(Pending(c, o)) - 1
    BY <1>3, FS_RemoveElement
  <2>2. e.count - 1 = Cardinality(Pending(c, o) \ {m.agent}) + x /\ e.count - 1 \in 0 .. 255
    BY <1>1, <1>2, <1>3, <2>1, NAssumption
  <2>3. e1 = [state |-> "S_TO_DIRTY", bitmap |-> b, count |-> e.count - 1]
    BY <1>5, <1>7, <2>2, ByteFits
  <2>4. /\ OwedBy(o1) = Pending(c, o) \ {m.agent} /\ ToCopy(c1) = {} /\ Pending(c1, o1) = Pending(c, o) \ {m.agent}
        /\ c1 \in Copy /\ c1.type = "none" /\ CopyIdle(c1) /\ o1 \subseteq AckMsg
    <3>1. c1 = NoCopy /\ o1 = o \ {m} /\ o1 \subseteq AckMsg
      BY <1>2, <1>5
    <3>2. c1 \in Copy /\ c1.type = "none" /\ c1.left = {}
      BY <3>1, NAssumption DEF NoCopy, Copy, Node
    <3>3. ToCopy(c1) = {}
      BY <3>2 DEF ToCopy
    <3>4. OwedBy(o1) = Pending(c, o) \ {m.agent}
      BY <1>3, <3>1 DEF OwedBy
    <3>5. Pending(c1, o1) = OwedBy(o1) \cup ToCopy(c1)
      BY DEF Pending
    <3> QED BY <3>1, <3>2, <3>3, <3>4, <3>5 DEF CopyIdle
  <2>5. Pending(c, o) \ {m.agent} # {}
    BY <1>3, <1>7
  <2>6. e1 \in Entry /\ e1.state = "S_TO_DIRTY" /\ e1.bitmap = b
        /\ e1.count = Cardinality(Pending(c1, o1)) + x
    BY <1>4, <2>2, <2>3, <2>4 DEF Entry, State
  <2>7. \A y \in o1 : y.type = t /\ y.req = r
    BY <1>1, <1>5
  <2>8. r \notin Pending(c1, o1) /\ Pending(c1, o1) # {} /\ Pending(c1, o1) = e1.bitmap \ {r}
    BY <1>1, <1>4, <2>4, <2>5, <2>6
  <2>9. Invalidating(e1, c1, o1, q, t, x)
    BY <2>4, <2>6, <2>7, <2>8 DEF Invalidating
  <2> QED BY <2>4, <2>6, <2>9, ToInvalidating DEF Closes
<1> QED BY <1>6, <1>7

\* Every answer keeps the invariant, and leaves a transient state only to close
\* it for the requester.
LEMMA AckStep ==
  ASSUME NEW e, NEW c, NEW o, NEW e1, NEW c1, NEW o1, EntryInv(e, c, o), NEW m \in o, Answered(m, e, c, o, e1, c1, o1)
  PROVE  EntryInv(e1, c1, o1) /\ Closes(e, o, e1)
<1>1. e.state \in {"S_TO_SHARED", "S_TO_DIRTY"}
  BY DEF EntryInv, EntryTyped, Entry, State, EntryConsistent, StableConsistent
<1>2. \/ e.state = "S_TO_SHARED" /\ HandingOver(e, c, o, "AGENT_2_DIR_READ_MISS_DIRTY_ACKDATA")
      \/ e.state = "S_TO_DIRTY" /\ HandingOver(e, c, o, "AGENT_2_DIR_WRITE_MISS_DIRTY_ACK")
      \/ e.state = "S_TO_DIRTY" /\ Invalidating(e, c, o, "R_WRITE_MISS", "AGENT_2_DIR_WRITE_MISS_SHARED_ACK", 0)
      \/ e.state = "S_TO_DIRTY" /\ Invalidating(e, c, o, "R_WRITE_SHARED", "AGENT_2_DIR_WRITE_SHARED_NOTONLY_ACK", 1)
  BY <1>1 DEF EntryInv, EntryConsistent, TransientConsistent
<1> QED BY <1>2, HandoverAck, InvalidationAck

------------------------------------------------------------------------------
(* The copy loop *)

\* A cycle of the copy loop moves a node from those left to those that owe an
\* answer.
LEMMA CopyStep ==
  ASSUME NEW e, NEW c, NEW o, NEW e1, NEW c1, NEW o1, EntryInv(e, c, o), CopiedOne(e, c, o, e1, c1, o1)
  PROVE  EntryInv(e1, c1, o1) /\ e1 = e
<1>1. c \in Copy /\ c.type # "none" /\ e1 = e /\ e \in Entry /\ o \subseteq AckMsg
  BY DEF EntryInv, EntryTyped, CopiedOne
<1>2. e.state = "S_TO_DIRTY"
  <2>1. e.state \notin {"S_UNSHARED", "S_SHARED", "S_DIRTY"}
    BY <1>1 DEF EntryInv, EntryConsistent, StableConsistent
  <2>2. e.state # "S_TO_SHARED"
    BY <1>1 DEF EntryInv, EntryConsistent, TransientConsistent, HandingOver
  <2> QED BY <1>1, <2>1, <2>2 DEF Entry, State
<1>3. \/ Invalidating(e, c, o, "R_WRITE_MISS", "AGENT_2_DIR_WRITE_MISS_SHARED_ACK", 0)
      \/ Invalidating(e, c, o, "R_WRITE_SHARED", "AGENT_2_DIR_WRITE_SHARED_NOTONLY_ACK", 1)
  BY <1>1, <1>2 DEF EntryInv, EntryConsistent, TransientConsistent, HandingOver
<1>4. PICK q, t, x :
        /\ \/ q = "R_WRITE_MISS" /\ t = "AGENT_2_DIR_WRITE_MISS_SHARED_ACK" /\ x = 0
           \/ q = "R_WRITE_SHARED" /\ t = "AGENT_2_DIR_WRITE_SHARED_NOTONLY_ACK" /\ x = 1
        /\ Invalidating(e, c, o, q, t, x)
  BY <1>3
<1>5. PICK r \in Node :
        /\ \A m \in o : m.type = t /\ m.req = r
        /\ c.type = q /\ c.req = r
        /\ OwedBy(o) \cap ToCopy(c) = {} /\ r \notin Pending(c, o) /\ Pending(c, o) # {}
        /\ Pending(c, o) = e.bitmap \ {r} /\ e.count = Cardinality(Pending(c, o)) + x
  BY <1>1, <1>4 DEF Invalidating
<1>6. ASSUME c1 \in Copy, CopyIdle(c1), o1 \subseteq AckMsg,
             \A m \in o1 : m.type = t /\ m.req = r,
             c1.type \in {"none", q}, c1.type = q => c1.req = r,
             OwedBy(o1) \cap ToCopy(c1) = {}, Pending(c1, o1) = Pending(c, o)
      PROVE  EntryInv(e1, c1, o1)
  <2>1. Invalidating(e1, c1, o1, q, t, x)
    BY <1>1, <1>5, <1>6 DEF Invalidating
  <2> QED BY <1>1, <1>2, <1>4, <1>6, <2>1, ToInvalidating
<1>7. CASE c.left = {}
  <2>1. c1 = NoCopy /\ o1 = o
    BY <1>7, OwingNone DEF CopiedOne, CopyNext, CopyOut
  <2>2. c1 \in Copy /\ c1.type = "none" /\ c1.left = {} /\ CopyIdle(c1)
    BY <2>1, NAssumption DEF NoCopy, Copy, Node, CopyIdle
  <2>3. OwedBy(o1) = OwedBy(o) /\ ToCopy(c1) = {} /\ ToCopy(c) = {}
    BY <1>7, <2>1, <2>2 DEF OwedBy, ToCopy
  <2>4. Pending(c1, o1) = Pending(c, o)
    BY <2>3 DEF Pending
  <2>5. c1.type # q
    BY <1>4, <2>2
  <2> QED BY <1>1, <1>5, <1>6, <2>1, <2>2, <2>3, <2>4, <2>5
<1>8. CASE c.left # {}
  <2> DEFINE l == LastLeft(c)
  <2>1. l \in c.left /\ l \in Node
    BY <1>1, <1>8, LastLeftIn DEF Copy
  <2>2. c1 = [c EXCEPT !.left = @ \ {l}]
    BY <1>8 DEF CopiedOne, CopyNext
  <2>3. c1 \in Copy /\ c1.type = q /\ c1.req = r /\ c1.left = c.left \ {l} /\ CopyIdle(c1)
    BY <1>1, <1>5, <2>2 DEF Copy, CopyIdle
  <2>4. CASE c.type = "R_WRITE_SHARED" /\ l = c.req
    <3>1. o1 = o
      BY <2>4, OwingNone DEF CopiedOne, CopyOut
    <3>2. OwedBy(o1) = OwedBy(o) /\ ToCopy(c1) = ToCopy(c)
      BY <1>5, <2>3, <2>4, <3>1 DEF OwedBy, ToCopy
    <3>3. Pending(c1, o1) = Pending(c, o)
      BY <3>2 DEF Pending
    <3> QED BY <1>1, <1>5, <1>6, <2>3, <3>1, <3>2, <3>3
  <2>5. CASE ~ (c.type = "R_WRITE_SHARED" /\ l = c.req)
    <3> DEFINE u == IF c.type = "R_WRITE_MISS" THEN "DIR_2_AGENT_WRITE_MISS_SHARED"
                    ELSE "DIR_2_AGENT_WRITE_SHARED_NOTONLY"
               a == [type |-> t, req |-> r, agent |-> l]
    <3>1. CopyOut(c) = {[type |-> u, req |-> r, agent |-> l]}
      BY <1>5, <1>8, <2>5 DEF CopyOut
    <3>2. u \in ToAgent /\ AckOf(u) = t
      BY <1>4, <1>5 DEF ToAgent, AckOf
    <3>3. o1 = o \cup {a}
      <4> HIDE DEF u, l
      <4> QED BY <3>1, <3>2, OwingOne, ZenonT(60) DEF CopiedOne
    <3>4. a \in AckMsg /\ a.type = t /\ a.req = r /\ a.agent = l
      BY <1>4, <2>1 DEF AckMsg, Ack
    <3>5. OwedBy(o1) = OwedBy(o) \cup {l}
      BY <3>3, <3>4 DEF OwedBy
    <3>6. l \in ToCopy(c) /\ ToCopy(c1) = ToCopy(c) \ {l}
      BY <1>5, <2>1, <2>3, <2>5 DEF ToCopy
    <3>7. Pending(c1, o1) = Pending(c, o) /\ OwedBy(o1) \cap ToCopy(c1) = {}
      BY <1>5, <3>5, <3>6 DEF Pending
    <3>8. o1 \subseteq AckMsg /\ \A m \in o1 : m.type = t /\ m.req = r
      BY <1>1, <1>5, <3>3, <3>4
    <3> QED BY <1>1, <1>6, <2>3, <3>7, <3>8
  <2> QED BY <2>4, <2>5
<1> QED BY <1>1, <1>7, <1>8

------------------------------------------------------------------------------
(* The handler as a whole *)

\* A request that arrives in a transient state is refused.
LEMMA TransientRefuses ==
  ASSUME NEW e, NEW c, NEW o, NEW e1, NEW c1, NEW o1, NEW t \in Request, NEW n \in Node,
         Requested(t, n, e, c, o, e1, c1, o1),
         e.state \in {"S_TO_SHARED", "S_TO_DIRTY"}
  PROVE  e1 = e
<1>1. HandleRequest(e, t, n) = MCheckFail(e, n)
  BY DEF Request, HandleRequest, ReadMiss, WriteMiss, WriteShared, EvictShared, EvictDirty
<1> QED BY <1>1 DEF Requested, Writes, MCheckFail, Refuse, Result

\* Every request keeps the invariant and leaves a transient entry alone.
LEMMA RequestStep ==
  ASSUME NEW e, NEW c, NEW o, NEW e1, NEW c1, NEW o1, EntryInv(e, c, o),
         NEW t \in Request, NEW n \in Node, Requested(t, n, e, c, o, e1, c1, o1)
  PROVE  EntryInv(e1, c1, o1) /\ Closes(e, o, e1)
<1>1. EntryInv(e1, c1, o1)
  BY ReadMissStep, WriteMissStep, WriteSharedStep, EvictSharedStep, EvictDirtyStep DEF Request
<1>2. Closes(e, o, e1)
  BY TransientRefuses DEF Closes
<1> QED BY <1>1, <1>2

\* The entry that INIT_DIR writes satisfies the invariant.
LEMMA InitEntry ==
  EntryInv([state |-> "S_UNSHARED", bitmap |-> {}, count |-> 0], NoCopy, {})
<1> DEFINE e == [state |-> "S_UNSHARED", bitmap |-> {}, count |-> 0]
<1>1. e.state = "S_UNSHARED" /\ e.bitmap = {} /\ e.count = 0
  OBVIOUS
<1>2. NoCopy \in Copy /\ NoCopy.type = "none"
  BY NAssumption DEF NoCopy, Copy, Node
<1>3. EntryTyped(e, NoCopy, {}) /\ CopyIdle(NoCopy)
  BY <1>1, <1>2 DEF EntryTyped, Entry, State, CopyIdle
<1> HIDE DEF e
<1>4. StableConsistent(e, NoCopy, {})
  BY <1>1, <1>2, FS_EmptySet DEF StableConsistent
<1>5. TransientConsistent(e, NoCopy, {})
  BY <1>1 DEF TransientConsistent
<1>6. EntryInv(e, NoCopy, {})
  BY <1>3, <1>4, <1>5 DEF EntryInv, EntryConsistent
<1> QED BY <1>6 DEF e
==============================================================================
