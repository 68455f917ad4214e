---------------------------- MODULE Protocol_proofs ---------------------------
(****************************************************************************)
(* What a node and the directory know of each other: the proofs of the      *)
(* coherence protocol's safety properties, for any number of nodes and one  *)
(* cache agent per node.  Coherence_proofs, which holds for any number of   *)
(* agents, says what is on the network; here follows the invariant that     *)
(* relates a line's word, the place of its thread and the directory's entry.*)
(* With two agents Agreement fails (run coherence_two_agents).              *)
(****************************************************************************)
EXTENDS Coherence_proofs

------------------------------------------------------------------------------
(* The second part of the invariant, with one cache agent per node: what a   *)
(* node and the directory know of each other.                                *)

\* The node that a write or a handover is under way for.
Wanted(c, o, n) == (c.type # "none" /\ c.req = n) \/ \E m \in o : m.req = n

\* The copy that the directory reckons node n to have once all that is under way
\* has arrived.
KnownIn(e, c, o, n) ==
  CASE e.state = "S_UNSHARED" -> "INVALID"
    [] e.state = "S_SHARED" -> IF n \in e.bitmap THEN "SHARED" ELSE "INVALID"
    [] e.state = "S_DIRTY" -> IF n \in e.bitmap THEN "MODIFIED" ELSE "INVALID"
    [] e.state = "S_TO_SHARED" -> IF n \in e.bitmap \/ Wanted(c, o, n) THEN "SHARED" ELSE "INVALID"
    [] e.state = "S_TO_DIRTY" -> IF Wanted(c, o, n) THEN "MODIFIED"
                                 ELSE IF n \in ToCopy(c) THEN "SHARED" ELSE "INVALID"

Known(n) == KnownIn(entry, copy, Owed, n)

\* What a thread may be waiting for: its request, an answer to it, an order to
\* the owner that the owner's FPGA will answer, a round of invalidations.
Asked(u) == Types(u) \cap Request

Replies(d, p, q) == (Types(d) \cap ToApp) \cup Types(p) \cup Types(q)

OrdersFor(n) == {t \in {ReadOrder, WriteOrder} :
                   \E a \in Node : \E m \in Range(down[a]) : m.type = t /\ m.req = n}

MissAck == "AGENT_2_DIR_WRITE_MISS_SHARED_ACK"
SharedAck == "AGENT_2_DIR_WRITE_SHARED_NOTONLY_ACK"

Round(c, o, q, t, n) == (c.type = q /\ c.req = n) \/ \E m \in o : m.type = t /\ m.req = n

RoundsIn(c, o, n) == (IF Round(c, o, "R_WRITE_MISS", MissAck, n) THEN {MissAck} ELSE {})
                     \cup (IF Round(c, o, "R_WRITE_SHARED", SharedAck, n) THEN {SharedAck} ELSE {})

Tokens(n) == Asked(up[n]) \cup Replies(down[n], peer[n], appQ[n]) \cup OrdersFor(n)
             \cup RoundsIn(copy, Owed, n)

\* No message is there twice.
Distinct(q) == \A i, j \in DOMAIN q : q[i].type = q[j].type => i = j

Once(u, d, p, q) ==
  /\ Distinct(u) /\ Distinct(d) /\ Distinct(p) /\ Distinct(q)
  /\ Types(d) \cap Types(q) = {}
  /\ Types(p) \cap Types(q) = {}

\* The states of the application thread.
InMiss == {"wait", "spin", "fail", "won"}
InEvict == {"evStart", "evLock", "evWait", "evCas", "evSpin"}
EvictAck == {"DIR_2_APP_EVICT_SHARED_ACK", "DIR_2_APP_EVICT_DIRTY_ACK"}

Flag(l) == IF l.fl THEN "set" ELSE "clear"

\* The thread's place p and operation o, the kind v of eviction, and the flags
\* and states of the line (lf, ls) and of the shadow line (sf, ss) go together.
Shape(p, o, v, lf, ls, sf, ss) ==
  /\ p \in ThreadPc \ {"assert"}
  /\ lf \in {"set", "clear"} /\ sf \in {"set", "clear"}
  /\ ls \in LineStatus /\ ss \in ShadStatus
  /\ lf = "set" => ls \in {"TO_SHARED", "TO_MODIFIED"}
  /\ sf = "set" => ss \in {"TO_SHARED", "TO_PRESERVED"}
  /\ ls # "NONE" => ss = "PRESERVED"
  /\ ls \in {"TO_SHARED", "TO_MODIFIED"} <=> p \in InMiss
  /\ p \in InMiss => o \in {"readMiss", "writeMiss", "writeShared"} /\ ls = Transient(o)
  /\ p \in {"look", "access"} => o \in {"read", "write"}
  /\ ss # "PRESERVED" <=> p \in InEvict
  /\ p = "evStart" => ss \in {"INVALID", "SHARED", "MODIFIED"}
  /\ p \in InEvict \ {"evStart"} =>
       /\ ss \in {"TO_SHARED", "TO_PRESERVED"}
       /\ v \in {"EVICT_SHARED", "EVICT_DIRTY"}
       /\ ss = "TO_SHARED" => v = "EVICT_DIRTY"
  /\ p = "spin" => o = "writeShared"

\* What the thread waits for is under way, exactly once: T are the tokens and g
\* the replies it has received.
Expects(p, o, g, v, T) ==
  /\ p = "wait" /\ o = "readMiss" =>
       /\ g = {}
       /\ \/ T = {"R_READ_MISS"} \/ T = {ReadOrder} \/ T = {"DIR_2_APP_M_CHECK_FAIL"}
          \/ T = {"DIR_2_APP_READ_MISS_ACKDATA"} \/ T = {"AGENT_2_APP_READ_MISS_DIRTY_ACKDATA"}
  /\ p = "wait" /\ o = "writeMiss" =>
       \/ /\ g = {}
          /\ \/ T = {"R_WRITE_MISS"} \/ T = {WriteOrder} \/ T = {"DIR_2_APP_M_CHECK_FAIL"}
             \/ T = {"DIR_2_APP_WRITE_MISS_ACKDATA"} \/ T = {"AGENT_2_APP_WRITE_MISS_DIRTY_ACKDATA"}
             \/ T = {MissAck, "DIR_2_APP_WRITE_MISS_SHAREDDATA"} \/ T = Partial
       \/ /\ g = {"DIR_2_APP_WRITE_MISS_SHAREDDATA"}
          /\ T = {MissAck} \/ T = {"DIR_2_APP_WRITE_MISS_SHARED_AGGACK_ACK"}
       \/ /\ g = {"DIR_2_APP_WRITE_MISS_SHARED_AGGACK_ACK"}
          /\ T = {"DIR_2_APP_WRITE_MISS_SHAREDDATA"}
  /\ p = "wait" /\ o = "writeShared" =>
       /\ g = {}
       /\ \/ T = {"R_WRITE_SHARED"} \/ T = {SharedAck}
          \/ T = {"DIR_2_APP_M_CHECK_FAIL"} \/ T = {"DIR_2_APP_BITMAP_CHECK_FAIL"}
          \/ T = {"DIR_2_APP_WRITE_SHARED_ONLYACK"} \/ T = {"DIR_2_APP_WRITE_SHARED_NOTONLY_AGGACK_ACK"}
  /\ p = "evWait" =>
       \/ v = "EVICT_SHARED" /\ T = {"R_EVICT_SHARED"}
       \/ v # "EVICT_SHARED" /\ T = {"R_EVICT_DIRTY"}
       \/ T = {"DIR_2_APP_M_CHECK_FAIL"} \/ T = {"DIR_2_APP_BITMAP_CHECK_FAIL"}
       \/ T = {"DIR_2_APP_EVICT_SHARED_ACK"} \/ T = {"DIR_2_APP_EVICT_DIRTY_ACK"}
  /\ p \notin {"wait", "evWait"} => T = {}

\* The directory has granted what the thread asked for.
Granted(p, T) == p = "won" \/ (p = "wait" /\ T \cap (Request \cup Refusal) = {})

\* The copy that the node has, or has been granted.
Has(p, o, v, lf, ls, sf, ss, T) ==
  IF lf = "set" \/ sf = "set" THEN "INVALID"
  ELSE IF ss = "TO_SHARED" THEN "SHARED"
  ELSE IF ss = "TO_PRESERVED"
    THEN IF T \cap EvictAck # {} THEN "INVALID" ELSE IF v = "EVICT_SHARED" THEN "SHARED" ELSE "MODIFIED"
  ELSE IF ss # "PRESERVED" THEN ss
  ELSE IF ls = "NONE" THEN "INVALID"
  ELSE IF ls = "TO_SHARED" THEN IF Granted(p, T) THEN "SHARED" ELSE "INVALID"
  ELSE IF ls = "TO_MODIFIED"
    THEN IF Granted(p, T) THEN "MODIFIED" ELSE IF o = "writeShared" THEN "SHARED" ELSE "INVALID"
  ELSE ls

\* The directory's view K and the node's copy h differ by exactly what the
\* orders D, which the node's agent has not acted on yet, will change.
Agrees(h, D, K) ==
  \/ D = {} /\ h = K
  \/ D = {ReadOrder} /\ h = "MODIFIED" /\ K = "SHARED"
  \/ D = {WriteOrder} /\ h = "MODIFIED" /\ K = "INVALID"
  \/ \E w \in Invalidation : /\ \/ D = {w} /\ h = "SHARED"
                                \/ D = {ReadOrder, w} /\ h = "MODIFIED"
                             /\ K = "INVALID"

NodeOK(p, o, g, v, lf, ls, sf, ss, T, D, K) ==
  /\ Shape(p, o, v, lf, ls, sf, ss)
  /\ Expects(p, o, g, v, T)
  /\ Agrees(Has(p, o, v, lf, ls, sf, ss, T), D, K)
  /\ lf = "set" => Granted(p, T) \/ o = "writeShared"
  /\ T \cap EvictAck # {} => sf = "clear" /\ ss = "TO_PRESERVED"
  /\ p \in {"spin", "evSpin"} \/ "DIR_2_APP_BITMAP_CHECK_FAIL" \in T => K = "INVALID"

\* The orders d on their way, those in the queue q of the node's agent, and the
\* one, a, that it is working on.
Mail(a, q, d) == d \cup Types(q) \cup (IF a.type = "none" THEN {} ELSE {a.type})

\* They pass through one by one, and the one that asks an owner for the block
\* comes first.
AgentOK(a, q, d, ls, ss) ==
  /\ Distinct(q)
  /\ Types(q) \cap d = {}
  /\ a.type \notin Types(q) \cup d
  /\ a.type = "none" <=> a.at = "none"
  /\ a.at \in {"none", "line", "shad"}
  /\ a.at = "line" => ls # "NONE"
  /\ a.at = "shad" => ss # "PRESERVED"
  /\ ReadOrder \in d => Types(q) = {} /\ a.type = "none"
  /\ \A i \in DOMAIN q : q[i].type = ReadOrder => i = 1 /\ a.type = "none"

NodeInv(n) ==
  /\ Once(up[n], down[n], peer[n], appQ[n])
  /\ AgentOK(agent[n][0], sysQ[n][0], Types(down[n]) \cap ToAgent, line[n].st, shad[n].st)
  /\ NodeOK(pc[n], op[n], got[n], evType[n], Flag(line[n]), line[n].st, Flag(shad[n]), shad[n].st,
            Tokens(n), Mail(agent[n][0], sysQ[n][0], Types(down[n]) \cap ToAgent), Known(n))

ProtocolInv == \A n \in Node : NodeInv(n)

\* What an agent does to the flag f and the state s of a line on an order t.
Cas(t, f, s, f1, s1) ==
  \/ s = "PRESERVED" /\ f1 = f /\ s1 = s
  \/ t \in Invalidation /\ f = "clear" /\ s = "SHARED" /\ f1 = "clear" /\ s1 = "INVALID"
  \/ t = ReadOrder /\ f = "clear" /\ s = "MODIFIED" /\ f1 = "clear" /\ s1 = "SHARED"
  \/ t = ReadOrder /\ f = "clear" /\ s = "TO_PRESERVED" /\ f1 = "clear" /\ s1 = "TO_SHARED"
  \/ t = WriteOrder /\ f = "clear" /\ s = "MODIFIED" /\ f1 = "clear" /\ s1 = "INVALID"
  \/ t # ReadOrder /\ f = "clear" /\ s \in {"TO_MODIFIED", "TO_SHARED", "TO_PRESERVED"} /\ f1 = "set" /\ s1 = s

\* What a thread does to its line when a miss is over.
After(p, o, lf) ==
  IF lf = "set" THEN "INVALID"
  ELSE IF p = "won" THEN IF o = "readMiss" THEN "SHARED" ELSE "MODIFIED"
  ELSE IF o = "writeShared" THEN "SHARED" ELSE "INVALID"

\* What a request t becomes at the directory when n had the copy K: the tokens T1 and
\* the copy K1.
Outcome(t, K, T1, K1) ==
  \/ T1 = {"DIR_2_APP_M_CHECK_FAIL"} /\ K1 = K
  \/ T1 = {"DIR_2_APP_BITMAP_CHECK_FAIL"} /\ K1 = K
     /\ (K # "INVALID" <=> t \in {"R_READ_MISS", "R_WRITE_MISS"})
  \/ t = "R_READ_MISS" /\ K = "INVALID" /\ K1 = "SHARED"
     /\ (T1 = {"DIR_2_APP_READ_MISS_ACKDATA"} \/ T1 = {ReadOrder})
  \/ t = "R_WRITE_MISS" /\ K = "INVALID" /\ K1 = "MODIFIED"
     /\ (T1 = {"DIR_2_APP_WRITE_MISS_ACKDATA"} \/ T1 = {WriteOrder} \/ T1 = {MissAck, "DIR_2_APP_WRITE_MISS_SHAREDDATA"})
  \/ t = "R_WRITE_SHARED" /\ K = "SHARED" /\ K1 = "MODIFIED"
     /\ (T1 = {"DIR_2_APP_WRITE_SHARED_ONLYACK"} \/ T1 = {SharedAck})
  \/ t = "R_EVICT_SHARED" /\ K = "SHARED" /\ K1 = "INVALID" /\ T1 = {"DIR_2_APP_EVICT_SHARED_ACK"}
  \/ t = "R_EVICT_DIRTY" /\ K = "MODIFIED" /\ K1 = "INVALID" /\ T1 = {"DIR_2_APP_EVICT_DIRTY_ACK"}

------------------------------------------------------------------------------
(* What keeps NodeOK, step by step: every step changes the thread's place,   *)
(* the words of its lines, the tokens, the orders or the directory's view so  *)
(* that the copy the node has and the one it is reckoned to have still agree. *)

\* A call of readLine or writeLine.
LEMMA OkBegin ==
  ASSUME NEW p, NEW o, NEW g, NEW v, NEW lf, NEW ls, NEW sf, NEW ss, NEW T, NEW D, NEW K,
         NodeOK(p, o, g, v, lf, ls, sf, ss, T, D, K), NEW x,
         p = "idle",
         x \in {"read", "write"}
  PROVE  NodeOK("look", x, g, v, lf, ls, sf, ss, T, D, K)
<1> USE DEF InMiss, InEvict
<1>1. Shape(p, o, v, lf, ls, sf, ss) /\ Expects(p, o, g, v, T)
  BY DEF NodeOK
<1>2. Shape("look", x, v, lf, ls, sf, ss)
  BY <1>1 DEF Shape, ThreadPc, InMiss, InEvict, LineStatus, ShadStatus, Transient
<1>3. Expects("look", x, g, v, T)
  BY <1>1 DEF Expects, Shape
<1>4. Has("look", x, v, lf, ls, sf, ss, T) = Has(p, o, v, lf, ls, sf, ss, T)
  BY <1>1 DEF Has, Granted, Shape, ThreadPc, LineStatus, ShadStatus, Transient, Expects, EvictAck, Request, Refusal
<1>5. /\ lf = "set" => Granted("look", T) \/ x = "writeShared"
      /\ T \cap EvictAck # {} => sf = "clear" /\ ss = "TO_PRESERVED"
      /\ "look" \in {"spin", "evSpin"} \/ "DIR_2_APP_BITMAP_CHECK_FAIL" \in T => K = "INVALID"
  BY <1>1 DEF NodeOK, Granted, Shape, Expects, EvictAck, Request, Refusal
<1> QED BY <1>2, <1>3, <1>4, <1>5 DEF NodeOK

\* newLine.
LEMMA OkNewLine ==
  ASSUME NEW p, NEW o, NEW g, NEW v, NEW lf, NEW ls, NEW sf, NEW ss, NEW T, NEW D, NEW K,
         NodeOK(p, o, g, v, lf, ls, sf, ss, T, D, K),
         p = "look",
         ls = "NONE",
         ss = "PRESERVED"
  PROVE  NodeOK(p, o, g, v, "clear", "INVALID", sf, ss, T, D, K)
<1> USE DEF InMiss, InEvict
<1>1. Shape(p, o, v, lf, ls, sf, ss) /\ Expects(p, o, g, v, T)
  BY DEF NodeOK
<1>2. Shape(p, o, v, "clear", "INVALID", sf, ss)
  BY <1>1 DEF Shape, ThreadPc, InMiss, InEvict, LineStatus, ShadStatus, Transient
<1>3. Expects(p, o, g, v, T)
  BY <1>1 DEF Expects, Shape
<1>4. Has(p, o, v, "clear", "INVALID", sf, ss, T) = Has(p, o, v, lf, ls, sf, ss, T)
  BY <1>1 DEF Has, Granted, Shape, ThreadPc, LineStatus, ShadStatus, Transient, Expects, EvictAck, Request, Refusal
<1>5. /\ "clear" = "set" => Granted(p, T) \/ o = "writeShared"
      /\ T \cap EvictAck # {} => sf = "clear" /\ ss = "TO_PRESERVED"
      /\ p \in {"spin", "evSpin"} \/ "DIR_2_APP_BITMAP_CHECK_FAIL" \in T => K = "INVALID"
  BY <1>1 DEF NodeOK, Granted, Shape, Expects, EvictAck, Request, Refusal
<1> QED BY <1>2, <1>3, <1>4, <1>5 DEF NodeOK

\* A hit.
LEMMA OkHit ==
  ASSUME NEW p, NEW o, NEW g, NEW v, NEW lf, NEW ls, NEW sf, NEW ss, NEW T, NEW D, NEW K,
         NodeOK(p, o, g, v, lf, ls, sf, ss, T, D, K),
         p = "look"
  PROVE  NodeOK("access", o, g, v, lf, ls, sf, ss, T, D, K)
<1> USE DEF InMiss, InEvict
<1>1. Shape(p, o, v, lf, ls, sf, ss) /\ Expects(p, o, g, v, T)
  BY DEF NodeOK
<1>2. Shape("access", o, v, lf, ls, sf, ss)
  BY <1>1 DEF Shape, ThreadPc, InMiss, InEvict, LineStatus, ShadStatus, Transient
<1>3. Expects("access", o, g, v, T)
  BY <1>1 DEF Expects, Shape
<1>4. Has("access", o, v, lf, ls, sf, ss, T) = Has(p, o, v, lf, ls, sf, ss, T)
  BY <1>1 DEF Has, Granted, Shape, ThreadPc, LineStatus, ShadStatus, Transient, Expects, EvictAck, Request, Refusal
<1>5. /\ lf = "set" => Granted("access", T) \/ o = "writeShared"
      /\ T \cap EvictAck # {} => sf = "clear" /\ ss = "TO_PRESERVED"
      /\ "access" \in {"spin", "evSpin"} \/ "DIR_2_APP_BITMAP_CHECK_FAIL" \in T => K = "INVALID"
  BY <1>1 DEF NodeOK, Granted, Shape, Expects, EvictAck, Request, Refusal
<1> QED BY <1>2, <1>3, <1>4, <1>5 DEF NodeOK

\* The access.
LEMMA OkAccess ==
  ASSUME NEW p, NEW o, NEW g, NEW v, NEW lf, NEW ls, NEW sf, NEW ss, NEW T, NEW D, NEW K,
         NodeOK(p, o, g, v, lf, ls, sf, ss, T, D, K),
         p = "access"
  PROVE  NodeOK("idle", "none", g, v, lf, ls, sf, ss, T, D, K)
<1> USE DEF InMiss, InEvict
<1>1. Shape(p, o, v, lf, ls, sf, ss) /\ Expects(p, o, g, v, T)
  BY DEF NodeOK
<1>2. Shape("idle", "none", v, lf, ls, sf, ss)
  BY <1>1 DEF Shape, ThreadPc, InMiss, InEvict, LineStatus, ShadStatus, Transient
<1>3. Expects("idle", "none", g, v, T)
  BY <1>1 DEF Expects, Shape
<1>4. Has("idle", "none", v, lf, ls, sf, ss, T) = Has(p, o, v, lf, ls, sf, ss, T)
  BY <1>1 DEF Has, Granted, Shape, ThreadPc, LineStatus, ShadStatus, Transient, Expects, EvictAck, Request, Refusal
<1>5. /\ lf = "set" => Granted("idle", T) \/ "none" = "writeShared"
      /\ T \cap EvictAck # {} => sf = "clear" /\ ss = "TO_PRESERVED"
      /\ "idle" \in {"spin", "evSpin"} \/ "DIR_2_APP_BITMAP_CHECK_FAIL" \in T => K = "INVALID"
  BY <1>1 DEF NodeOK, Granted, Shape, Expects, EvictAck, Request, Refusal
<1> QED BY <1>2, <1>3, <1>4, <1>5 DEF NodeOK

\* A read miss.
LEMMA OkStartRead ==
  ASSUME NEW p, NEW o, NEW g, NEW v, NEW lf, NEW ls, NEW sf, NEW ss, NEW T, NEW D, NEW K,
         NodeOK(p, o, g, v, lf, ls, sf, ss, T, D, K),
         p = "look",
         lf = "clear",
         ls = "INVALID"
  PROVE  NodeOK("wait", "readMiss", {}, v, "clear", "TO_SHARED", sf, ss, {"R_READ_MISS"}, D, K)
<1> USE DEF InMiss, InEvict
<1>1. Shape(p, o, v, lf, ls, sf, ss) /\ Expects(p, o, g, v, T)
  BY DEF NodeOK
<1>2. Shape("wait", "readMiss", v, "clear", "TO_SHARED", sf, ss)
  BY <1>1 DEF Shape, ThreadPc, InMiss, InEvict, LineStatus, ShadStatus, Transient
<1>3. Expects("wait", "readMiss", {}, v, {"R_READ_MISS"})
  BY <1>1 DEF Expects, Shape
<1>4. Has("wait", "readMiss", v, "clear", "TO_SHARED", sf, ss, {"R_READ_MISS"}) = Has(p, o, v, lf, ls, sf, ss, T)
  BY <1>1 DEF Has, Granted, Shape, ThreadPc, LineStatus, ShadStatus, Transient, Expects, EvictAck, Request, Refusal
<1>5. /\ "clear" = "set" => Granted("wait", {"R_READ_MISS"}) \/ "readMiss" = "writeShared"
      /\ {"R_READ_MISS"} \cap EvictAck # {} => sf = "clear" /\ ss = "TO_PRESERVED"
      /\ "wait" \in {"spin", "evSpin"} \/ "DIR_2_APP_BITMAP_CHECK_FAIL" \in {"R_READ_MISS"} => K = "INVALID"
  BY <1>1 DEF NodeOK, Granted, Shape, Expects, EvictAck, Request, Refusal
<1> QED BY <1>2, <1>3, <1>4, <1>5 DEF NodeOK

\* A write to a shared line.
LEMMA OkStartShared ==
  ASSUME NEW p, NEW o, NEW g, NEW v, NEW lf, NEW ls, NEW sf, NEW ss, NEW T, NEW D, NEW K,
         NodeOK(p, o, g, v, lf, ls, sf, ss, T, D, K),
         p = "look",
         lf = "clear",
         ls = "SHARED"
  PROVE  NodeOK("wait", "writeShared", {}, v, "clear", "TO_MODIFIED", sf, ss, {"R_WRITE_SHARED"}, D, K)
<1> USE DEF InMiss, InEvict
<1>1. Shape(p, o, v, lf, ls, sf, ss) /\ Expects(p, o, g, v, T)
  BY DEF NodeOK
<1>2. Shape("wait", "writeShared", v, "clear", "TO_MODIFIED", sf, ss)
  BY <1>1 DEF Shape, ThreadPc, InMiss, InEvict, LineStatus, ShadStatus, Transient
<1>3. Expects("wait", "writeShared", {}, v, {"R_WRITE_SHARED"})
  BY <1>1 DEF Expects, Shape
<1>4. Has("wait", "writeShared", v, "clear", "TO_MODIFIED", sf, ss, {"R_WRITE_SHARED"}) = Has(p, o, v, lf, ls, sf, ss, T)
  BY <1>1 DEF Has, Granted, Shape, ThreadPc, LineStatus, ShadStatus, Transient, Expects, EvictAck, Request, Refusal
<1>5. /\ "clear" = "set" => Granted("wait", {"R_WRITE_SHARED"}) \/ "writeShared" = "writeShared"
      /\ {"R_WRITE_SHARED"} \cap EvictAck # {} => sf = "clear" /\ ss = "TO_PRESERVED"
      /\ "wait" \in {"spin", "evSpin"} \/ "DIR_2_APP_BITMAP_CHECK_FAIL" \in {"R_WRITE_SHARED"} => K = "INVALID"
  BY <1>1 DEF NodeOK, Granted, Shape, Expects, EvictAck, Request, Refusal
<1> QED BY <1>2, <1>3, <1>4, <1>5 DEF NodeOK

\* A write miss.
LEMMA OkStartWrite ==
  ASSUME NEW p, NEW o, NEW g, NEW v, NEW lf, NEW ls, NEW sf, NEW ss, NEW T, NEW D, NEW K,
         NodeOK(p, o, g, v, lf, ls, sf, ss, T, D, K),
         p = "look",
         lf = "clear",
         ls = "INVALID"
  PROVE  NodeOK("wait", "writeMiss", {}, v, "clear", "TO_MODIFIED", sf, ss, {"R_WRITE_MISS"}, D, K)
<1> USE DEF InMiss, InEvict
<1>1. Shape(p, o, v, lf, ls, sf, ss) /\ Expects(p, o, g, v, T)
  BY DEF NodeOK
<1>2. Shape("wait", "writeMiss", v, "clear", "TO_MODIFIED", sf, ss)
  BY <1>1 DEF Shape, ThreadPc, InMiss, InEvict, LineStatus, ShadStatus, Transient
<1>3. Expects("wait", "writeMiss", {}, v, {"R_WRITE_MISS"})
  BY <1>1 DEF Expects, Shape
<1>4. Has("wait", "writeMiss", v, "clear", "TO_MODIFIED", sf, ss, {"R_WRITE_MISS"}) = Has(p, o, v, lf, ls, sf, ss, T)
  BY <1>1 DEF Has, Granted, Shape, ThreadPc, LineStatus, ShadStatus, Transient, Expects, EvictAck, Request, Refusal
<1>5. /\ "clear" = "set" => Granted("wait", {"R_WRITE_MISS"}) \/ "writeMiss" = "writeShared"
      /\ {"R_WRITE_MISS"} \cap EvictAck # {} => sf = "clear" /\ ss = "TO_PRESERVED"
      /\ "wait" \in {"spin", "evSpin"} \/ "DIR_2_APP_BITMAP_CHECK_FAIL" \in {"R_WRITE_MISS"} => K = "INVALID"
  BY <1>1 DEF NodeOK, Granted, Shape, Expects, EvictAck, Request, Refusal
<1> QED BY <1>2, <1>3, <1>4, <1>5 DEF NodeOK

\* The agent has set the flag.
LEMMA OkSpin ==
  ASSUME NEW p, NEW o, NEW g, NEW v, NEW lf, NEW ls, NEW sf, NEW ss, NEW T, NEW D, NEW K,
         NodeOK(p, o, g, v, lf, ls, sf, ss, T, D, K),
         p = "spin",
         lf = "set"
  PROVE  NodeOK("fail", o, g, v, lf, ls, sf, ss, T, D, K)
<1> USE DEF InMiss, InEvict
<1>1. Shape(p, o, v, lf, ls, sf, ss) /\ Expects(p, o, g, v, T)
  BY DEF NodeOK
<1>2. Shape("fail", o, v, lf, ls, sf, ss)
  BY <1>1 DEF Shape, ThreadPc, InMiss, InEvict, LineStatus, ShadStatus, Transient
<1>3. Expects("fail", o, g, v, T)
  BY <1>1 DEF Expects, Shape
<1>4. Has("fail", o, v, lf, ls, sf, ss, T) = Has(p, o, v, lf, ls, sf, ss, T)
  BY <1>1 DEF Has, Granted, Shape, ThreadPc, LineStatus, ShadStatus, Transient, Expects, EvictAck, Request, Refusal
<1>5. /\ lf = "set" => Granted("fail", T) \/ o = "writeShared"
      /\ T \cap EvictAck # {} => sf = "clear" /\ ss = "TO_PRESERVED"
      /\ "fail" \in {"spin", "evSpin"} \/ "DIR_2_APP_BITMAP_CHECK_FAIL" \in T => K = "INVALID"
  BY <1>1 DEF NodeOK, Granted, Shape, Expects, EvictAck, Request, Refusal
<1> QED BY <1>2, <1>3, <1>4, <1>5 DEF NodeOK

\* The end of a miss.
LEMMA OkSettle ==
  ASSUME NEW p, NEW o, NEW g, NEW v, NEW lf, NEW ls, NEW sf, NEW ss, NEW T, NEW D, NEW K,
         NodeOK(p, o, g, v, lf, ls, sf, ss, T, D, K),
         p \in {"fail", "won"}
  PROVE  NodeOK("look", Retry(o), {}, v, "clear", After(p, o, lf), sf, ss, T, D, K)
<1> USE DEF InMiss, InEvict, After, Retry
<1>1. Shape(p, o, v, lf, ls, sf, ss) /\ Expects(p, o, g, v, T)
  BY DEF NodeOK
<1>2. Shape("look", Retry(o), v, "clear", After(p, o, lf), sf, ss)
  BY <1>1 DEF Shape, ThreadPc, InMiss, InEvict, LineStatus, ShadStatus, Transient
<1>3. Expects("look", Retry(o), {}, v, T)
  BY <1>1 DEF Expects, Shape
<1>4. Has("look", Retry(o), v, "clear", After(p, o, lf), sf, ss, T) = Has(p, o, v, lf, ls, sf, ss, T)
  BY <1>1 DEF Has, Granted, Shape, ThreadPc, LineStatus, ShadStatus, Transient, Expects, EvictAck, Request, Refusal
<1>5. /\ "clear" = "set" => Granted("look", T) \/ Retry(o) = "writeShared"
      /\ T \cap EvictAck # {} => sf = "clear" /\ ss = "TO_PRESERVED"
      /\ "look" \in {"spin", "evSpin"} \/ "DIR_2_APP_BITMAP_CHECK_FAIL" \in T => K = "INVALID"
  BY <1>1 DEF NodeOK, Granted, Shape, Expects, EvictAck, Request, Refusal
<1> QED BY <1>2, <1>3, <1>4, <1>5 DEF NodeOK

\* An invalid line is given up.
LEMMA OkDrop ==
  ASSUME NEW p, NEW o, NEW g, NEW v, NEW lf, NEW ls, NEW sf, NEW ss, NEW T, NEW D, NEW K,
         NodeOK(p, o, g, v, lf, ls, sf, ss, T, D, K),
         p = "idle",
         ls = "INVALID"
  PROVE  NodeOK(p, o, g, v, "clear", "NONE", sf, ss, T, D, K)
<1> USE DEF InMiss, InEvict
<1>1. Shape(p, o, v, lf, ls, sf, ss) /\ Expects(p, o, g, v, T)
  BY DEF NodeOK
<1>2. Shape(p, o, v, "clear", "NONE", sf, ss)
  BY <1>1 DEF Shape, ThreadPc, InMiss, InEvict, LineStatus, ShadStatus, Transient
<1>3. Expects(p, o, g, v, T)
  BY <1>1 DEF Expects, Shape
<1>4. Has(p, o, v, "clear", "NONE", sf, ss, T) = Has(p, o, v, lf, ls, sf, ss, T)
  BY <1>1 DEF Has, Granted, Shape, ThreadPc, LineStatus, ShadStatus, Transient, Expects, EvictAck, Request, Refusal
<1>5. /\ "clear" = "set" => Granted(p, T) \/ o = "writeShared"
      /\ T \cap EvictAck # {} => sf = "clear" /\ ss = "TO_PRESERVED"
      /\ p \in {"spin", "evSpin"} \/ "DIR_2_APP_BITMAP_CHECK_FAIL" \in T => K = "INVALID"
  BY <1>1 DEF NodeOK, Granted, Shape, Expects, EvictAck, Request, Refusal
<1> QED BY <1>2, <1>3, <1>4, <1>5 DEF NodeOK

\* A line becomes a shadow line.
LEMMA OkEvictLine ==
  ASSUME NEW p, NEW o, NEW g, NEW v, NEW lf, NEW ls, NEW sf, NEW ss, NEW T, NEW D, NEW K,
         NodeOK(p, o, g, v, lf, ls, sf, ss, T, D, K),
         p = "idle",
         ls \in {"SHARED", "MODIFIED"}
  PROVE  NodeOK("evStart", o, g, v, "clear", "NONE", "clear", ls, T, D, K)
<1> USE DEF InMiss, InEvict
<1>1. Shape(p, o, v, lf, ls, sf, ss) /\ Expects(p, o, g, v, T)
  BY DEF NodeOK
<1>2. Shape("evStart", o, v, "clear", "NONE", "clear", ls)
  BY <1>1 DEF Shape, ThreadPc, InMiss, InEvict, LineStatus, ShadStatus, Transient
<1>3. Expects("evStart", o, g, v, T)
  BY <1>1 DEF Expects, Shape
<1>4. Has("evStart", o, v, "clear", "NONE", "clear", ls, T) = Has(p, o, v, lf, ls, sf, ss, T)
  BY <1>1 DEF Has, Granted, Shape, ThreadPc, LineStatus, ShadStatus, Transient, Expects, EvictAck, Request, Refusal
<1>5. /\ "clear" = "set" => Granted("evStart", T) \/ o = "writeShared"
      /\ T \cap EvictAck # {} => "clear" = "clear" /\ ls = "TO_PRESERVED"
      /\ "evStart" \in {"spin", "evSpin"} \/ "DIR_2_APP_BITMAP_CHECK_FAIL" \in T => K = "INVALID"
  BY <1>1 DEF NodeOK, Granted, Shape, Expects, EvictAck, Request, Refusal
<1> QED BY <1>2, <1>3, <1>4, <1>5 DEF NodeOK

\* start_evict on an invalidated line.
LEMMA OkMarkInvalid ==
  ASSUME NEW p, NEW o, NEW g, NEW v, NEW lf, NEW ls, NEW sf, NEW ss, NEW T, NEW D, NEW K,
         NodeOK(p, o, g, v, lf, ls, sf, ss, T, D, K),
         p = "evStart",
         ss = "INVALID"
  PROVE  NodeOK("idle", o, g, "none", lf, ls, "clear", "PRESERVED", T, D, K)
<1> USE DEF InMiss, InEvict
<1>1. Shape(p, o, v, lf, ls, sf, ss) /\ Expects(p, o, g, v, T)
  BY DEF NodeOK
<1>2. Shape("idle", o, "none", lf, ls, "clear", "PRESERVED")
  BY <1>1 DEF Shape, ThreadPc, InMiss, InEvict, LineStatus, ShadStatus, Transient
<1>3. Expects("idle", o, g, "none", T)
  BY <1>1 DEF Expects, Shape
<1>4. Has("idle", o, "none", lf, ls, "clear", "PRESERVED", T) = Has(p, o, v, lf, ls, sf, ss, T)
  BY <1>1 DEF Has, Granted, Shape, ThreadPc, LineStatus, ShadStatus, Transient, Expects, EvictAck, Request, Refusal
<1>5. /\ lf = "set" => Granted("idle", T) \/ o = "writeShared"
      /\ T \cap EvictAck # {} => "clear" = "clear" /\ "PRESERVED" = "TO_PRESERVED"
      /\ "idle" \in {"spin", "evSpin"} \/ "DIR_2_APP_BITMAP_CHECK_FAIL" \in T => K = "INVALID"
  BY <1>1 DEF NodeOK, Granted, Shape, Expects, EvictAck, Request, Refusal
<1> QED BY <1>2, <1>3, <1>4, <1>5 DEF NodeOK

\* start_evict up to its CAS.
LEMMA OkMark ==
  ASSUME NEW p, NEW o, NEW g, NEW v, NEW lf, NEW ls, NEW sf, NEW ss, NEW T, NEW D, NEW K,
         NodeOK(p, o, g, v, lf, ls, sf, ss, T, D, K), NEW x,
         p = "evStart",
         ss # "INVALID",
         x = IF ss = "SHARED" THEN "EVICT_SHARED" ELSE "EVICT_DIRTY"
  PROVE  NodeOK("evLock", o, g, x, lf, ls, sf, "TO_PRESERVED", T, D, K)
<1> USE DEF InMiss, InEvict
<1>1. Shape(p, o, v, lf, ls, sf, ss) /\ Expects(p, o, g, v, T)
  BY DEF NodeOK
<1>2. Shape("evLock", o, x, lf, ls, sf, "TO_PRESERVED")
  BY <1>1 DEF Shape, ThreadPc, InMiss, InEvict, LineStatus, ShadStatus, Transient
<1>3. Expects("evLock", o, g, x, T)
  BY <1>1 DEF Expects, Shape
<1>4. Has("evLock", o, x, lf, ls, sf, "TO_PRESERVED", T) = Has(p, o, v, lf, ls, sf, ss, T)
  BY <1>1 DEF Has, Granted, Shape, ThreadPc, LineStatus, ShadStatus, Transient, Expects, EvictAck, Request, Refusal
<1>5. /\ lf = "set" => Granted("evLock", T) \/ o = "writeShared"
      /\ T \cap EvictAck # {} => sf = "clear" /\ "TO_PRESERVED" = "TO_PRESERVED"
      /\ "evLock" \in {"spin", "evSpin"} \/ "DIR_2_APP_BITMAP_CHECK_FAIL" \in T => K = "INVALID"
  BY <1>1 DEF NodeOK, Granted, Shape, Expects, EvictAck, Request, Refusal
<1> QED BY <1>2, <1>3, <1>4, <1>5 DEF NodeOK

\* start_evict sends its request.
LEMMA OkEvictSend ==
  ASSUME NEW p, NEW o, NEW g, NEW v, NEW lf, NEW ls, NEW sf, NEW ss, NEW T, NEW D, NEW K,
         NodeOK(p, o, g, v, lf, ls, sf, ss, T, D, K), NEW x,
         p = "evLock",
         x = IF v = "EVICT_SHARED" THEN "R_EVICT_SHARED" ELSE "R_EVICT_DIRTY"
  PROVE  NodeOK("evWait", o, g, v, lf, ls, sf, ss, {x}, D, K)
<1> USE DEF InMiss, InEvict
<1>1. Shape(p, o, v, lf, ls, sf, ss) /\ Expects(p, o, g, v, T)
  BY DEF NodeOK
<1>2. Shape("evWait", o, v, lf, ls, sf, ss)
  BY <1>1 DEF Shape, ThreadPc, InMiss, InEvict, LineStatus, ShadStatus, Transient
<1>3. Expects("evWait", o, g, v, {x})
  BY <1>1 DEF Expects, Shape
<1>4. Has("evWait", o, v, lf, ls, sf, ss, {x}) = Has(p, o, v, lf, ls, sf, ss, T)
  BY <1>1 DEF Has, Granted, Shape, ThreadPc, LineStatus, ShadStatus, Transient, Expects, EvictAck, Request, Refusal
<1>5. /\ lf = "set" => Granted("evWait", {x}) \/ o = "writeShared"
      /\ {x} \cap EvictAck # {} => sf = "clear" /\ ss = "TO_PRESERVED"
      /\ "evWait" \in {"spin", "evSpin"} \/ "DIR_2_APP_BITMAP_CHECK_FAIL" \in {x} => K = "INVALID"
  BY <1>1 DEF NodeOK, Granted, Shape, Expects, EvictAck, Request, Refusal
<1> QED BY <1>2, <1>3, <1>4, <1>5 DEF NodeOK

\* A refused eviction.
LEMMA OkUndo ==
  ASSUME NEW p, NEW o, NEW g, NEW v, NEW lf, NEW ls, NEW sf, NEW ss, NEW T, NEW D, NEW K,
         NodeOK(p, o, g, v, lf, ls, sf, ss, T, D, K), NEW x,
         p = "evCas",
         \/ sf = "clear" /\ ss = "TO_PRESERVED" /\ x = (IF v = "EVICT_SHARED" THEN "SHARED" ELSE "MODIFIED")
         \/ sf = "set" /\ x = "INVALID"
         \/ sf = "clear" /\ ss = "TO_SHARED" /\ x = "SHARED"
  PROVE  NodeOK("evStart", o, g, v, lf, ls, "clear", x, T, D, K)
<1> USE DEF InMiss, InEvict
<1>1. Shape(p, o, v, lf, ls, sf, ss) /\ Expects(p, o, g, v, T)
  BY DEF NodeOK
<1>2. Shape("evStart", o, v, lf, ls, "clear", x)
  BY <1>1 DEF Shape, ThreadPc, InMiss, InEvict, LineStatus, ShadStatus, Transient
<1>3. Expects("evStart", o, g, v, T)
  BY <1>1 DEF Expects, Shape
<1>4. Has("evStart", o, v, lf, ls, "clear", x, T) = Has(p, o, v, lf, ls, sf, ss, T)
  BY <1>1 DEF Has, Granted, Shape, ThreadPc, LineStatus, ShadStatus, Transient, Expects, EvictAck, Request, Refusal
<1>5. /\ lf = "set" => Granted("evStart", T) \/ o = "writeShared"
      /\ T \cap EvictAck # {} => "clear" = "clear" /\ x = "TO_PRESERVED"
      /\ "evStart" \in {"spin", "evSpin"} \/ "DIR_2_APP_BITMAP_CHECK_FAIL" \in T => K = "INVALID"
  BY <1>1 DEF NodeOK, Granted, Shape, Expects, EvictAck, Request, Refusal
<1> QED BY <1>2, <1>3, <1>4, <1>5 DEF NodeOK

\* The flag of the shadow line is set.
LEMMA OkEvictSpin ==
  ASSUME NEW p, NEW o, NEW g, NEW v, NEW lf, NEW ls, NEW sf, NEW ss, NEW T, NEW D, NEW K,
         NodeOK(p, o, g, v, lf, ls, sf, ss, T, D, K),
         p = "evSpin",
         sf = "set"
  PROVE  NodeOK("idle", o, g, "none", lf, ls, "clear", "PRESERVED", T, D, K)
<1> USE DEF InMiss, InEvict
<1>1. Shape(p, o, v, lf, ls, sf, ss) /\ Expects(p, o, g, v, T)
  BY DEF NodeOK
<1>2. Shape("idle", o, "none", lf, ls, "clear", "PRESERVED")
  BY <1>1 DEF Shape, ThreadPc, InMiss, InEvict, LineStatus, ShadStatus, Transient
<1>3. Expects("idle", o, g, "none", T)
  BY <1>1 DEF Expects, Shape
<1>4. Has("idle", o, "none", lf, ls, "clear", "PRESERVED", T) = Has(p, o, v, lf, ls, sf, ss, T)
  BY <1>1 DEF Has, Granted, Shape, ThreadPc, LineStatus, ShadStatus, Transient, Expects, EvictAck, Request, Refusal
<1>5. /\ lf = "set" => Granted("idle", T) \/ o = "writeShared"
      /\ T \cap EvictAck # {} => "clear" = "clear" /\ "PRESERVED" = "TO_PRESERVED"
      /\ "idle" \in {"spin", "evSpin"} \/ "DIR_2_APP_BITMAP_CHECK_FAIL" \in T => K = "INVALID"
  BY <1>1 DEF NodeOK, Granted, Shape, Expects, EvictAck, Request, Refusal
<1> QED BY <1>2, <1>3, <1>4, <1>5 DEF NodeOK

\* A refusal.
LEMMA OkRefused ==
  ASSUME NEW p, NEW o, NEW g, NEW v, NEW lf, NEW ls, NEW sf, NEW ss, NEW T, NEW D, NEW K,
         NodeOK(p, o, g, v, lf, ls, sf, ss, T, D, K), NEW x,
         p = "wait",
         T = {"DIR_2_APP_M_CHECK_FAIL"}
  PROVE  NodeOK("fail", o, x, v, lf, ls, sf, ss, {}, D, K)
<1> USE DEF InMiss, InEvict
<1>1. Shape(p, o, v, lf, ls, sf, ss) /\ Expects(p, o, g, v, T)
  BY DEF NodeOK
<1>2. Shape("fail", o, v, lf, ls, sf, ss)
  BY <1>1 DEF Shape, ThreadPc, InMiss, InEvict, LineStatus, ShadStatus, Transient
<1>3. Expects("fail", o, x, v, {})
  BY <1>1 DEF Expects, Shape
<1>4. Has("fail", o, v, lf, ls, sf, ss, {}) = Has(p, o, v, lf, ls, sf, ss, T)
  BY <1>1 DEF Has, Granted, Shape, ThreadPc, LineStatus, ShadStatus, Transient, Expects, EvictAck, Request, Refusal
<1>5. /\ lf = "set" => Granted("fail", {}) \/ o = "writeShared"
      /\ {} \cap EvictAck # {} => sf = "clear" /\ ss = "TO_PRESERVED"
      /\ "fail" \in {"spin", "evSpin"} \/ "DIR_2_APP_BITMAP_CHECK_FAIL" \in {} => K = "INVALID"
  BY <1>1 DEF NodeOK, Granted, Shape, Expects, EvictAck, Request, Refusal
<1> QED BY <1>2, <1>3, <1>4, <1>5 DEF NodeOK

\* A refusal that announces an invalidation.
LEMMA OkToSpin ==
  ASSUME NEW p, NEW o, NEW g, NEW v, NEW lf, NEW ls, NEW sf, NEW ss, NEW T, NEW D, NEW K,
         NodeOK(p, o, g, v, lf, ls, sf, ss, T, D, K), NEW x,
         p = "wait",
         T = {"DIR_2_APP_BITMAP_CHECK_FAIL"}
  PROVE  NodeOK("spin", o, x, v, lf, ls, sf, ss, {}, D, K)
<1> USE DEF InMiss, InEvict
<1>1. Shape(p, o, v, lf, ls, sf, ss) /\ Expects(p, o, g, v, T)
  BY DEF NodeOK
<1>a. o = "writeShared"
  BY <1>1 DEF Expects, Shape, ReadOrder, WriteOrder, MissAck, Partial
<1>2. Shape("spin", o, v, lf, ls, sf, ss)
  BY <1>1, <1>a DEF Shape, ThreadPc, InMiss, InEvict, LineStatus, ShadStatus, Transient
<1>3. Expects("spin", o, x, v, {})
  BY <1>1, <1>a DEF Expects, Shape
<1>4. Has("spin", o, v, lf, ls, sf, ss, {}) = Has(p, o, v, lf, ls, sf, ss, T)
  BY <1>1, <1>a DEF Has, Granted, Shape, ThreadPc, LineStatus, ShadStatus, Transient, Expects, EvictAck, Request, Refusal
<1>5. /\ lf = "set" => Granted("spin", {}) \/ o = "writeShared"
      /\ {} \cap EvictAck # {} => sf = "clear" /\ ss = "TO_PRESERVED"
      /\ "spin" \in {"spin", "evSpin"} \/ "DIR_2_APP_BITMAP_CHECK_FAIL" \in {} => K = "INVALID"
  BY <1>1, <1>a DEF NodeOK, Granted, Shape, Expects, EvictAck, Request, Refusal
<1> QED BY <1>2, <1>3, <1>4, <1>5 DEF NodeOK

\* The last reply.
LEMMA OkWon ==
  ASSUME NEW p, NEW o, NEW g, NEW v, NEW lf, NEW ls, NEW sf, NEW ss, NEW T, NEW D, NEW K,
         NodeOK(p, o, g, v, lf, ls, sf, ss, T, D, K), NEW x,
         p = "wait",
         T \cap (Request \cup Refusal) = {}
  PROVE  NodeOK("won", o, x, v, lf, ls, sf, ss, {}, D, K)
<1> USE DEF InMiss, InEvict
<1>1. Shape(p, o, v, lf, ls, sf, ss) /\ Expects(p, o, g, v, T)
  BY DEF NodeOK
<1>2. Shape("won", o, v, lf, ls, sf, ss)
  BY <1>1 DEF Shape, ThreadPc, InMiss, InEvict, LineStatus, ShadStatus, Transient
<1>3. Expects("won", o, x, v, {})
  BY <1>1 DEF Expects, Shape
<1>4. Has("won", o, v, lf, ls, sf, ss, {}) = Has(p, o, v, lf, ls, sf, ss, T)
  BY <1>1 DEF Has, Granted, Shape, ThreadPc, LineStatus, ShadStatus, Transient, Expects, EvictAck, Request, Refusal
<1>5. /\ lf = "set" => Granted("won", {}) \/ o = "writeShared"
      /\ {} \cap EvictAck # {} => sf = "clear" /\ ss = "TO_PRESERVED"
      /\ "won" \in {"spin", "evSpin"} \/ "DIR_2_APP_BITMAP_CHECK_FAIL" \in {} => K = "INVALID"
  BY <1>1 DEF NodeOK, Granted, Shape, Expects, EvictAck, Request, Refusal
<1> QED BY <1>2, <1>3, <1>4, <1>5 DEF NodeOK

\* The data of a write, before the invalidations are done.
LEMMA OkFirst ==
  ASSUME NEW p, NEW o, NEW g, NEW v, NEW lf, NEW ls, NEW sf, NEW ss, NEW T, NEW D, NEW K,
         NodeOK(p, o, g, v, lf, ls, sf, ss, T, D, K),
         p = "wait",
         o = "writeMiss",
         g = {},
         T = {MissAck, "DIR_2_APP_WRITE_MISS_SHAREDDATA"}
  PROVE  NodeOK(p, o, {"DIR_2_APP_WRITE_MISS_SHAREDDATA"}, v, lf, ls, sf, ss, {MissAck}, D, K)
<1> USE DEF InMiss, InEvict, MissAck
<1>1. Shape(p, o, v, lf, ls, sf, ss) /\ Expects(p, o, g, v, T)
  BY DEF NodeOK
<1>2. Shape(p, o, v, lf, ls, sf, ss)
  BY <1>1 DEF Shape, ThreadPc, InMiss, InEvict, LineStatus, ShadStatus, Transient
<1>3. Expects(p, o, {"DIR_2_APP_WRITE_MISS_SHAREDDATA"}, v, {MissAck})
  BY <1>1 DEF Expects, Shape
<1>4. Has(p, o, v, lf, ls, sf, ss, {MissAck}) = Has(p, o, v, lf, ls, sf, ss, T)
  BY <1>1 DEF Has, Granted, Shape, ThreadPc, LineStatus, ShadStatus, Transient, Expects, EvictAck, Request, Refusal
<1>5. /\ lf = "set" => Granted(p, {MissAck}) \/ o = "writeShared"
      /\ {MissAck} \cap EvictAck # {} => sf = "clear" /\ ss = "TO_PRESERVED"
      /\ p \in {"spin", "evSpin"} \/ "DIR_2_APP_BITMAP_CHECK_FAIL" \in {MissAck} => K = "INVALID"
  BY <1>1 DEF NodeOK, Granted, Shape, Expects, EvictAck, Request, Refusal
<1> QED BY <1>2, <1>3, <1>4, <1>5 DEF NodeOK

\* One of two replies.
LEMMA OkEither ==
  ASSUME NEW p, NEW o, NEW g, NEW v, NEW lf, NEW ls, NEW sf, NEW ss, NEW T, NEW D, NEW K,
         NodeOK(p, o, g, v, lf, ls, sf, ss, T, D, K), NEW x,
         p = "wait",
         o = "writeMiss",
         g = {},
         T = Partial,
         x \in Partial
  PROVE  NodeOK(p, o, {x}, v, lf, ls, sf, ss, (T \ {x}), D, K)
<1> USE DEF InMiss, InEvict, Partial
<1>1. Shape(p, o, v, lf, ls, sf, ss) /\ Expects(p, o, g, v, T)
  BY DEF NodeOK
<1>a. \/ x = "DIR_2_APP_WRITE_MISS_SHAREDDATA" /\ T \ {x} = {"DIR_2_APP_WRITE_MISS_SHARED_AGGACK_ACK"}
      \/ x = "DIR_2_APP_WRITE_MISS_SHARED_AGGACK_ACK" /\ T \ {x} = {"DIR_2_APP_WRITE_MISS_SHAREDDATA"}
  OBVIOUS
<1>b. (T \ {x}) \cap EvictAck = {} /\ (T \ {x}) \cap (Request \cup Refusal) = {}
  BY <1>a DEF EvictAck, Request, Refusal
<1>c. lf = "set" => Granted(p, T \ {x})
  BY <1>b DEF Granted
<1>d. "DIR_2_APP_BITMAP_CHECK_FAIL" \notin T \ {x}
  BY <1>b DEF Refusal
<1>2. Shape(p, o, v, lf, ls, sf, ss)
  BY <1>1, <1>a DEF Shape, ThreadPc, InMiss, InEvict, LineStatus, ShadStatus, Transient
<1>3. Expects(p, o, {x}, v, (T \ {x}))
  BY <1>1, <1>a DEF Expects, Shape
<1>4. Has(p, o, v, lf, ls, sf, ss, (T \ {x})) = Has(p, o, v, lf, ls, sf, ss, T)
  BY <1>1, <1>a DEF Has, Granted, Shape, ThreadPc, LineStatus, ShadStatus, Transient, Expects, EvictAck, Request, Refusal
<1>5. /\ lf = "set" => Granted(p, (T \ {x})) \/ o = "writeShared"
      /\ (T \ {x}) \cap EvictAck # {} => sf = "clear" /\ ss = "TO_PRESERVED"
      /\ p \in {"spin", "evSpin"} \/ "DIR_2_APP_BITMAP_CHECK_FAIL" \in (T \ {x}) => K = "INVALID"
  BY <1>b, <1>c, <1>d
<1> QED BY <1>2, <1>3, <1>4, <1>5 DEF NodeOK

\* The eviction is granted.
LEMMA OkEvicted ==
  ASSUME NEW p, NEW o, NEW g, NEW v, NEW lf, NEW ls, NEW sf, NEW ss, NEW T, NEW D, NEW K,
         NodeOK(p, o, g, v, lf, ls, sf, ss, T, D, K),
         p = "evWait",
         T \cap EvictAck # {}
  PROVE  NodeOK("idle", o, g, "none", lf, ls, "clear", "PRESERVED", {}, D, K)
<1> USE DEF InMiss, InEvict
<1>1. Shape(p, o, v, lf, ls, sf, ss) /\ Expects(p, o, g, v, T)
  BY DEF NodeOK
<1>2. Shape("idle", o, "none", lf, ls, "clear", "PRESERVED")
  BY <1>1 DEF Shape, ThreadPc, InMiss, InEvict, LineStatus, ShadStatus, Transient
<1>3. Expects("idle", o, g, "none", {})
  BY <1>1 DEF Expects, Shape
<1>4. Has("idle", o, "none", lf, ls, "clear", "PRESERVED", {}) = Has(p, o, v, lf, ls, sf, ss, T)
  BY <1>1 DEF Has, Granted, Shape, ThreadPc, LineStatus, ShadStatus, Transient, Expects, EvictAck, Request, Refusal, NodeOK
<1>5. /\ lf = "set" => Granted("idle", {}) \/ o = "writeShared"
      /\ {} \cap EvictAck # {} => "clear" = "clear" /\ "PRESERVED" = "TO_PRESERVED"
      /\ "idle" \in {"spin", "evSpin"} \/ "DIR_2_APP_BITMAP_CHECK_FAIL" \in {} => K = "INVALID"
  BY <1>1 DEF NodeOK, Granted, Shape, Expects, EvictAck, Request, Refusal
<1> QED BY <1>2, <1>3, <1>4, <1>5 DEF NodeOK

\* The eviction is refused.
LEMMA OkEvictRefused ==
  ASSUME NEW p, NEW o, NEW g, NEW v, NEW lf, NEW ls, NEW sf, NEW ss, NEW T, NEW D, NEW K,
         NodeOK(p, o, g, v, lf, ls, sf, ss, T, D, K),
         p = "evWait",
         T = {"DIR_2_APP_M_CHECK_FAIL"}
  PROVE  NodeOK("evCas", o, g, v, lf, ls, sf, ss, {}, D, K)
<1> USE DEF InMiss, InEvict
<1>1. Shape(p, o, v, lf, ls, sf, ss) /\ Expects(p, o, g, v, T)
  BY DEF NodeOK
<1>2. Shape("evCas", o, v, lf, ls, sf, ss)
  BY <1>1 DEF Shape, ThreadPc, InMiss, InEvict, LineStatus, ShadStatus, Transient
<1>3. Expects("evCas", o, g, v, {})
  BY <1>1 DEF Expects, Shape
<1>4. Has("evCas", o, v, lf, ls, sf, ss, {}) = Has(p, o, v, lf, ls, sf, ss, T)
  BY <1>1 DEF Has, Granted, Shape, ThreadPc, LineStatus, ShadStatus, Transient, Expects, EvictAck, Request, Refusal
<1>5. /\ lf = "set" => Granted("evCas", {}) \/ o = "writeShared"
      /\ {} \cap EvictAck # {} => sf = "clear" /\ ss = "TO_PRESERVED"
      /\ "evCas" \in {"spin", "evSpin"} \/ "DIR_2_APP_BITMAP_CHECK_FAIL" \in {} => K = "INVALID"
  BY <1>1 DEF NodeOK, Granted, Shape, Expects, EvictAck, Request, Refusal
<1> QED BY <1>2, <1>3, <1>4, <1>5 DEF NodeOK

\* The eviction comes too late.
LEMMA OkEvictToSpin ==
  ASSUME NEW p, NEW o, NEW g, NEW v, NEW lf, NEW ls, NEW sf, NEW ss, NEW T, NEW D, NEW K,
         NodeOK(p, o, g, v, lf, ls, sf, ss, T, D, K),
         p = "evWait",
         T = {"DIR_2_APP_BITMAP_CHECK_FAIL"}
  PROVE  NodeOK("evSpin", o, g, v, lf, ls, sf, ss, {}, D, K)
<1> USE DEF InMiss, InEvict
<1>1. Shape(p, o, v, lf, ls, sf, ss) /\ Expects(p, o, g, v, T)
  BY DEF NodeOK
<1>2. Shape("evSpin", o, v, lf, ls, sf, ss)
  BY <1>1 DEF Shape, ThreadPc, InMiss, InEvict, LineStatus, ShadStatus, Transient
<1>3. Expects("evSpin", o, g, v, {})
  BY <1>1 DEF Expects, Shape
<1>4. Has("evSpin", o, v, lf, ls, sf, ss, {}) = Has(p, o, v, lf, ls, sf, ss, T)
  BY <1>1 DEF Has, Granted, Shape, ThreadPc, LineStatus, ShadStatus, Transient, Expects, EvictAck, Request, Refusal
<1>5. /\ lf = "set" => Granted("evSpin", {}) \/ o = "writeShared"
      /\ {} \cap EvictAck # {} => sf = "clear" /\ ss = "TO_PRESERVED"
      /\ "evSpin" \in {"spin", "evSpin"} \/ "DIR_2_APP_BITMAP_CHECK_FAIL" \in {} => K = "INVALID"
  BY <1>1 DEF NodeOK, Granted, Shape, Expects, EvictAck, Request, Refusal
<1> QED BY <1>2, <1>3, <1>4, <1>5 DEF NodeOK

\* A token that turns into another one while the thread is granted its copy.
LEMMA OkSwap ==
  ASSUME NEW p, NEW o, NEW g, NEW v, NEW lf, NEW ls, NEW sf, NEW ss, NEW T, NEW D, NEW K,
         NodeOK(p, o, g, v, lf, ls, sf, ss, T, D, K), NEW x,
         p = "wait",
         T \cap (Request \cup Refusal) = {},
         \/ T = {ReadOrder} /\ x = {"AGENT_2_APP_READ_MISS_DIRTY_ACKDATA"}
         \/ T = {WriteOrder} /\ x = {"AGENT_2_APP_WRITE_MISS_DIRTY_ACKDATA"}
         \/ T = {SharedAck} /\ x = {"DIR_2_APP_WRITE_SHARED_NOTONLY_AGGACK_ACK"}
         \/ T = {MissAck} /\ x = {"DIR_2_APP_WRITE_MISS_SHARED_AGGACK_ACK"}
         \/ T = {MissAck, "DIR_2_APP_WRITE_MISS_SHAREDDATA"} /\ x = Partial
  PROVE  NodeOK(p, o, g, v, lf, ls, sf, ss, x, D, K)
<1> USE DEF InMiss, InEvict, MissAck, SharedAck, ReadOrder, WriteOrder, Partial
<1>1. Shape(p, o, v, lf, ls, sf, ss) /\ Expects(p, o, g, v, T)
  BY DEF NodeOK
<1>2. Shape(p, o, v, lf, ls, sf, ss)
  BY <1>1 DEF Shape, ThreadPc, InMiss, InEvict, LineStatus, ShadStatus, Transient
<1>3. Expects(p, o, g, v, x)
  BY <1>1 DEF Expects, Shape
<1>4. Has(p, o, v, lf, ls, sf, ss, x) = Has(p, o, v, lf, ls, sf, ss, T)
  BY <1>1 DEF Has, Granted, Shape, ThreadPc, LineStatus, ShadStatus, Transient, Expects, EvictAck, Request, Refusal
<1>5. /\ lf = "set" => Granted(p, x) \/ o = "writeShared"
      /\ x \cap EvictAck # {} => sf = "clear" /\ ss = "TO_PRESERVED"
      /\ p \in {"spin", "evSpin"} \/ "DIR_2_APP_BITMAP_CHECK_FAIL" \in x => K = "INVALID"
  BY <1>1 DEF NodeOK, Granted, Shape, Expects, EvictAck, Request, Refusal
<1> QED BY <1>2, <1>3, <1>4, <1>5 DEF NodeOK

------------------------------------------------------------------------------
(* The orders of the directory *)

\* Three kinds of messages for an agent.
LEMMA OrderKinds ==
  /\ ReadOrder # WriteOrder /\ ReadOrder \notin Invalidation /\ WriteOrder \notin Invalidation
  /\ ToAgent = {ReadOrder, WriteOrder} \cup Invalidation
  /\ "none" \notin ToAgent
BY DEF ReadOrder, WriteOrder, Invalidation, ToAgent

\* The order that comes first brings the node's copy closer to the directory's view.
LEMMA AgreesTake ==
  ASSUME NEW h, NEW D, NEW K, NEW w \in D, Agrees(h, D, K), ReadOrder \in D => w = ReadOrder
  PROVE  /\ h # "INVALID"
         /\ w = ReadOrder => h = "MODIFIED" /\ Agrees("SHARED", D \ {w}, K)
         /\ w # ReadOrder => K = "INVALID" /\ Agrees("INVALID", D \ {w}, K)
         /\ w \in Invalidation => h = "SHARED"
         /\ w = WriteOrder => h = "MODIFIED"
         /\ w \in ToAgent
<1>1. CASE D = {ReadOrder} /\ h = "MODIFIED" /\ K = "SHARED"
  <2>1. w = ReadOrder /\ D \ {w} = {}
    BY <1>1
  <2> QED BY <1>1, <2>1, OrderKinds DEF Agrees
<1>2. CASE D = {WriteOrder} /\ h = "MODIFIED" /\ K = "INVALID"
  <2>1. w = WriteOrder /\ D \ {w} = {}
    BY <1>2
  <2> QED BY <1>2, <2>1, OrderKinds DEF Agrees
<1>3. CASE \E x \in Invalidation : K = "INVALID" /\ D = {x} /\ h = "SHARED"
  <2>1. w \in Invalidation /\ D \ {w} = {}
    BY <1>3
  <2> QED BY <1>3, <2>1, OrderKinds DEF Agrees
<1>4. CASE \E x \in Invalidation : K = "INVALID" /\ D = {ReadOrder, x} /\ h = "MODIFIED"
  <2>1. PICK x \in Invalidation : K = "INVALID" /\ D = {ReadOrder, x} /\ h = "MODIFIED"
    BY <1>4
  <2>2. w = ReadOrder /\ D \ {w} = {x}
    BY <2>1, OrderKinds
  <2> QED BY <2>1, <2>2, OrderKinds DEF Agrees
<1> QED BY <1>1, <1>2, <1>3, <1>4 DEF Agrees

\* An order that the agent has not acted on finds a line.
LEMMA Found ==
  ASSUME NEW p, NEW o, NEW g, NEW v, NEW lf, NEW ls, NEW sf, NEW ss, NEW T, NEW D, NEW K,
         NodeOK(p, o, g, v, lf, ls, sf, ss, T, D, K), D # {}
  PROVE  ls # "NONE" \/ ss # "PRESERVED"
<1>1. Has(p, o, v, lf, ls, sf, ss, T) # "INVALID"
  BY DEF NodeOK, Agrees
<1> QED BY <1>1 DEF Has

\* Without a copy there is no order.
LEMMA NothingOrdered ==
  ASSUME NEW p, NEW o, NEW g, NEW v, NEW lf, NEW ls, NEW sf, NEW ss, NEW T, NEW D, NEW K,
         NodeOK(p, o, g, v, lf, ls, sf, ss, T, D, K),
         \/ sf = "set"
         \/ p = "evStart" /\ ss = "INVALID"
         \/ p = "evWait" /\ T \cap EvictAck # {}
  PROVE  D = {}
<1>1. Has(p, o, v, lf, ls, sf, ss, T) = "INVALID"
  BY DEF NodeOK, Shape, Has
<1> QED BY <1>1 DEF NodeOK, Agrees

\* The agent acts on the line.
LEMMA OkApplyLine ==
  ASSUME NEW p, NEW o, NEW g, NEW v, NEW lf, NEW ls, NEW sf, NEW ss, NEW T, NEW D, NEW K,
         NodeOK(p, o, g, v, lf, ls, sf, ss, T, D, K),
         NEW w \in D, ReadOrder \in D => w = ReadOrder, NEW f1, NEW s1,
         ls # "NONE", Cas(w, lf, ls, f1, s1)
  PROVE  NodeOK(p, o, g, v, f1, s1, sf, ss, T, D \ {w}, K) /\ s1 # "NONE"
<1> DEFINE h == Has(p, o, v, lf, ls, sf, ss, T)
<1>1. Shape(p, o, v, lf, ls, sf, ss) /\ Expects(p, o, g, v, T) /\ Agrees(h, D, K)
  BY DEF NodeOK
<1>2. /\ h # "INVALID"
      /\ w = ReadOrder => h = "MODIFIED" /\ Agrees("SHARED", D \ {w}, K)
      /\ w # ReadOrder => K = "INVALID" /\ Agrees("INVALID", D \ {w}, K)
  BY <1>1, AgreesTake
<1>3. ss = "PRESERVED" /\ sf = "clear" /\ ls # "PRESERVED" /\ ls # "TO_PRESERVED"
  BY <1>1 DEF Shape, LineStatus
<1>4. CASE ls = "SHARED" /\ f1 = "clear" /\ s1 = "INVALID" /\ w # ReadOrder
  <2>1. Shape(p, o, v, f1, s1, sf, ss)
    BY <1>1, <1>3, <1>4 DEF Shape, LineStatus
  <2>2. Has(p, o, v, f1, s1, sf, ss, T) = "INVALID"
    BY <1>3, <1>4 DEF Has
  <2> QED BY <1>1, <1>2, <1>4, <2>1, <2>2 DEF NodeOK
<1>5. CASE ls = "MODIFIED" /\ f1 = "clear" /\ s1 = "SHARED" /\ w = ReadOrder
  <2>1. Shape(p, o, v, f1, s1, sf, ss)
    BY <1>1, <1>3, <1>5 DEF Shape, LineStatus
  <2>2. Has(p, o, v, f1, s1, sf, ss, T) = "SHARED"
    BY <1>3, <1>5 DEF Has
  <2> QED BY <1>1, <1>2, <1>5, <2>1, <2>2 DEF NodeOK
<1>6. CASE ls = "MODIFIED" /\ f1 = "clear" /\ s1 = "INVALID" /\ w # ReadOrder
  <2>1. Shape(p, o, v, f1, s1, sf, ss)
    BY <1>1, <1>3, <1>6 DEF Shape, LineStatus
  <2>2. Has(p, o, v, f1, s1, sf, ss, T) = "INVALID"
    BY <1>3, <1>6 DEF Has
  <2> QED BY <1>1, <1>2, <1>6, <2>1, <2>2 DEF NodeOK
<1>7. CASE w # ReadOrder /\ lf = "clear" /\ ls \in {"TO_MODIFIED", "TO_SHARED"} /\ f1 = "set" /\ s1 = ls
  <2>1. Shape(p, o, v, f1, s1, sf, ss)
    BY <1>1, <1>3, <1>7 DEF Shape, LineStatus
  <2>2. Has(p, o, v, f1, s1, sf, ss, T) = "INVALID"
    BY <1>3, <1>7 DEF Has
  <2>3. Granted(p, T) \/ o = "writeShared"
    BY <1>2, <1>3, <1>7 DEF Has
  <2> QED BY <1>1, <1>2, <1>7, <2>1, <2>2, <2>3 DEF NodeOK
<1> QED BY <1>3, <1>4, <1>5, <1>6, <1>7, OrderKinds DEF Cas

\* The agent acts on the shadow line.
LEMMA OkApplyShad ==
  ASSUME NEW p, NEW o, NEW g, NEW v, NEW lf, NEW ls, NEW sf, NEW ss, NEW T, NEW D, NEW K,
         NodeOK(p, o, g, v, lf, ls, sf, ss, T, D, K),
         NEW w \in D, ReadOrder \in D => w = ReadOrder, NEW f1, NEW s1,
         ss # "PRESERVED", Cas(w, sf, ss, f1, s1)
  PROVE  NodeOK(p, o, g, v, lf, ls, f1, s1, T, D \ {w}, K) /\ s1 # "PRESERVED"
<1> DEFINE h == Has(p, o, v, lf, ls, sf, ss, T)
<1>1. Shape(p, o, v, lf, ls, sf, ss) /\ Expects(p, o, g, v, T) /\ Agrees(h, D, K)
  BY DEF NodeOK
<1>2. /\ h # "INVALID"
      /\ w = ReadOrder => h = "MODIFIED" /\ Agrees("SHARED", D \ {w}, K)
      /\ w # ReadOrder => K = "INVALID" /\ Agrees("INVALID", D \ {w}, K)
  BY <1>1, AgreesTake
<1>3. ls = "NONE" /\ lf = "clear" /\ ss # "TO_MODIFIED" /\ p \in InEvict
  BY <1>1 DEF Shape, ShadStatus
<1>4. T \cap EvictAck = {}
  BY <1>2, <1>3 DEF Has, NodeOK
<1>5. CASE ss = "SHARED" /\ f1 = "clear" /\ s1 = "INVALID" /\ w # ReadOrder
  <2>1. Shape(p, o, v, lf, ls, f1, s1)
    BY <1>1, <1>3, <1>5 DEF Shape, ShadStatus
  <2>2. Has(p, o, v, lf, ls, f1, s1, T) = "INVALID"
    BY <1>3, <1>5 DEF Has
  <2> QED BY <1>1, <1>2, <1>3, <1>4, <1>5, <2>1, <2>2 DEF NodeOK
<1>6. CASE ss = "MODIFIED" /\ f1 = "clear" /\ s1 = "SHARED" /\ w = ReadOrder
  <2>1. Shape(p, o, v, lf, ls, f1, s1)
    BY <1>1, <1>3, <1>6 DEF Shape, ShadStatus
  <2>2. Has(p, o, v, lf, ls, f1, s1, T) = "SHARED"
    BY <1>3, <1>6 DEF Has
  <2> QED BY <1>1, <1>2, <1>3, <1>4, <1>6, <2>1, <2>2 DEF NodeOK
<1>7. CASE ss = "MODIFIED" /\ f1 = "clear" /\ s1 = "INVALID" /\ w # ReadOrder
  <2>1. Shape(p, o, v, lf, ls, f1, s1)
    BY <1>1, <1>3, <1>7 DEF Shape, ShadStatus
  <2>2. Has(p, o, v, lf, ls, f1, s1, T) = "INVALID"
    BY <1>3, <1>7 DEF Has
  <2> QED BY <1>1, <1>2, <1>3, <1>4, <1>7, <2>1, <2>2 DEF NodeOK
<1>8. CASE w = ReadOrder /\ sf = "clear" /\ ss = "TO_PRESERVED" /\ f1 = "clear" /\ s1 = "TO_SHARED"
  <2>1. v = "EVICT_DIRTY"
    BY <1>1, <1>2, <1>3, <1>4, <1>8 DEF Has, Shape, InEvict
  <2>2. Shape(p, o, v, lf, ls, f1, s1)
    BY <1>1, <1>3, <1>8, <2>1 DEF Shape, ShadStatus, InEvict
  <2>3. Has(p, o, v, lf, ls, f1, s1, T) = "SHARED"
    BY <1>3, <1>8 DEF Has
  <2> QED BY <1>1, <1>2, <1>3, <1>4, <1>8, <2>2, <2>3 DEF NodeOK
<1>9. CASE w # ReadOrder /\ sf = "clear" /\ ss \in {"TO_SHARED", "TO_PRESERVED"} /\ f1 = "set" /\ s1 = ss
  <2>1. Shape(p, o, v, lf, ls, f1, s1)
    BY <1>1, <1>3, <1>9 DEF Shape, ShadStatus
  <2>2. Has(p, o, v, lf, ls, f1, s1, T) = "INVALID"
    BY <1>3, <1>9 DEF Has
  <2> QED BY <1>1, <1>2, <1>3, <1>4, <1>9, <2>1, <2>2 DEF NodeOK
<1> QED BY <1>3, <1>5, <1>6, <1>7, <1>8, <1>9, OrderKinds DEF Cas

\* The owner is asked for the block.
LEMMA OkHandOver ==
  ASSUME NEW p, NEW o, NEW g, NEW v, NEW lf, NEW ls, NEW sf, NEW ss, NEW T, NEW D,
         NodeOK(p, o, g, v, lf, ls, sf, ss, T, D, "MODIFIED")
  PROVE  /\ D = {}
         /\ NodeOK(p, o, g, v, lf, ls, sf, ss, T, {ReadOrder}, "SHARED")
         /\ NodeOK(p, o, g, v, lf, ls, sf, ss, T, {WriteOrder}, "INVALID")
<1> DEFINE h == Has(p, o, v, lf, ls, sf, ss, T)
<1>1. D = {} /\ h = "MODIFIED"
  BY DEF NodeOK, Agrees
<1>2. Agrees("MODIFIED", {ReadOrder}, "SHARED") /\ Agrees("MODIFIED", {WriteOrder}, "INVALID")
  BY DEF Agrees
<1> QED BY <1>1, <1>2 DEF NodeOK

\* A sharer is told to give its copy up.
LEMMA OkInvalidate ==
  ASSUME NEW p, NEW o, NEW g, NEW v, NEW lf, NEW ls, NEW sf, NEW ss, NEW T, NEW D,
         NodeOK(p, o, g, v, lf, ls, sf, ss, T, D, "SHARED"), NEW w \in Invalidation
  PROVE  /\ D = {} \/ D = {ReadOrder}
         /\ NodeOK(p, o, g, v, lf, ls, sf, ss, T, D \cup {w}, "INVALID")
<1> DEFINE h == Has(p, o, v, lf, ls, sf, ss, T)
<1>1. (D = {} /\ h = "SHARED") \/ (D = {ReadOrder} /\ h = "MODIFIED")
  BY DEF NodeOK, Agrees
<1>2. Agrees("SHARED", {w}, "INVALID") /\ Agrees("MODIFIED", {ReadOrder, w}, "INVALID")
  BY DEF Agrees
<1>3. {} \cup {w} = {w} /\ {ReadOrder} \cup {w} = {ReadOrder, w}
  OBVIOUS
<1>4. Agrees(h, D \cup {w}, "INVALID")
  BY <1>1, <1>2, <1>3
<1> QED BY <1>1, <1>4 DEF NodeOK

------------------------------------------------------------------------------
(* Tokens: what a thread waits for *)

\* While a request is under way nothing else is; the directory may turn it down or
\* grant it.
LEMMA OkOwn ==
  ASSUME NEW p, NEW o, NEW g, NEW v, NEW lf, NEW ls, NEW sf, NEW ss, NEW T, NEW D, NEW K,
         NodeOK(p, o, g, v, lf, ls, sf, ss, T, D, K), NEW t \in T \cap Request, NEW T1, NEW K1,
         Outcome(t, K, T1, K1)
  PROVE  NodeOK(p, o, g, v, lf, ls, sf, ss, T1, D, K1)
<1> USE DEF ReadOrder, WriteOrder, MissAck, SharedAck, Partial
<1> DEFINE h == Has(p, o, v, lf, ls, sf, ss, T)
           h1 == Has(p, o, v, lf, ls, sf, ss, T1)
<1>1. Shape(p, o, v, lf, ls, sf, ss) /\ Expects(p, o, g, v, T) /\ Agrees(h, D, K)
  BY DEF NodeOK
<1>2. T # {} /\ p \in {"wait", "evWait"}
  BY <1>1 DEF Expects
<1>3. ASSUME p = "wait", o = "readMiss" PROVE NodeOK(p, o, g, v, lf, ls, sf, ss, T1, D, K1)
  <2>1. t = "R_READ_MISS" /\ T = {"R_READ_MISS"} /\ g = {}
    BY <1>1, <1>3 DEF Expects, Request
  <2>2. ~Granted(p, T)
    BY <1>3, <2>1 DEF Granted, Request
  <2>3. lf = "clear" /\ sf = "clear" /\ ls = "TO_SHARED" /\ ss = "PRESERVED"
    BY <1>1, <1>3, <2>2 DEF NodeOK, Shape, InMiss, InEvict, Transient
  <2>4. h = "INVALID" /\ D = {} /\ K = "INVALID"
    BY <1>1, <2>2, <2>3 DEF Has, Agrees
  <2>5. CASE T1 = {"DIR_2_APP_M_CHECK_FAIL"} /\ K1 = "INVALID"
    <3>1. Expects(p, o, g, v, T1) /\ T1 \cap EvictAck = {}
      BY <1>3, <2>1, <2>5 DEF Expects, EvictAck
    <3>2. ~Granted(p, T1)
      BY <1>3, <2>5 DEF Granted, Refusal
    <3>3. h1 = "INVALID"
      BY <2>3, <3>2 DEF Has
    <3> QED BY <1>1, <1>3, <2>3, <2>4, <2>5, <3>1, <3>3 DEF NodeOK, Agrees
  <2>6. CASE K1 = "SHARED" /\ (T1 = {"DIR_2_APP_READ_MISS_ACKDATA"} \/ T1 = {ReadOrder})
    <3>1. Expects(p, o, g, v, T1) /\ T1 \cap EvictAck = {} /\ "DIR_2_APP_BITMAP_CHECK_FAIL" \notin T1
      BY <1>3, <2>1, <2>6 DEF Expects, EvictAck
    <3>2. Granted(p, T1)
      BY <1>3, <2>6 DEF Granted, Refusal, Request
    <3>3. h1 = "SHARED"
      BY <2>3, <3>2 DEF Has
    <3> QED BY <1>1, <1>3, <2>3, <2>4, <2>6, <3>1, <3>3 DEF NodeOK, Agrees
  <2> QED BY <2>1, <2>4, <2>5, <2>6 DEF Outcome
<1>4. ASSUME p = "wait", o = "writeMiss" PROVE NodeOK(p, o, g, v, lf, ls, sf, ss, T1, D, K1)
  <2>1. t = "R_WRITE_MISS" /\ T = {"R_WRITE_MISS"} /\ g = {}
    BY <1>1, <1>4 DEF Expects, Request
  <2>2. ~Granted(p, T)
    BY <1>4, <2>1 DEF Granted, Request
  <2>3. lf = "clear" /\ sf = "clear" /\ ls = "TO_MODIFIED" /\ ss = "PRESERVED"
    BY <1>1, <1>4, <2>2 DEF NodeOK, Shape, InMiss, InEvict, Transient
  <2>4. h = "INVALID" /\ D = {} /\ K = "INVALID"
    BY <1>1, <1>4, <2>2, <2>3 DEF Has, Agrees
  <2>5. CASE T1 = {"DIR_2_APP_M_CHECK_FAIL"} /\ K1 = "INVALID"
    <3>1. Expects(p, o, g, v, T1) /\ T1 \cap EvictAck = {}
      BY <1>4, <2>1, <2>5 DEF Expects, EvictAck
    <3>2. ~Granted(p, T1)
      BY <1>4, <2>5 DEF Granted, Refusal
    <3>3. h1 = "INVALID"
      BY <1>4, <2>3, <3>2 DEF Has
    <3> QED BY <1>1, <1>4, <2>3, <2>4, <2>5, <3>1, <3>3 DEF NodeOK, Agrees
  <2>6. CASE /\ K1 = "MODIFIED"
             /\ \/ T1 = {"DIR_2_APP_WRITE_MISS_ACKDATA"} \/ T1 = {WriteOrder}
                \/ T1 = {MissAck, "DIR_2_APP_WRITE_MISS_SHAREDDATA"}
    <3>1. Expects(p, o, g, v, T1) /\ T1 \cap EvictAck = {} /\ "DIR_2_APP_BITMAP_CHECK_FAIL" \notin T1
      BY <1>4, <2>1, <2>6 DEF Expects, EvictAck
    <3>2. Granted(p, T1)
      BY <1>4, <2>6 DEF Granted, Refusal, Request
    <3>3. h1 = "MODIFIED"
      BY <2>3, <3>2 DEF Has
    <3> QED BY <1>1, <1>4, <2>3, <2>4, <2>6, <3>1, <3>3 DEF NodeOK, Agrees
  <2> QED BY <2>1, <2>4, <2>5, <2>6 DEF Outcome
<1>5. ASSUME p = "wait", o = "writeShared" PROVE NodeOK(p, o, g, v, lf, ls, sf, ss, T1, D, K1)
  <2>1. t = "R_WRITE_SHARED" /\ T = {"R_WRITE_SHARED"} /\ g = {}
    BY <1>1, <1>5 DEF Expects, Request
  <2>2. ~Granted(p, T)
    BY <1>5, <2>1 DEF Granted, Request
  <2>3. sf = "clear" /\ ls = "TO_MODIFIED" /\ ss = "PRESERVED" /\ lf \in {"set", "clear"}
    BY <1>1, <1>5, <2>2 DEF NodeOK, Shape, InMiss, InEvict, Transient
  <2>4. h = IF lf = "set" THEN "INVALID" ELSE "SHARED"
    BY <1>1, <1>5, <2>2, <2>3 DEF Has
  <2>5. CASE \/ T1 = {"DIR_2_APP_M_CHECK_FAIL"} /\ K1 = K
             \/ T1 = {"DIR_2_APP_BITMAP_CHECK_FAIL"} /\ K1 = K /\ K = "INVALID"
    <3>1. Expects(p, o, g, v, T1) /\ T1 \cap EvictAck = {}
      BY <1>5, <2>1, <2>5 DEF Expects, EvictAck
    <3>2. ~Granted(p, T1)
      BY <1>5, <2>5 DEF Granted, Refusal
    <3>3. h1 = h
      BY <1>5, <2>3, <2>4, <3>2 DEF Has
    <3> QED BY <1>1, <1>5, <2>3, <2>5, <3>1, <3>3 DEF NodeOK
  <2>6. CASE /\ K = "SHARED" /\ K1 = "MODIFIED"
             /\ (T1 = {"DIR_2_APP_WRITE_SHARED_ONLYACK"} \/ T1 = {SharedAck})
    <3>0. h = "SHARED" /\ D = {} /\ lf = "clear"
      BY <1>1, <2>3, <2>4, <2>6 DEF Agrees
    <3>1. Expects(p, o, g, v, T1) /\ T1 \cap EvictAck = {} /\ "DIR_2_APP_BITMAP_CHECK_FAIL" \notin T1
      BY <1>5, <2>1, <2>6 DEF Expects, EvictAck
    <3>2. Granted(p, T1)
      BY <1>5, <2>6 DEF Granted, Refusal, Request
    <3>3. h1 = "MODIFIED"
      BY <2>3, <3>0, <3>2 DEF Has
    <3> QED BY <1>1, <1>5, <2>3, <2>6, <3>0, <3>1, <3>3 DEF NodeOK, Agrees
  <2> QED BY <2>1, <2>5, <2>6 DEF Outcome
<1>6. ASSUME p = "evWait" PROVE NodeOK(p, o, g, v, lf, ls, sf, ss, T1, D, K1)
  <2>1. T = {t} /\ t = (IF v = "EVICT_SHARED" THEN "R_EVICT_SHARED" ELSE "R_EVICT_DIRTY")
    BY <1>1, <1>6 DEF Expects, Request
  <2>2. /\ ls = "NONE" /\ lf = "clear" /\ sf \in {"set", "clear"} /\ ss \in {"TO_SHARED", "TO_PRESERVED"}
        /\ ss = "TO_SHARED" => v = "EVICT_DIRTY"
    BY <1>1, <1>6 DEF Shape, InMiss, InEvict
  <2>3. T \cap EvictAck = {}
    BY <2>1 DEF EvictAck
  <2>4. CASE \/ T1 = {"DIR_2_APP_M_CHECK_FAIL"} /\ K1 = K
             \/ T1 = {"DIR_2_APP_BITMAP_CHECK_FAIL"} /\ K1 = K /\ K = "INVALID"
    <3>1. Expects(p, o, g, v, T1) /\ T1 \cap EvictAck = {}
      BY <1>6, <2>4 DEF Expects, EvictAck
    <3>2. h1 = h
      BY <1>6, <2>2, <2>3, <3>1 DEF Has
    <3> QED BY <1>1, <1>6, <2>2, <2>4, <3>1, <3>2 DEF NodeOK
  <2>5. CASE \/ t = "R_EVICT_SHARED" /\ K = "SHARED" /\ K1 = "INVALID" /\ T1 = {"DIR_2_APP_EVICT_SHARED_ACK"}
             \/ t = "R_EVICT_DIRTY" /\ K = "MODIFIED" /\ K1 = "INVALID" /\ T1 = {"DIR_2_APP_EVICT_DIRTY_ACK"}
    <3>0. /\ T1 # {} /\ T1 \subseteq EvictAck /\ "DIR_2_APP_BITMAP_CHECK_FAIL" \notin T1 /\ K # "INVALID" /\ K1 = "INVALID"
          /\ T1 = {"DIR_2_APP_EVICT_SHARED_ACK"} \/ T1 = {"DIR_2_APP_EVICT_DIRTY_ACK"}
          /\ v = "EVICT_SHARED" => K = "SHARED"
          /\ v # "EVICT_SHARED" => K = "MODIFIED"
      BY <2>1, <2>5 DEF EvictAck
    <3>1. sf = "clear" /\ D = {} /\ ss = "TO_PRESERVED"
      <4>1. h # "INVALID"
        BY <1>1, <3>0 DEF Agrees
      <4>2. sf = "clear"
        BY <2>2, <4>1 DEF Has
      <4>3. CASE ss = "TO_SHARED"
        <5>1. h = "SHARED" /\ K = "MODIFIED"
          BY <2>2, <3>0, <4>2, <4>3 DEF Has
        <5> QED BY <1>1, <5>1 DEF Agrees
      <4>4. CASE ss = "TO_PRESERVED"
        <5>1. h = IF v = "EVICT_SHARED" THEN "SHARED" ELSE "MODIFIED"
          BY <2>2, <2>3, <4>2, <4>4 DEF Has
        <5>2. D = {}
          BY <1>1, <3>0, <5>1 DEF Agrees
        <5> QED BY <4>2, <4>4, <5>2
      <4> QED BY <2>2, <4>3, <4>4
    <3>2. Expects(p, o, g, v, T1) /\ T1 \cap EvictAck # {}
      BY <1>6, <3>0 DEF Expects
    <3>3. h1 = "INVALID"
      BY <2>2, <3>1, <3>2 DEF Has
    <3> QED BY <1>1, <1>6, <2>2, <3>0, <3>1, <3>2, <3>3 DEF NodeOK, Agrees
  <2> QED BY <2>1, <2>4, <2>5 DEF Outcome
<1> QED BY <1>1, <1>2, <1>3, <1>4, <1>5, <1>6 DEF Shape, InMiss

\* Most tokens are alone.
LEMMA Alone ==
  ASSUME NEW p, NEW o, NEW g, NEW v, NEW lf, NEW ls, NEW sf, NEW ss, NEW T, NEW D, NEW K,
         NodeOK(p, o, g, v, lf, ls, sf, ss, T, D, K)
  PROVE  /\ T # {} => p \in {"wait", "evWait"}
         /\ \A t \in T : t \in Request \cup {ReadOrder, WriteOrder, SharedAck} => T = {t}
         /\ T \cap {ReadOrder, WriteOrder, SharedAck, MissAck} # {} => p = "wait"
         /\ MissAck \in T => T = {MissAck} \/ T = {MissAck, "DIR_2_APP_WRITE_MISS_SHAREDDATA"}
         /\ \A t \in T : T = {t} \/ t \in {MissAck} \cup Partial
<1> USE DEF ReadOrder, WriteOrder, MissAck, SharedAck, Partial
<1>1. Shape(p, o, v, lf, ls, sf, ss) /\ Expects(p, o, g, v, T)
  BY DEF NodeOK
<1>2. CASE p = "wait" /\ o = "readMiss"
  BY <1>1, <1>2 DEF Expects, Request
<1>3. CASE p = "wait" /\ o = "writeShared"
  BY <1>1, <1>3 DEF Expects, Request
<1>4. CASE p = "evWait"
  BY <1>1, <1>4 DEF Expects, Request
<1>5. CASE p \notin {"wait", "evWait"}
  BY <1>1, <1>5 DEF Expects
<1>6. CASE p = "wait" /\ o = "writeMiss"
  <2>1. \/ T = {"R_WRITE_MISS"} \/ T = {WriteOrder} \/ T = {"DIR_2_APP_M_CHECK_FAIL"}
        \/ T = {"DIR_2_APP_WRITE_MISS_ACKDATA"} \/ T = {"AGENT_2_APP_WRITE_MISS_DIRTY_ACKDATA"}
        \/ T = {MissAck, "DIR_2_APP_WRITE_MISS_SHAREDDATA"} \/ T = Partial
        \/ T = {MissAck} \/ T = {"DIR_2_APP_WRITE_MISS_SHARED_AGGACK_ACK"}
        \/ T = {"DIR_2_APP_WRITE_MISS_SHAREDDATA"}
    BY <1>1, <1>6 DEF Expects
  <2> QED BY <1>6, <2>1 DEF Request
<1> QED BY <1>1, <1>2, <1>3, <1>4, <1>5, <1>6 DEF Shape, InMiss

\* A reply to a miss.
LEMMA OkReply ==
  ASSUME NEW p, NEW o, NEW g, NEW v, NEW lf, NEW ls, NEW sf, NEW ss, NEW T, NEW D, NEW K,
         NodeOK(p, o, g, v, lf, ls, sf, ss, T, D, K), p = "wait",
         NEW t \in T \cap (ToApp \cup PeerAck)
  PROVE  NodeOK(AfterReply(o, g, t), o, g \cup {t}, v, lf, ls, sf, ss, T \ {t}, D, K)
<1> USE DEF ReadOrder, WriteOrder, MissAck, SharedAck, Partial
<1>1. Shape(p, o, v, lf, ls, sf, ss) /\ Expects(p, o, g, v, T)
  BY DEF NodeOK
<1>2. CASE T = {"DIR_2_APP_M_CHECK_FAIL"}
  <2>1. AfterReply(o, g, t) = "fail" /\ T \ {t} = {}
    BY <1>2 DEF AfterReply, Refusal
  <2> QED BY <1>2, <2>1, OkRefused
<1>3. CASE T = {"DIR_2_APP_BITMAP_CHECK_FAIL"}
  <2>1. AfterReply(o, g, t) = "spin" /\ T \ {t} = {}
    BY <1>3 DEF AfterReply, Refusal
  <2> QED BY <1>3, <2>1, OkToSpin
<1>4. ASSUME T = {t}, t \notin Request, t \notin Refusal, Complete(o, g \cup {t})
      PROVE  NodeOK(AfterReply(o, g, t), o, g \cup {t}, v, lf, ls, sf, ss, T \ {t}, D, K)
  <2>1. AfterReply(o, g, t) = "won" /\ T \ {t} = {}
    BY <1>4 DEF AfterReply, Refusal
  <2>2. T \cap (Request \cup Refusal) = {}
    BY <1>4
  <2> QED BY <2>1, <2>2, OkWon
<1>5. CASE o = "readMiss"
  <2>1. t \in {"DIR_2_APP_M_CHECK_FAIL", "DIR_2_APP_READ_MISS_ACKDATA", "AGENT_2_APP_READ_MISS_DIRTY_ACKDATA"}
        /\ T = {t}
    BY <1>1, <1>5 DEF Expects, ToApp, PeerAck
  <2>2. CASE t # "DIR_2_APP_M_CHECK_FAIL"
    <3>1. Complete(o, g \cup {t})
      BY <1>5, <2>1, <2>2 DEF Complete
    <3>2. t \notin Request /\ t \notin Refusal
      BY <2>1, <2>2 DEF Request, Refusal
    <3> QED BY <1>4, <2>1, <3>1, <3>2
  <2> QED BY <1>2, <2>1, <2>2
<1>6. CASE o = "writeShared"
  <2>1. t \in {"DIR_2_APP_M_CHECK_FAIL", "DIR_2_APP_BITMAP_CHECK_FAIL", "DIR_2_APP_WRITE_SHARED_ONLYACK",
               "DIR_2_APP_WRITE_SHARED_NOTONLY_AGGACK_ACK"} /\ T = {t}
    BY <1>1, <1>6 DEF Expects, ToApp, PeerAck
  <2>2. CASE t \notin Refusal
    <3>1. Complete(o, g \cup {t})
      BY <1>6, <2>1, <2>2 DEF Complete, Refusal
    <3>2. t \notin Request
      BY <2>1 DEF Request
    <3> QED BY <1>4, <2>1, <2>2, <3>1, <3>2
  <2> QED BY <1>2, <1>3, <2>1, <2>2 DEF Refusal
<1>7. CASE o = "writeMiss"
  <2> DEFINE data == "DIR_2_APP_WRITE_MISS_SHAREDDATA"
             agg == "DIR_2_APP_WRITE_MISS_SHARED_AGGACK_ACK"
  <2>1. \/ T = {t} /\ t \in {"DIR_2_APP_M_CHECK_FAIL", "DIR_2_APP_WRITE_MISS_ACKDATA", "AGENT_2_APP_WRITE_MISS_DIRTY_ACKDATA"}
        \/ T = {MissAck, data} /\ g = {} /\ t = data
        \/ T = Partial /\ g = {} /\ t \in Partial
        \/ T = {agg} /\ g = {data} /\ t = agg
        \/ T = {data} /\ g = {agg} /\ t = data
    BY <1>1, <1>7 DEF Expects, ToApp, PeerAck
  <2>2. CASE T = {t} /\ t \in {"DIR_2_APP_WRITE_MISS_ACKDATA", "AGENT_2_APP_WRITE_MISS_DIRTY_ACKDATA"}
    <3>1. Complete(o, g \cup {t}) /\ t \notin Request /\ t \notin Refusal
      BY <1>7, <2>2 DEF Complete, Request, Refusal
    <3> QED BY <1>4, <2>2, <3>1
  <2>3. CASE (T = {agg} /\ g = {data} /\ t = agg) \/ (T = {data} /\ g = {agg} /\ t = data)
    <3>1. g \cup {t} = {data, agg} /\ T = {t}
      BY <2>3
    <3>2. Complete(o, g \cup {t}) /\ t \notin Request /\ t \notin Refusal
      BY <1>7, <2>3, <3>1 DEF Complete, Request, Refusal
    <3> QED BY <1>4, <3>1, <3>2
  <2>4. ASSUME g = {}, t \in Partial
        PROVE  AfterReply(o, g, t) = "wait" /\ g \cup {t} = {t}
    <3>1. g \cup {t} = {t} /\ t \notin Refusal
      BY <2>4 DEF Refusal
    <3>2. {t} # {data, agg}
      OBVIOUS
    <3>3. {t} \cap {"AGENT_2_APP_WRITE_MISS_DIRTY_ACKDATA", "DIR_2_APP_WRITE_MISS_ACKDATA"} = {}
      BY <2>4
    <3>4. ~Complete(o, {t})
      BY <1>7, <3>2, <3>3 DEF Complete
    <3> QED BY <1>7, <2>4, <3>1, <3>4 DEF AfterReply, Refusal
  <2>5. CASE T = {MissAck, data} /\ g = {} /\ t = data
    <3>1. T \ {t} = {MissAck}
      BY <2>5
    <3> QED BY <1>7, <2>4, <2>5, <3>1, OkFirst
  <2>6. CASE T = Partial /\ g = {} /\ t \in Partial
    BY <1>7, <2>4, <2>6, OkEither
  <2> QED BY <1>2, <2>1, <2>2, <2>3, <2>5, <2>6
<1> QED BY <1>1, <1>5, <1>6, <1>7 DEF Shape, InMiss

\* A reply to an eviction.
LEMMA OkEvictReply ==
  ASSUME NEW p, NEW o, NEW g, NEW v, NEW lf, NEW ls, NEW sf, NEW ss, NEW T, NEW D, NEW K,
         NodeOK(p, o, g, v, lf, ls, sf, ss, T, D, K), p = "evWait",
         NEW t \in T \cap (ToApp \cup PeerAck)
  PROVE  T = {t} /\ t \in EvictAck \cup Refusal
BY DEF NodeOK, Expects, ToApp, PeerAck, EvictAck, Refusal

------------------------------------------------------------------------------
(* Queues whose messages all differ in type *)

LEMMA DistinctIs ==
  ASSUME NEW q
  PROVE  Distinct(q) <=> \A t : AtMostOne(q, {t})
BY DEF Distinct, AtMostOne

LEMMA DistinctRemove ==
  ASSUME NEW q \in Seq(Msg), NEW i \in DOMAIN q, Distinct(q)
  PROVE  /\ Distinct(RemoveAt(q, i))
         /\ Types(RemoveAt(q, i)) = Types(q) \ {q[i].type}
         /\ q[i].type \in Types(q)
<1> DEFINE r == RemoveAt(q, i)
           t == q[i].type
<1>1. /\ q[i] \in Range(q) /\ Range(q) = Range(r) \cup {q[i]}
      /\ \A P : AtMostOne(q, P) =>
              /\ AtMostOne(r, P)
              /\ q[i].type \in P => \A m \in Range(r) : m.type \notin P
  BY Removing
<1> HIDE DEF r
<1>2. \A u : AtMostOne(q, {u})
  BY DistinctIs
<1>3. \A u : AtMostOne(r, {u})
  BY <1>1, <1>2
<1>4. Distinct(r)
  BY <1>3, DistinctIs
<1>5. \A m \in Range(r) : m.type \notin {t}
  BY <1>1, <1>2
<1>6. Types(r) = Types(q) \ {t} /\ t \in Types(q)
  BY <1>1, <1>5 DEF Types
<1> QED BY <1>4, <1>6 DEF r

LEMMA DistinctTail ==
  ASSUME NEW q \in Seq(Msg), q # <<>>, Distinct(q)
  PROVE  /\ Distinct(Tail(q))
         /\ Types(Tail(q)) = Types(q) \ {Head(q).type}
         /\ Head(q).type \in Types(q)
<1> DEFINE r == Tail(q)
           t == Head(q).type
<1>1. /\ Head(q) \in Range(q) /\ Range(q) = Range(r) \cup {Head(q)}
      /\ \A P : AtMostOne(q, P) =>
              /\ AtMostOne(r, P)
              /\ Head(q).type \in P => \A m \in Range(r) : m.type \notin P
  BY Taking
<1> HIDE DEF r
<1>2. \A u : AtMostOne(q, {u})
  BY DistinctIs
<1>3. \A u : AtMostOne(r, {u})
  BY <1>1, <1>2
<1>4. Distinct(r)
  BY <1>3, DistinctIs
<1>5. \A m \in Range(r) : m.type \notin {t}
  BY <1>1, <1>2
<1>6. Types(r) = Types(q) \ {t} /\ t \in Types(q)
  BY <1>1, <1>5 DEF Types
<1> QED BY <1>4, <1>6 DEF r

LEMMA TypesAppend ==
  ASSUME NEW q \in Seq(Msg), NEW x \in Msg
  PROVE  /\ Types(Append(q, x)) = Types(q) \cup {x.type}
         /\ Distinct(q) /\ x.type \notin Types(q) => Distinct(Append(q, x))
<1> DEFINE r == Append(q, x)
<1>1. /\ Range(r) = Range(q) \cup {x}
      /\ \A P : AtMostOne(q, P) /\ (x.type \notin P \/ \A m \in Range(q) : m.type \notin P) => AtMostOne(r, P)
  BY Appending
<1> HIDE DEF r
<1>2. Types(r) = Types(q) \cup {x.type}
  BY <1>1 DEF Types
<1>3. ASSUME Distinct(q), x.type \notin Types(q) PROVE Distinct(r)
  <2>1. \A u : AtMostOne(q, {u})
    BY <1>3, DistinctIs
  <2>2. \A u : x.type \notin {u} \/ \A m \in Range(q) : m.type \notin {u}
    BY <1>3 DEF Types
  <2>3. \A u : AtMostOne(r, {u})
    BY <1>1, <2>1, <2>2
  <2> QED BY <2>3, DistinctIs
<1> QED BY <1>2, <1>3 DEF r

LEMMA TypesStale ==
  ASSUME NEW q \in Seq(Msg)
  PROVE  /\ Types(StaleQueue(q)) = Types(q)
         /\ Distinct(q) => Distinct(StaleQueue(q))
         /\ \A t, r : (\E m \in Range(StaleQueue(q)) : m.type = t /\ m.req = r) <=> (\E m \in Range(q) : m.type = t /\ m.req = r)
<1>1. /\ DOMAIN StaleQueue(q) = DOMAIN q
      /\ \A i \in DOMAIN q : /\ StaleQueue(q)[i].type = q[i].type
                             /\ StaleQueue(q)[i].req = q[i].req
  BY StaleIs
<1> HIDE DEF StaleQueue
<1>2. \A t : t \in Types(q) <=> \E i \in DOMAIN q : t = q[i].type
  BY DEF Types, Range
<1>3. \A t : t \in Types(StaleQueue(q)) <=> \E i \in DOMAIN q : t = StaleQueue(q)[i].type
  BY <1>1 DEF Types, Range
<1>4. Types(StaleQueue(q)) = Types(q)
  <2>1. \A t : t \in Types(StaleQueue(q)) <=> t \in Types(q)
    BY <1>1, <1>2, <1>3
  <2> QED BY <2>1
<1>5. Distinct(q) => Distinct(StaleQueue(q))
  BY <1>1 DEF Distinct
<1>6. ASSUME NEW t, NEW r
      PROVE  (\E m \in Range(StaleQueue(q)) : m.type = t /\ m.req = r) <=> (\E m \in Range(q) : m.type = t /\ m.req = r)
  <2>1. (\E m \in Range(StaleQueue(q)) : m.type = t /\ m.req = r) <=> \E i \in DOMAIN q : StaleQueue(q)[i].type = t /\ StaleQueue(q)[i].req = r
    BY <1>1 DEF Range
  <2>2. (\E m \in Range(q) : m.type = t /\ m.req = r) <=> \E i \in DOMAIN q : q[i].type = t /\ q[i].req = r
    BY DEF Range
  <2> QED BY <1>1, <2>1, <2>2
<1> QED BY <1>4, <1>5, <1>6

------------------------------------------------------------------------------
(* The mail of an agent *)

\* The FPGA hands an order to the agent's queue.
LEMMA AgentPassOn ==
  ASSUME NEW a, NEW q \in Seq(Msg), NEW ls, NEW ss, NEW d, NEW x \in Msg,
         AgentOK(a, q, d, ls, ss), d = {x.type}
  PROVE  /\ AgentOK(a, Append(q, x), {}, ls, ss)
         /\ Mail(a, Append(q, x), {}) = Mail(a, q, d)
<1> DEFINE r == Append(q, x)
<1>1. Types(r) = Types(q) \cup {x.type} /\ Distinct(r)
  BY TypesAppend DEF AgentOK
<1>2. /\ Len(q) \in Nat /\ DOMAIN q = 1 .. Len(q) /\ DOMAIN r = 1 .. Len(q) + 1
      /\ \A j \in 1 .. Len(q) : r[j] = q[j]
      /\ r[Len(q) + 1] = x
  BY AppendProperties
<1> HIDE DEF r
<1>3. ASSUME x.type = ReadOrder PROVE Len(q) = 0 /\ a.type = "none"
  <2>1. Types(q) = {} /\ a.type = "none"
    BY <1>3 DEF AgentOK
  <2>2. \A j \in DOMAIN q : q[j].type \in Types(q)
    BY DEF Types, Range
  <2>3. ~ (1 \in DOMAIN q)
    BY <2>1, <2>2
  <2> QED BY <1>2, <2>1, <2>3
<1>4. ASSUME NEW i \in DOMAIN r, r[i].type = ReadOrder PROVE i = 1 /\ a.type = "none"
  <2>1. CASE i \in DOMAIN q
    BY <1>2, <1>4, <2>1 DEF AgentOK
  <2>2. CASE i = Len(q) + 1
    BY <1>2, <1>3, <1>4, <2>2
  <2> QED BY <1>2, <2>1, <2>2
<1>5. AgentOK(a, r, {}, ls, ss)
  BY <1>1, <1>4 DEF AgentOK
<1>6. Mail(a, r, {}) = Mail(a, q, d)
  BY <1>1 DEF Mail
<1> QED BY <1>5, <1>6 DEF r

\* The agent takes an order and finds a line.
LEMMA AgentTakes ==
  ASSUME NEW a, NEW q \in Seq(Msg), NEW ls, NEW ss, NEW d, NEW at, q # <<>>,
         AgentOK(a, q, d, ls, ss), a.type = "none",
         (at = "line" /\ ls # "NONE") \/ (at = "shad" /\ ss # "PRESERVED"),
         Head(q).type # "none"
  PROVE  /\ AgentOK([type |-> Head(q).type, at |-> at], Tail(q), d, ls, ss)
         /\ Mail([type |-> Head(q).type, at |-> at], Tail(q), d) = Mail(a, q, d)
<1> DEFINE b == [type |-> Head(q).type, at |-> at]
           t == Head(q).type
           r == Tail(q)
<1>1. b.type = t /\ b.at = at
  OBVIOUS
<1>2. Distinct(r) /\ Types(r) = Types(q) \ {t} /\ t \in Types(q)
  BY DistinctTail DEF AgentOK
<1>3. /\ Len(q) \in Nat /\ DOMAIN q = 1 .. Len(q) /\ DOMAIN r = 1 .. Len(q) - 1
      /\ \A j \in 1 .. Len(q) - 1 : r[j] = q[j + 1]
  BY HeadTailProperties
<1> HIDE DEF b, r, t
<1>4. t # "none"
  BY DEF t
<1>5. ReadOrder \in d => FALSE
  BY <1>2 DEF AgentOK
<1>6. ASSUME NEW i \in DOMAIN r, r[i].type = ReadOrder PROVE FALSE
  <2>1. i + 1 \in DOMAIN q /\ q[i + 1].type = ReadOrder /\ i + 1 # 1
    BY <1>3, <1>6
  <2> QED BY <2>1 DEF AgentOK
<1>7. t \notin d /\ Types(r) \cap d = {}
  BY <1>2 DEF AgentOK
<1>8. AgentOK(b, r, d, ls, ss)
  BY <1>1, <1>2, <1>4, <1>5, <1>6, <1>7 DEF AgentOK
<1>9. Mail(b, r, d) = Mail(a, q, d)
  BY <1>1, <1>2, <1>4 DEF Mail
<1> QED BY <1>8, <1>9 DEF b, r, t

\* The agent is done with its order.
LEMMA AgentDone ==
  ASSUME NEW a, NEW q \in Seq(Msg), NEW ls, NEW ss, NEW d, NEW ls1, NEW ss1,
         AgentOK(a, q, d, ls, ss), a.type # "none", "none" \notin Types(q) \cup d
  PROVE  /\ AgentOK(AgentIdle, q, d, ls1, ss1)
         /\ a.type \in Mail(a, q, d)
         /\ Mail(AgentIdle, q, d) = Mail(a, q, d) \ {a.type}
         /\ ReadOrder \in Mail(a, q, d) => a.type = ReadOrder
<1>1. AgentIdle.type = "none" /\ AgentIdle.at = "none"
  BY DEF AgentIdle
<1>2. "none" \notin Types(q) \cup d => AgentOK(AgentIdle, q, d, ls1, ss1)
  BY <1>1 DEF AgentOK
<1>3. Mail(AgentIdle, q, d) = Mail(a, q, d) \ {a.type} /\ a.type \in Mail(a, q, d)
  BY <1>1 DEF Mail, AgentOK
<1>4. ASSUME ReadOrder \in Types(q) PROVE FALSE
  <2>1. PICK i \in DOMAIN q : q[i].type = ReadOrder
    BY <1>4 DEF Types, Range
  <2> QED BY <2>1 DEF AgentOK
<1>5. ReadOrder \in Mail(a, q, d) => a.type = ReadOrder
  BY <1>4 DEF Mail, AgentOK
<1> QED BY <1>2, <1>3, <1>5

\* The directory sends the agent an order.
LEMMA AgentOrdered ==
  ASSUME NEW a, NEW q, NEW ls, NEW ss, NEW w, AgentOK(a, q, {}, ls, ss), w \notin Mail(a, q, {}),
         w # "none", w = ReadOrder => Mail(a, q, {}) = {}
  PROVE  /\ AgentOK(a, q, {w}, ls, ss)
         /\ Mail(a, q, {w}) = Mail(a, q, {}) \cup {w}
<1>1. w = ReadOrder => Types(q) = {} /\ a.type = "none"
  BY DEF Mail
<1>2. w \notin Types(q) /\ w # a.type
  BY DEF Mail
<1> QED BY <1>1, <1>2 DEF AgentOK, Mail

\* Nothing in the mail: the agent rests.
LEMMA AgentRests ==
  ASSUME NEW a, NEW q, NEW d, NEW ls, NEW ss, AgentOK(a, q, d, ls, ss), Mail(a, q, d) = {}
  PROVE  a.type = "none" /\ a.at = "none" /\ d = {} /\ Types(q) = {}
BY DEF AgentOK, Mail

------------------------------------------------------------------------------
(* What the steps of the directory change in its view *)

\* Nothing is under way.
LEMMA ViewStable ==
  ASSUME NEW e, NEW c, NEW o, c.type = "none", o = {}
  PROVE  \A n : /\ RoundsIn(c, o, n) = {}
                /\ e.state = "S_UNSHARED" => KnownIn(e, c, o, n) = "INVALID"
                /\ e.state = "S_SHARED" => KnownIn(e, c, o, n) = IF n \in e.bitmap THEN "SHARED" ELSE "INVALID"
                /\ e.state = "S_DIRTY" => KnownIn(e, c, o, n) = IF n \in e.bitmap THEN "MODIFIED" ELSE "INVALID"
BY DEF RoundsIn, Round, KnownIn

\* The owner a hands the block over to r.
Handover(e, c, o, a, r) ==
  /\ c.type = "none" /\ c.left = {} /\ e.bitmap = {a}
  /\ \A m \in o : m.req = r /\ m.type \notin {MissAck, SharedAck}
  /\ o # {}

LEMMA ViewHandover ==
  ASSUME NEW e, NEW c, NEW o, NEW a, NEW r, Handover(e, c, o, a, r)
  PROVE  \A n : /\ RoundsIn(c, o, n) = {}
                /\ e.state = "S_TO_SHARED" => KnownIn(e, c, o, n) = IF n = a \/ n = r THEN "SHARED" ELSE "INVALID"
                /\ e.state = "S_TO_DIRTY" => KnownIn(e, c, o, n) = IF n = r THEN "MODIFIED" ELSE "INVALID"
<1> SUFFICES ASSUME NEW n
             PROVE  /\ RoundsIn(c, o, n) = {}
                    /\ e.state = "S_TO_SHARED" => KnownIn(e, c, o, n) = IF n = a \/ n = r THEN "SHARED" ELSE "INVALID"
                    /\ e.state = "S_TO_DIRTY" => KnownIn(e, c, o, n) = IF n = r THEN "MODIFIED" ELSE "INVALID"
  OBVIOUS
<1>3. Wanted(c, o, n) <=> n = r
  BY DEF Handover, Wanted
<1>4. RoundsIn(c, o, n) = {}
  BY DEF Handover, RoundsIn, Round
<1>5. ToCopy(c) = {}
  BY DEF Handover, ToCopy
<1> QED BY <1>3, <1>4, <1>5 DEF Handover, KnownIn

\* The sharers are being invalidated for r.
InRound(e, c, o, t, r) ==
  /\ e.state = "S_TO_DIRTY" /\ t \in {MissAck, SharedAck}
  /\ \A m \in o : m.type = t /\ m.req = r
  /\ c.type \in {"none", IF t = MissAck THEN "R_WRITE_MISS" ELSE "R_WRITE_SHARED"}
  /\ c.type # "none" => c.req = r
  /\ c.type # "none" \/ o # {}

LEMMA ViewRound ==
  ASSUME NEW e, NEW c, NEW o, NEW t, NEW r, InRound(e, c, o, t, r)
  PROVE  \A n : /\ RoundsIn(c, o, n) = IF n = r THEN {t} ELSE {}
                /\ KnownIn(e, c, o, n) = IF n = r THEN "MODIFIED"
                                         ELSE IF n \in ToCopy(c) THEN "SHARED" ELSE "INVALID"
<1> SUFFICES ASSUME NEW n
             PROVE  /\ RoundsIn(c, o, n) = IF n = r THEN {t} ELSE {}
                    /\ KnownIn(e, c, o, n) = IF n = r THEN "MODIFIED"
                                             ELSE IF n \in ToCopy(c) THEN "SHARED" ELSE "INVALID"
  OBVIOUS
<1>1. Wanted(c, o, n) <=> n = r
  BY DEF InRound, Wanted
<1>2. MissAck # SharedAck
  BY DEF MissAck, SharedAck
<1>3. CASE t = MissAck
  <2>1. Round(c, o, "R_WRITE_MISS", MissAck, n) <=> n = r
    BY <1>3 DEF InRound, Round
  <2>2. ~Round(c, o, "R_WRITE_SHARED", SharedAck, n)
    BY <1>2, <1>3 DEF InRound, Round
  <2>3. RoundsIn(c, o, n) = IF n = r THEN {t} ELSE {}
    BY <1>3, <2>1, <2>2 DEF RoundsIn
  <2> QED BY <1>1, <2>3 DEF InRound, KnownIn
<1>4. CASE t = SharedAck
  <2>1. Round(c, o, "R_WRITE_SHARED", SharedAck, n) <=> n = r
    BY <1>2, <1>4 DEF InRound, Round
  <2>2. ~Round(c, o, "R_WRITE_MISS", MissAck, n)
    BY <1>2, <1>4 DEF InRound, Round
  <2>3. RoundsIn(c, o, n) = IF n = r THEN {t} ELSE {}
    BY <1>4, <2>1, <2>2 DEF RoundsIn
  <2> QED BY <1>1, <2>3 DEF InRound, KnownIn
<1> QED BY <1>3, <1>4 DEF InRound

\* What a request t of node n leads to: the directory's messages out go to n, or to an
\* owner that then has less than it had; nothing changes for others.
Turned(t, n, e, c, o, e1, c1, o1, out) ==
  /\ \A x \in out : x.req = n /\ (x.type \in ToAgent => x.type \in {ReadOrder, WriteOrder} /\ x.agent # n)
  /\ Outcome(t, KnownIn(e, c, o, n), {x.type : x \in out} \cup RoundsIn(c1, o1, n), KnownIn(e1, c1, o1, n))
  /\ \A b \in Node : b # n => RoundsIn(c1, o1, b) = RoundsIn(c, o, b)
  /\ \A b \in Node : b # n =>
       \/ /\ KnownIn(e1, c1, o1, b) = KnownIn(e, c, o, b)
          /\ \A x \in out : x.type \in ToAgent => x.agent # b
       \/ \E x \in out : /\ x.type \in ToAgent /\ x.agent = b
                         /\ KnownIn(e, c, o, b) = "MODIFIED"
                         /\ KnownIn(e1, c1, o1, b) = IF x.type = ReadOrder THEN "SHARED" ELSE "INVALID"

\* A refusal.
LEMMA TurnedDown ==
  ASSUME NEW t \in Request, NEW n \in Node, NEW e, NEW c, NEW o, NEW e1, NEW c1, NEW o1,
         EntryInv(e, c, o), RoundsIn(c, o, n) = {}, NEW u \in Refusal, NEW out,
         c.type = "none", Writes(Refuse(e, u, n), e1, c1), out = Refuse(e, u, n).out, o1 = o \cup Owing(out),
         u = "DIR_2_APP_BITMAP_CHECK_FAIL" =>
           (KnownIn(e, c, o, n) # "INVALID" <=> t \in {"R_READ_MISS", "R_WRITE_MISS"})
  PROVE  Turned(t, n, e, c, o, e1, c1, o1, out)
<1>1. u \in ToApp
  BY DEF Refusal, ToApp
<1>3. out = {ToReq(u, n)}
  BY DEF Refuse, Result
<1>2. e1 = e /\ c1 = c /\ o1 = o
  <2>1. e1 = e /\ c1 = NoCopy
    BY DEF Refuse, Result, Writes
  <2>2. c = NoCopy
    BY DEF EntryInv, CopyIdle
  <2>3. Owing(out) = {}
    BY <1>1, <1>3, OwingToApp
  <2> QED BY <2>1, <2>2, <2>3
<1>4. ToReq(u, n).type = u /\ ToReq(u, n).req = n
  BY DEF ToReq
<1>5. {x.type : x \in out} \cup RoundsIn(c1, o1, n) = {u}
  BY <1>2, <1>3, <1>4
<1>6. Outcome(t, KnownIn(e, c, o, n), {u}, KnownIn(e, c, o, n))
  BY DEF Outcome, Refusal
<1>7. u \notin ToAgent
  BY <1>1, Kinds
<1> QED BY <1>2, <1>3, <1>4, <1>5, <1>6, <1>7 DEF Turned

\* A request that is granted at once, or opens a round of invalidations.
LEMMA TurnedToReply ==
  ASSUME NEW t \in Request, NEW n \in Node, NEW e, NEW c, NEW o, NEW e1, NEW c1, NEW o1,
         NEW u \in ToApp, NEW out, out = {} \/ out = {ToReq(u, n)},
         \A b \in Node : b # n => /\ RoundsIn(c1, o1, b) = RoundsIn(c, o, b)
                                  /\ KnownIn(e1, c1, o1, b) = KnownIn(e, c, o, b),
         Outcome(t, KnownIn(e, c, o, n), (IF out = {} THEN {} ELSE {u}) \cup RoundsIn(c1, o1, n), KnownIn(e1, c1, o1, n))
  PROVE  Turned(t, n, e, c, o, e1, c1, o1, out)
<1>1. ToReq(u, n).type = u /\ ToReq(u, n).req = n
  BY DEF ToReq
<1>2. {x.type : x \in out} = IF out = {} THEN {} ELSE {u}
  BY <1>1
<1>3. u \notin ToAgent
  BY Kinds
<1> QED BY <1>1, <1>2, <1>3 DEF Turned

\* A request that goes on to the owner.
LEMMA TurnedToOwner ==
  ASSUME NEW t \in Request, NEW n \in Node, NEW e, NEW c, NEW o, NEW e1, NEW c1, NEW o1,
         NEW a \in Node, a # n, NEW w \in {ReadOrder, WriteOrder}, NEW out,
         out = {[type |-> w, req |-> n, agent |-> a]},
         \A b \in Node : b # n => RoundsIn(c1, o1, b) = RoundsIn(c, o, b),
         \A b \in Node : b # n /\ b # a => KnownIn(e1, c1, o1, b) = KnownIn(e, c, o, b),
         KnownIn(e, c, o, a) = "MODIFIED",
         KnownIn(e1, c1, o1, a) = (IF w = ReadOrder THEN "SHARED" ELSE "INVALID"),
         Outcome(t, KnownIn(e, c, o, n), {w}, KnownIn(e1, c1, o1, n)), RoundsIn(c1, o1, n) = {}
  PROVE  Turned(t, n, e, c, o, e1, c1, o1, out)
<1> DEFINE x == [type |-> w, req |-> n, agent |-> a]
<1>1. x.type = w /\ x.req = n /\ x.agent = a /\ out = {x}
  OBVIOUS
<1> HIDE DEF x
<1>2. {y.type : y \in out} \cup RoundsIn(c1, o1, n) = {w}
  BY <1>1
<1>3. w \in ToAgent
  BY OrderKinds
<1> QED BY <1>1, <1>2, <1>3 DEF Turned

\* What each request leads to.
LEMMA ReadMissTurned ==
  ASSUME NEW n \in Node, NEW e, NEW c, NEW o, NEW e1, NEW c1, NEW o1,
         EntryInv(e, c, o), RoundsIn(c, o, n) = {}, Requested("R_READ_MISS", n, e, c, o, e1, c1, o1)
  PROVE  Turned("R_READ_MISS", n, e, c, o, e1, c1, o1, HandleRequest(e, "R_READ_MISS", n).out)
<1> DEFINE out == HandleRequest(e, "R_READ_MISS", n).out
<1>1. /\ c.type = "none"
      /\ Writes(ReadMiss(e, n), e1, c1)
      /\ out = ReadMiss(e, n).out
      /\ o1 = o \cup Owing(out)
      /\ "R_READ_MISS" \in Request
  BY DEF Requested, HandleRequest, Request
<1> HIDE DEF out
<1>2. ASSUME e.state \in {"S_UNSHARED", "S_SHARED", "S_DIRTY"}
      PROVE  /\ o = {} /\ c = NoCopy /\ c.type = "none" /\ c.left = {} /\ e.bitmap \in SUBSET Node
             /\ e = [state |-> e.state, bitmap |-> e.bitmap, count |-> e.count]
             /\ e.state = "S_UNSHARED" => e.bitmap = {}
  BY <1>1, <1>2, StableFacts DEF NoCopy, EntryInv, EntryConsistent, StableConsistent
<1>3. CASE e.state \in {"S_UNSHARED", "S_SHARED"} /\ n \notin e.bitmap
  <2>1. ReadMiss(e, n) =
          Result([state |-> "S_SHARED", bitmap |-> e.bitmap \cup {n}, count |-> Byte(e.count + 1)],
                 {ToReq("DIR_2_APP_READ_MISS_ACKDATA", n)}, NoCopy)
    BY <1>3 DEF ReadMiss
  <2>2. out = {ToReq("DIR_2_APP_READ_MISS_ACKDATA", n)} /\ c1 = NoCopy
    BY <1>1, <2>1 DEF Result, Writes
  <2>3. e1.state = "S_SHARED" /\ e1.bitmap = e.bitmap \cup {n}
    BY <1>1, <2>1 DEF Result, Writes
  <2>4. "DIR_2_APP_READ_MISS_ACKDATA" \in ToApp
    BY DEF ToApp
  <2>5. o1 = {} /\ o = {} /\ c1.type = "none" /\ c.type = "none"
    BY <1>1, <1>2, <1>3, <2>2, <2>4, OwingToApp DEF NoCopy
  <2>6. \A b : /\ RoundsIn(c, o, b) = {} /\ RoundsIn(c1, o1, b) = {}
               /\ KnownIn(e1, c1, o1, b) = IF b \in e1.bitmap THEN "SHARED" ELSE "INVALID"
               /\ KnownIn(e, c, o, b) = IF b \in e.bitmap THEN "SHARED" ELSE "INVALID"
    BY <1>2, <1>3, <2>3, <2>5, ViewStable
  <2>7. KnownIn(e, c, o, n) = "INVALID" /\ KnownIn(e1, c1, o1, n) = "SHARED"
    BY <1>3, <2>3, <2>6
  <2>8. Outcome("R_READ_MISS", "INVALID", {"DIR_2_APP_READ_MISS_ACKDATA"} \cup {}, "SHARED")
    BY DEF Outcome
  <2>9. \A b \in Node : b # n => /\ RoundsIn(c1, o1, b) = RoundsIn(c, o, b)
                                 /\ KnownIn(e1, c1, o1, b) = KnownIn(e, c, o, b)
    BY <2>3, <2>6
  <2> QED BY <1>1, <2>2, <2>4, <2>6, <2>7, <2>8, <2>9, TurnedToReply DEF out
<1>4. CASE e.state = "S_DIRTY" /\ n \notin e.bitmap
  <2>1. PICK a \in Node : e.bitmap = {a}
    BY <1>4 DEF EntryInv, EntryConsistent, StableConsistent
  <2>2. AgentNode(e) = a /\ a # n
    BY <1>4, <2>1, AgentNodeOfOwner
  <2>3. ReadMiss(e, n) = Result([e EXCEPT !.state = "S_TO_SHARED"],
                 {[type |-> "DIR_2_AGENT_READ_MISS_DIRTY", req |-> n, agent |-> a]}, NoCopy)
    BY <1>4, <2>2 DEF ReadMiss
  <2>4. out = {[type |-> ReadOrder, req |-> n, agent |-> a]} /\ c1 = NoCopy
    BY <1>1, <2>3 DEF Result, Writes, ReadOrder
  <2>5. e1.state = "S_TO_SHARED" /\ e1.bitmap = {a}
    BY <1>1, <1>2, <1>4, <2>1, <2>3 DEF Result, Writes
  <2>6. Owing(out) = {[type |-> "AGENT_2_DIR_READ_MISS_DIRTY_ACKDATA", req |-> n, agent |-> a]}
    <3>1. AckOf(ReadOrder) = "AGENT_2_DIR_READ_MISS_DIRTY_ACKDATA" /\ ReadOrder \in ToAgent
      BY DEF AckOf, ReadOrder, ToAgent
    <3> QED BY <2>4, <3>1, OwingOne
  <2>7. /\ o1 = {[type |-> "AGENT_2_DIR_READ_MISS_DIRTY_ACKDATA", req |-> n, agent |-> a]}
        /\ c1.type = "none" /\ c1.left = {} /\ "AGENT_2_DIR_READ_MISS_DIRTY_ACKDATA" \notin {MissAck, SharedAck}
    BY <1>1, <1>2, <1>4, <2>4, <2>6 DEF NoCopy, MissAck, SharedAck
  <2>8. \A b : /\ RoundsIn(c1, o1, b) = {}
               /\ KnownIn(e1, c1, o1, b) = IF b = a \/ b = n THEN "SHARED" ELSE "INVALID"
    <3>1. Handover(e1, c1, o1, a, n)
      BY <2>5, <2>7 DEF Handover
    <3>3. \A b : /\ RoundsIn(c1, o1, b) = {}
                 /\ e1.state = "S_TO_SHARED" => KnownIn(e1, c1, o1, b) = IF b = a \/ b = n THEN "SHARED" ELSE "INVALID"
      BY <3>1, ViewHandover
    <3> QED BY <2>5, <3>3
  <2>9. \A b : /\ RoundsIn(c, o, b) = {}
               /\ KnownIn(e, c, o, b) = IF b = a THEN "MODIFIED" ELSE "INVALID"
    BY <1>2, <1>4, <2>1, ViewStable
  <2>10. Outcome("R_READ_MISS", "INVALID", {ReadOrder}, "SHARED")
    BY DEF Outcome
  <2>11. /\ \A b \in Node : b # n => RoundsIn(c1, o1, b) = RoundsIn(c, o, b)
         /\ \A b \in Node : b # n /\ b # a => KnownIn(e1, c1, o1, b) = KnownIn(e, c, o, b)
    BY <2>8, <2>9
  <2>12. /\ KnownIn(e, c, o, a) = "MODIFIED" /\ KnownIn(e, c, o, n) = "INVALID"
         /\ KnownIn(e1, c1, o1, a) = "SHARED" /\ KnownIn(e1, c1, o1, n) = "SHARED"
         /\ RoundsIn(c1, o1, n) = {}
    BY <2>2, <2>8, <2>9
  <2>13. Turned("R_READ_MISS", n, e, c, o, e1, c1, o1, out)
    BY <1>1, <2>2, <2>4, <2>10, <2>11, <2>12, TurnedToOwner
  <2> QED BY <2>13 DEF out
<1>5. CASE e.state \in {"S_UNSHARED", "S_SHARED", "S_DIRTY"} /\ n \in e.bitmap
  <2>1. ReadMiss(e, n) = Refuse(e, "DIR_2_APP_BITMAP_CHECK_FAIL", n)
    BY <1>5 DEF ReadMiss, BitmapCheckFail
  <2>2. KnownIn(e, c, o, n) # "INVALID"
    BY <1>2, <1>5, ViewStable
  <2>3. "DIR_2_APP_BITMAP_CHECK_FAIL" \in Refusal
    BY DEF Refusal
  <2> QED BY <1>1, <2>1, <2>2, <2>3, TurnedDown DEF out
<1>6. CASE e.state \notin {"S_UNSHARED", "S_SHARED", "S_DIRTY"}
  <2>1. ReadMiss(e, n) = Refuse(e, "DIR_2_APP_M_CHECK_FAIL", n)
    BY <1>6 DEF ReadMiss, MCheckFail
  <2>2. "DIR_2_APP_M_CHECK_FAIL" \in Refusal
    BY DEF Refusal
  <2> QED BY <1>1, <2>1, <2>2, TurnedDown DEF out
<1> QED BY <1>3, <1>4, <1>5, <1>6 DEF out


LEMMA WriteMissTurned ==
  ASSUME NEW n \in Node, NEW e, NEW c, NEW o, NEW e1, NEW c1, NEW o1,
         EntryInv(e, c, o), RoundsIn(c, o, n) = {}, Requested("R_WRITE_MISS", n, e, c, o, e1, c1, o1)
  PROVE  Turned("R_WRITE_MISS", n, e, c, o, e1, c1, o1, HandleRequest(e, "R_WRITE_MISS", n).out)
<1> DEFINE out == HandleRequest(e, "R_WRITE_MISS", n).out
<1>1. /\ c.type = "none"
      /\ Writes(WriteMiss(e, n), e1, c1)
      /\ out = WriteMiss(e, n).out
      /\ o1 = o \cup Owing(out)
      /\ "R_WRITE_MISS" \in Request
  BY DEF Requested, HandleRequest, Request
<1> HIDE DEF out
<1>2. ASSUME e.state \in {"S_UNSHARED", "S_SHARED", "S_DIRTY"}
      PROVE  /\ o = {} /\ c = NoCopy /\ c.type = "none" /\ c.left = {} /\ e.bitmap \in SUBSET Node
             /\ e = [state |-> e.state, bitmap |-> e.bitmap, count |-> e.count]
             /\ e.state = "S_UNSHARED" => e.bitmap = {}
  BY <1>1, <1>2, StableFacts DEF NoCopy, EntryInv, EntryConsistent, StableConsistent
<1>3. CASE e.state = "S_UNSHARED" /\ n \notin e.bitmap
  <2>1. WriteMiss(e, n) =
          Result([state |-> "S_DIRTY", bitmap |-> e.bitmap \cup {n}, count |-> 1],
                 {ToReq("DIR_2_APP_WRITE_MISS_ACKDATA", n)}, NoCopy)
    BY <1>3 DEF WriteMiss
  <2>2. out = {ToReq("DIR_2_APP_WRITE_MISS_ACKDATA", n)} /\ c1 = NoCopy
    BY <1>1, <2>1 DEF Result, Writes
  <2>3. e1.state = "S_DIRTY" /\ e1.bitmap = {n}
    BY <1>1, <1>2, <1>3, <2>1 DEF Result, Writes
  <2>4. "DIR_2_APP_WRITE_MISS_ACKDATA" \in ToApp
    BY DEF ToApp
  <2>5. o1 = {} /\ o = {} /\ c1.type = "none" /\ c.type = "none"
    BY <1>1, <1>2, <1>3, <2>2, <2>4, OwingToApp DEF NoCopy
  <2>6. \A b : /\ RoundsIn(c, o, b) = {} /\ RoundsIn(c1, o1, b) = {}
               /\ KnownIn(e1, c1, o1, b) = IF b \in e1.bitmap THEN "MODIFIED" ELSE "INVALID"
               /\ KnownIn(e, c, o, b) = "INVALID"
    BY <1>3, <2>3, <2>5, ViewStable
  <2>7. KnownIn(e, c, o, n) = "INVALID" /\ KnownIn(e1, c1, o1, n) = "MODIFIED"
    BY <2>3, <2>6
  <2>8. Outcome("R_WRITE_MISS", "INVALID", {"DIR_2_APP_WRITE_MISS_ACKDATA"} \cup {}, "MODIFIED")
    BY DEF Outcome
  <2>9. \A b \in Node : b # n => /\ RoundsIn(c1, o1, b) = RoundsIn(c, o, b)
                                 /\ KnownIn(e1, c1, o1, b) = KnownIn(e, c, o, b)
    BY <2>3, <2>6
  <2> QED BY <1>1, <2>2, <2>4, <2>6, <2>7, <2>8, <2>9, TurnedToReply DEF out
<1>4. CASE e.state = "S_SHARED" /\ n \notin e.bitmap
  <2>1. WriteMiss(e, n) = Result([e EXCEPT !.state = "S_TO_DIRTY"],
                {ToReq("DIR_2_APP_WRITE_MISS_SHAREDDATA", n)},
                [type |-> "R_WRITE_MISS", req |-> n, left |-> e.bitmap])
    BY <1>4 DEF WriteMiss
  <2>2. out = {ToReq("DIR_2_APP_WRITE_MISS_SHAREDDATA", n)} /\ c1.type = "R_WRITE_MISS" /\ c1.req = n /\ c1.left = e.bitmap
    BY <1>1, <2>1 DEF Result, Writes
  <2>3. e1.state = "S_TO_DIRTY"
    BY <1>1, <1>2, <1>4, <2>1 DEF Result, Writes
  <2>4. "DIR_2_APP_WRITE_MISS_SHAREDDATA" \in ToApp
    BY DEF ToApp
  <2>5. o1 = {} /\ o = {} /\ c.type = "none"
    BY <1>1, <1>2, <1>4, <2>2, <2>4, OwingToApp
  <2>6. InRound(e1, c1, o1, MissAck, n) /\ ToCopy(c1) = e.bitmap
    BY <2>2, <2>3, <2>5 DEF InRound, ToCopy
  <2>7. \A b : /\ RoundsIn(c1, o1, b) = IF b = n THEN {MissAck} ELSE {}
               /\ KnownIn(e1, c1, o1, b) = IF b = n THEN "MODIFIED"
                                           ELSE IF b \in ToCopy(c1) THEN "SHARED" ELSE "INVALID"
    BY <2>6, ViewRound
  <2>8. \A b : /\ RoundsIn(c, o, b) = {}
               /\ KnownIn(e, c, o, b) = IF b \in e.bitmap THEN "SHARED" ELSE "INVALID"
    BY <1>4, <2>5, ViewStable
  <2>9. /\ KnownIn(e, c, o, n) = "INVALID" /\ KnownIn(e1, c1, o1, n) = "MODIFIED"
        /\ {"DIR_2_APP_WRITE_MISS_SHAREDDATA"} \cup RoundsIn(c1, o1, n) = {MissAck, "DIR_2_APP_WRITE_MISS_SHAREDDATA"}
    BY <1>4, <2>7, <2>8
  <2>10. Outcome("R_WRITE_MISS", "INVALID", {MissAck, "DIR_2_APP_WRITE_MISS_SHAREDDATA"}, "MODIFIED")
    BY DEF Outcome
  <2>11. \A b \in Node : b # n => /\ RoundsIn(c1, o1, b) = RoundsIn(c, o, b)
                                  /\ KnownIn(e1, c1, o1, b) = KnownIn(e, c, o, b)
    BY <2>6, <2>7, <2>8
  <2>12. (IF out = {} THEN {} ELSE {"DIR_2_APP_WRITE_MISS_SHAREDDATA"}) \cup RoundsIn(c1, o1, n)
           = {MissAck, "DIR_2_APP_WRITE_MISS_SHAREDDATA"}
    BY <2>2, <2>9
  <2>13. Outcome("R_WRITE_MISS", KnownIn(e, c, o, n),
                 (IF out = {} THEN {} ELSE {"DIR_2_APP_WRITE_MISS_SHAREDDATA"}) \cup RoundsIn(c1, o1, n),
                 KnownIn(e1, c1, o1, n))
    BY <2>9, <2>10, <2>12
  <2>14. Turned("R_WRITE_MISS", n, e, c, o, e1, c1, o1, out)
    BY <1>1, <2>2, <2>4, <2>11, <2>13, TurnedToReply
  <2> QED BY <2>14 DEF out
<1>5. CASE e.state = "S_DIRTY" /\ n \notin e.bitmap
  <2>1. PICK a \in Node : e.bitmap = {a}
    BY <1>5 DEF EntryInv, EntryConsistent, StableConsistent
  <2>2. AgentNode(e) = a /\ a # n
    BY <1>5, <2>1, AgentNodeOfOwner
  <2>3. WriteMiss(e, n) = Result([e EXCEPT !.state = "S_TO_DIRTY"],
                 {[type |-> "DIR_2_AGENT_WRITE_MISS_DIRTY", req |-> n, agent |-> a]}, NoCopy)
    BY <1>5, <2>2 DEF WriteMiss
  <2>4. out = {[type |-> WriteOrder, req |-> n, agent |-> a]} /\ c1 = NoCopy
    BY <1>1, <2>3 DEF Result, Writes, WriteOrder
  <2>5. e1.state = "S_TO_DIRTY" /\ e1.bitmap = {a}
    BY <1>1, <1>2, <1>5, <2>1, <2>3 DEF Result, Writes
  <2>6. Owing(out) = {[type |-> "AGENT_2_DIR_WRITE_MISS_DIRTY_ACK", req |-> n, agent |-> a]}
    <3>1. AckOf(WriteOrder) = "AGENT_2_DIR_WRITE_MISS_DIRTY_ACK" /\ WriteOrder \in ToAgent
      BY DEF AckOf, WriteOrder, ToAgent
    <3> QED BY <2>4, <3>1, OwingOne
  <2>7. /\ o1 = {[type |-> "AGENT_2_DIR_WRITE_MISS_DIRTY_ACK", req |-> n, agent |-> a]}
        /\ c1.type = "none" /\ c1.left = {} /\ "AGENT_2_DIR_WRITE_MISS_DIRTY_ACK" \notin {MissAck, SharedAck}
    BY <1>1, <1>2, <1>5, <2>4, <2>6 DEF NoCopy, MissAck, SharedAck
  <2>8. \A b : /\ RoundsIn(c1, o1, b) = {}
               /\ KnownIn(e1, c1, o1, b) = IF b = n THEN "MODIFIED" ELSE "INVALID"
    <3>1. Handover(e1, c1, o1, a, n)
      BY <2>5, <2>7 DEF Handover
    <3> QED BY <2>5, <3>1, ViewHandover
  <2>9. \A b : /\ RoundsIn(c, o, b) = {}
               /\ KnownIn(e, c, o, b) = IF b = a THEN "MODIFIED" ELSE "INVALID"
    BY <1>2, <1>5, <2>1, ViewStable
  <2>10. Outcome("R_WRITE_MISS", "INVALID", {WriteOrder}, "MODIFIED")
    BY DEF Outcome
  <2>11. ReadOrder # WriteOrder
    BY DEF ReadOrder, WriteOrder
  <2> QED BY <1>1, <2>2, <2>4, <2>8, <2>9, <2>10, <2>11, TurnedToOwner DEF out
<1>6. CASE e.state \in {"S_UNSHARED", "S_SHARED", "S_DIRTY"} /\ n \in e.bitmap
  <2>1. WriteMiss(e, n) = Refuse(e, "DIR_2_APP_BITMAP_CHECK_FAIL", n)
    BY <1>6 DEF WriteMiss, BitmapCheckFail
  <2>2. KnownIn(e, c, o, n) # "INVALID"
    BY <1>2, <1>6, ViewStable
  <2>3. "DIR_2_APP_BITMAP_CHECK_FAIL" \in Refusal
    BY DEF Refusal
  <2> QED BY <1>1, <2>1, <2>2, <2>3, TurnedDown DEF out
<1>7. CASE e.state \notin {"S_UNSHARED", "S_SHARED", "S_DIRTY"}
  <2>1. WriteMiss(e, n) = Refuse(e, "DIR_2_APP_M_CHECK_FAIL", n)
    BY <1>7 DEF WriteMiss, MCheckFail
  <2>2. "DIR_2_APP_M_CHECK_FAIL" \in Refusal
    BY DEF Refusal
  <2> QED BY <1>1, <2>1, <2>2, TurnedDown DEF out
<1> QED BY <1>3, <1>4, <1>5, <1>6, <1>7 DEF out

LEMMA WriteSharedTurned ==
  ASSUME NEW n \in Node, NEW e, NEW c, NEW o, NEW e1, NEW c1, NEW o1,
         EntryInv(e, c, o), RoundsIn(c, o, n) = {}, Requested("R_WRITE_SHARED", n, e, c, o, e1, c1, o1)
  PROVE  Turned("R_WRITE_SHARED", n, e, c, o, e1, c1, o1, HandleRequest(e, "R_WRITE_SHARED", n).out)
<1> DEFINE out == HandleRequest(e, "R_WRITE_SHARED", n).out
<1>1. /\ c.type = "none"
      /\ Writes(WriteShared(e, n), e1, c1)
      /\ out = WriteShared(e, n).out
      /\ o1 = o \cup Owing(out)
      /\ "R_WRITE_SHARED" \in Request
  BY DEF Requested, HandleRequest, Request
<1> HIDE DEF out
<1>2. ASSUME e.state = "S_SHARED"
      PROVE  /\ o = {} /\ c = NoCopy /\ c.type = "none" /\ c.left = {} /\ e.bitmap \in SUBSET Node
             /\ e = [state |-> e.state, bitmap |-> e.bitmap, count |-> e.count]
             /\ IsFiniteSet(e.bitmap) /\ e.count = Cardinality(e.bitmap) /\ e.count \in Int
             /\ \A b : /\ RoundsIn(c, o, b) = {}
                       /\ KnownIn(e, c, o, b) = IF b \in e.bitmap THEN "SHARED" ELSE "INVALID"
  <2>1. /\ o = {} /\ c = NoCopy /\ c.type = "none" /\ c.left = {} /\ e.bitmap \in SUBSET Node
        /\ e = [state |-> e.state, bitmap |-> e.bitmap, count |-> e.count]
        /\ IsFiniteSet(e.bitmap) /\ e.count = Cardinality(e.bitmap) /\ e.count \in Int
    BY <1>1, <1>2, StableFacts, NAssumption DEF NoCopy
  <2> QED BY <1>2, <2>1, ViewStable
<1>3. CASE e.state = "S_SHARED" /\ n \in e.bitmap /\ e.count > 1
  <2>1. WriteShared(e, n) = Result([e EXCEPT !.state = "S_TO_DIRTY"], {},
                [type |-> "R_WRITE_SHARED", req |-> n, left |-> e.bitmap])
    BY <1>2, <1>3 DEF WriteShared
  <2>2. out = {} /\ c1.type = "R_WRITE_SHARED" /\ c1.req = n /\ c1.left = e.bitmap
    BY <1>1, <2>1 DEF Result, Writes
  <2>3. e1.state = "S_TO_DIRTY"
    BY <1>1, <1>2, <1>3, <2>1 DEF Result, Writes
  <2>5. o1 = {} /\ o = {} /\ c.type = "none"
    BY <1>1, <1>2, <1>3, <2>2, OwingNone
  <2>6. InRound(e1, c1, o1, SharedAck, n) /\ ToCopy(c1) = e.bitmap \ {n}
    BY <2>2, <2>3, <2>5 DEF InRound, ToCopy, MissAck, SharedAck
  <2>7. \A b : /\ RoundsIn(c1, o1, b) = IF b = n THEN {SharedAck} ELSE {}
               /\ KnownIn(e1, c1, o1, b) = IF b = n THEN "MODIFIED"
                                           ELSE IF b \in ToCopy(c1) THEN "SHARED" ELSE "INVALID"
    BY <2>6, ViewRound
  <2>9. /\ KnownIn(e, c, o, n) = "SHARED" /\ KnownIn(e1, c1, o1, n) = "MODIFIED"
        /\ {} \cup RoundsIn(c1, o1, n) = {SharedAck}
    BY <1>2, <1>3, <2>7
  <2>10. Outcome("R_WRITE_SHARED", "SHARED", {SharedAck}, "MODIFIED")
    BY DEF Outcome
  <2>11. \A b \in Node : b # n => /\ RoundsIn(c1, o1, b) = RoundsIn(c, o, b)
                                  /\ KnownIn(e1, c1, o1, b) = KnownIn(e, c, o, b)
    BY <1>2, <1>3, <2>6, <2>7
  <2>12. PICK u \in ToApp : TRUE
    BY DEF ToApp
  <2>13. (IF out = {} THEN {} ELSE {u}) \cup RoundsIn(c1, o1, n) = {SharedAck}
    BY <2>2, <2>9
  <2> QED BY <1>1, <2>2, <2>9, <2>10, <2>11, <2>13, TurnedToReply DEF out
<1>4. CASE e.state = "S_SHARED" /\ n \in e.bitmap /\ e.count <= 1
  <2>1. WriteShared(e, n) = Result([e EXCEPT !.state = "S_DIRTY", !.count = 1],
                {ToReq("DIR_2_APP_WRITE_SHARED_ONLYACK", n)}, NoCopy)
    BY <1>2, <1>4 DEF WriteShared
  <2>2. out = {ToReq("DIR_2_APP_WRITE_SHARED_ONLYACK", n)} /\ c1 = NoCopy
    BY <1>1, <2>1 DEF Result, Writes
  <2>3. e1.state = "S_DIRTY" /\ e1.bitmap = e.bitmap
    <3>1. e1 = [e EXCEPT !.state = "S_DIRTY", !.count = 1]
      BY <1>1, <2>1 DEF Result, Writes
    <3>2. e \in Entry
      BY DEF EntryInv, EntryTyped
    <3> QED BY <3>1, <3>2 DEF Entry
  <2>4. e.bitmap = {n}
    <3>1. IsFiniteSet(e.bitmap) /\ Cardinality(e.bitmap) <= 1 /\ n \in e.bitmap
      BY <1>2, <1>4
    <3>2. IsFiniteSet({n}) /\ Cardinality({n}) = 1 /\ {n} \subseteq e.bitmap
      BY <3>1, FS_Singleton
    <3>3. Cardinality({n}) = Cardinality(e.bitmap)
      BY <1>2, <1>4, <3>1, <3>2, FS_Subset
    <3> QED BY <3>1, <3>2, <3>3, FS_Subset
  <2>5. "DIR_2_APP_WRITE_SHARED_ONLYACK" \in ToApp
    BY DEF ToApp
  <2>6. o1 = {} /\ c1.type = "none"
    BY <1>1, <1>2, <1>4, <2>2, <2>5, OwingToApp DEF NoCopy
  <2>7. \A b : /\ RoundsIn(c1, o1, b) = {}
               /\ KnownIn(e1, c1, o1, b) = IF b = n THEN "MODIFIED" ELSE "INVALID"
    BY <2>3, <2>4, <2>6, ViewStable
  <2>8. KnownIn(e, c, o, n) = "SHARED" /\ KnownIn(e1, c1, o1, n) = "MODIFIED"
    BY <1>2, <1>4, <2>7
  <2>9. Outcome("R_WRITE_SHARED", "SHARED", {"DIR_2_APP_WRITE_SHARED_ONLYACK"} \cup {}, "MODIFIED")
    BY DEF Outcome
  <2>10. \A b \in Node : b # n => /\ RoundsIn(c1, o1, b) = RoundsIn(c, o, b)
                                  /\ KnownIn(e1, c1, o1, b) = KnownIn(e, c, o, b)
    BY <1>2, <1>4, <2>4, <2>7
  <2> QED BY <1>1, <2>2, <2>5, <2>7, <2>8, <2>9, <2>10, TurnedToReply DEF out
<1>5. CASE e.state = "S_SHARED" /\ n \notin e.bitmap
  <2>1. WriteShared(e, n) = Refuse(e, "DIR_2_APP_BITMAP_CHECK_FAIL", n)
    BY <1>5 DEF WriteShared, BitmapCheckFail
  <2>2. KnownIn(e, c, o, n) = "INVALID"
    BY <1>2, <1>5
  <2>3. "DIR_2_APP_BITMAP_CHECK_FAIL" \in Refusal
    BY DEF Refusal
  <2> QED BY <1>1, <2>1, <2>2, <2>3, TurnedDown DEF out
<1>6. CASE e.state # "S_SHARED"
  <2>1. WriteShared(e, n) = Refuse(e, "DIR_2_APP_M_CHECK_FAIL", n)
    BY <1>6 DEF WriteShared, MCheckFail
  <2>2. "DIR_2_APP_M_CHECK_FAIL" \in Refusal
    BY DEF Refusal
  <2> QED BY <1>1, <2>1, <2>2, TurnedDown DEF out
<1> QED BY <1>2, <1>3, <1>4, <1>5, <1>6 DEF out

LEMMA EvictSharedTurned ==
  ASSUME NEW n \in Node, NEW e, NEW c, NEW o, NEW e1, NEW c1, NEW o1,
         EntryInv(e, c, o), RoundsIn(c, o, n) = {}, Requested("R_EVICT_SHARED", n, e, c, o, e1, c1, o1)
  PROVE  Turned("R_EVICT_SHARED", n, e, c, o, e1, c1, o1, HandleRequest(e, "R_EVICT_SHARED", n).out)
<1> DEFINE out == HandleRequest(e, "R_EVICT_SHARED", n).out
<1>1. /\ c.type = "none"
      /\ Writes(EvictShared(e, n), e1, c1)
      /\ out = EvictShared(e, n).out
      /\ o1 = o \cup Owing(out)
      /\ "R_EVICT_SHARED" \in Request
  BY DEF Requested, HandleRequest, Request
<1> HIDE DEF out
<1>2. ASSUME e.state = "S_SHARED"
      PROVE  /\ o = {} /\ c = NoCopy /\ c.type = "none" /\ e.bitmap \in SUBSET Node
             /\ IsFiniteSet(e.bitmap) /\ e.count = Cardinality(e.bitmap)
             /\ \A b : /\ RoundsIn(c, o, b) = {}
                       /\ KnownIn(e, c, o, b) = IF b \in e.bitmap THEN "SHARED" ELSE "INVALID"
  <2>1. /\ o = {} /\ c = NoCopy /\ c.type = "none" /\ e.bitmap \in SUBSET Node
        /\ IsFiniteSet(e.bitmap) /\ e.count = Cardinality(e.bitmap)
    BY <1>1, <1>2, StableFacts DEF NoCopy
  <2> QED BY <1>2, <2>1, ViewStable
<1>3. CASE e.state = "S_SHARED" /\ n \in e.bitmap
  <2>1. EvictShared(e, n) =
          Result([state |-> IF e.count = 1 THEN "S_UNSHARED" ELSE "S_SHARED",
                  bitmap |-> e.bitmap \ {n}, count |-> Byte(e.count - 1)],
                 {ToReq("DIR_2_APP_EVICT_SHARED_ACK", n)}, NoCopy)
    BY <1>3 DEF EvictShared
  <2>2. out = {ToReq("DIR_2_APP_EVICT_SHARED_ACK", n)} /\ c1 = NoCopy
    BY <1>1, <2>1 DEF Result, Writes
  <2>3. e1.state = (IF e.count = 1 THEN "S_UNSHARED" ELSE "S_SHARED") /\ e1.bitmap = e.bitmap \ {n}
    BY <1>1, <2>1 DEF Result, Writes
  <2>4. e.count = 1 => e.bitmap = {n}
    <3> SUFFICES ASSUME e.count = 1 PROVE e.bitmap = {n}
      OBVIOUS
    <3>1. IsFiniteSet({n}) /\ Cardinality({n}) = 1 /\ {n} \subseteq e.bitmap
      BY <1>3, FS_Singleton
    <3>2. Cardinality({n}) = Cardinality(e.bitmap) /\ IsFiniteSet(e.bitmap)
      BY <1>2, <1>3, <3>1
    <3> QED BY <3>1, <3>2, FS_Subset
  <2>5. "DIR_2_APP_EVICT_SHARED_ACK" \in ToApp
    BY DEF ToApp
  <2>6. o1 = {} /\ c1.type = "none"
    BY <1>1, <1>2, <1>3, <2>2, <2>5, OwingToApp DEF NoCopy
  <2>7. \A b : /\ RoundsIn(c1, o1, b) = {}
               /\ KnownIn(e1, c1, o1, b) = IF b \in e.bitmap /\ b # n THEN "SHARED" ELSE "INVALID"
    <3>1. CASE e.count = 1
      BY <2>3, <2>4, <2>6, <3>1, ViewStable
    <3>2. CASE e.count # 1
      <4>1. e1.state = "S_SHARED"
        BY <2>3, <3>2
      <4> QED BY <2>3, <2>6, <4>1, ViewStable
    <3> QED BY <3>1, <3>2
  <2>8. KnownIn(e, c, o, n) = "SHARED" /\ KnownIn(e1, c1, o1, n) = "INVALID"
    BY <1>2, <1>3, <2>7
  <2>9. Outcome("R_EVICT_SHARED", "SHARED", {"DIR_2_APP_EVICT_SHARED_ACK"} \cup {}, "INVALID")
    BY DEF Outcome
  <2>10. \A b \in Node : b # n => /\ RoundsIn(c1, o1, b) = RoundsIn(c, o, b)
                                  /\ KnownIn(e1, c1, o1, b) = KnownIn(e, c, o, b)
    BY <1>2, <1>3, <2>7
  <2> QED BY <1>1, <2>2, <2>5, <2>7, <2>8, <2>9, <2>10, TurnedToReply DEF out
<1>5. CASE e.state = "S_SHARED" /\ n \notin e.bitmap
  <2>1. EvictShared(e, n) = Refuse(e, "DIR_2_APP_BITMAP_CHECK_FAIL", n)
    BY <1>5 DEF EvictShared, BitmapCheckFail
  <2>2. KnownIn(e, c, o, n) = "INVALID"
    BY <1>2, <1>5
  <2>3. "DIR_2_APP_BITMAP_CHECK_FAIL" \in Refusal
    BY DEF Refusal
  <2> QED BY <1>1, <2>1, <2>2, <2>3, TurnedDown DEF out
<1>6. CASE e.state # "S_SHARED"
  <2>1. EvictShared(e, n) = Refuse(e, "DIR_2_APP_M_CHECK_FAIL", n)
    BY <1>6 DEF EvictShared, MCheckFail
  <2>2. "DIR_2_APP_M_CHECK_FAIL" \in Refusal
    BY DEF Refusal
  <2> QED BY <1>1, <2>1, <2>2, TurnedDown DEF out
<1> QED BY <1>3, <1>5, <1>6 DEF out

LEMMA EvictDirtyTurned ==
  ASSUME NEW n \in Node, NEW e, NEW c, NEW o, NEW e1, NEW c1, NEW o1,
         EntryInv(e, c, o), RoundsIn(c, o, n) = {}, Requested("R_EVICT_DIRTY", n, e, c, o, e1, c1, o1)
  PROVE  Turned("R_EVICT_DIRTY", n, e, c, o, e1, c1, o1, HandleRequest(e, "R_EVICT_DIRTY", n).out)
<1> DEFINE out == HandleRequest(e, "R_EVICT_DIRTY", n).out
<1>1. /\ c.type = "none"
      /\ Writes(EvictDirty(e, n), e1, c1)
      /\ out = EvictDirty(e, n).out
      /\ o1 = o \cup Owing(out)
      /\ "R_EVICT_DIRTY" \in Request
  BY DEF Requested, HandleRequest, Request
<1> HIDE DEF out
<1>2. ASSUME e.state = "S_DIRTY"
      PROVE  /\ o = {} /\ c = NoCopy /\ c.type = "none" /\ \E a \in Node : e.bitmap = {a}
             /\ \A b : /\ RoundsIn(c, o, b) = {}
                       /\ KnownIn(e, c, o, b) = IF b \in e.bitmap THEN "MODIFIED" ELSE "INVALID"
  <2>1. o = {} /\ c = NoCopy /\ c.type = "none" /\ \E a \in Node : e.bitmap = {a}
    BY <1>1, <1>2, StableFacts DEF NoCopy, EntryInv, EntryConsistent, StableConsistent
  <2> QED BY <1>2, <2>1, ViewStable
<1>3. CASE e.state = "S_DIRTY" /\ n \in e.bitmap
  <2>1. EvictDirty(e, n) =
          Result([state |-> "S_UNSHARED", bitmap |-> e.bitmap \ {n}, count |-> Byte(e.count - 1)],
                 {ToReq("DIR_2_APP_EVICT_DIRTY_ACK", n)}, NoCopy)
    BY <1>3 DEF EvictDirty
  <2>2. out = {ToReq("DIR_2_APP_EVICT_DIRTY_ACK", n)} /\ c1 = NoCopy
    BY <1>1, <2>1 DEF Result, Writes
  <2>3. e1.state = "S_UNSHARED" /\ e.bitmap = {n}
    BY <1>1, <1>2, <1>3, <2>1 DEF Result, Writes
  <2>5. "DIR_2_APP_EVICT_DIRTY_ACK" \in ToApp
    BY DEF ToApp
  <2>6. o1 = {} /\ c1.type = "none"
    BY <1>1, <1>2, <1>3, <2>2, <2>5, OwingToApp DEF NoCopy
  <2>7. \A b : RoundsIn(c1, o1, b) = {} /\ KnownIn(e1, c1, o1, b) = "INVALID"
    BY <2>3, <2>6, ViewStable
  <2>8. KnownIn(e, c, o, n) = "MODIFIED" /\ KnownIn(e1, c1, o1, n) = "INVALID"
    BY <1>2, <1>3, <2>7
  <2>9. Outcome("R_EVICT_DIRTY", "MODIFIED", {"DIR_2_APP_EVICT_DIRTY_ACK"} \cup {}, "INVALID")
    BY DEF Outcome
  <2>10. \A b \in Node : b # n => /\ RoundsIn(c1, o1, b) = RoundsIn(c, o, b)
                                  /\ KnownIn(e1, c1, o1, b) = KnownIn(e, c, o, b)
    BY <1>2, <1>3, <2>3, <2>7
  <2> QED BY <1>1, <2>2, <2>5, <2>7, <2>8, <2>9, <2>10, TurnedToReply DEF out
<1>5. CASE e.state = "S_DIRTY" /\ n \notin e.bitmap
  <2>1. EvictDirty(e, n) = Refuse(e, "DIR_2_APP_BITMAP_CHECK_FAIL", n)
    BY <1>5 DEF EvictDirty, BitmapCheckFail
  <2>2. KnownIn(e, c, o, n) = "INVALID"
    BY <1>2, <1>5
  <2>3. "DIR_2_APP_BITMAP_CHECK_FAIL" \in Refusal
    BY DEF Refusal
  <2> QED BY <1>1, <2>1, <2>2, <2>3, TurnedDown DEF out
<1>6. CASE e.state # "S_DIRTY"
  <2>1. EvictDirty(e, n) = Refuse(e, "DIR_2_APP_M_CHECK_FAIL", n)
    BY <1>6 DEF EvictDirty, MCheckFail
  <2>2. "DIR_2_APP_M_CHECK_FAIL" \in Refusal
    BY DEF Refusal
  <2> QED BY <1>1, <2>1, <2>2, TurnedDown DEF out
<1> QED BY <1>3, <1>5, <1>6 DEF out

LEMMA RequestTurned ==
  ASSUME NEW t \in Request, NEW n \in Node, NEW e, NEW c, NEW o, NEW e1, NEW c1, NEW o1,
         EntryInv(e, c, o), RoundsIn(c, o, n) = {}, Requested(t, n, e, c, o, e1, c1, o1)
  PROVE  Turned(t, n, e, c, o, e1, c1, o1, HandleRequest(e, t, n).out)
BY ReadMissTurned, WriteMissTurned, WriteSharedTurned, EvictSharedTurned, EvictDirtyTurned DEF Request

\* What an answer that was due leads to: nothing that a node sees, except that the last
\* answer of a round becomes the message to the requester.
Summed(t) == IF t = MissAck THEN "DIR_2_APP_WRITE_MISS_SHARED_AGGACK_ACK"
             ELSE "DIR_2_APP_WRITE_SHARED_NOTONLY_AGGACK_ACK"

Taken(e, c, o, e1, c1, o1, out) ==
  /\ \A b \in Node : KnownIn(e1, c1, o1, b) = KnownIn(e, c, o, b)
  /\ \/ out = {} /\ \A b \in Node : RoundsIn(c1, o1, b) = RoundsIn(c, o, b)
     \/ \E r \in Node, t \in {MissAck, SharedAck} :
          /\ out = {ToReq(Summed(t), r)}
          /\ RoundsIn(c, o, r) = {t}
          /\ \A b \in Node : b # r => RoundsIn(c, o, b) = {}
          /\ \A b \in Node : RoundsIn(c1, o1, b) = {}

LEMMA HandoverTaken ==
  ASSUME NEW e, NEW c, NEW o, NEW e1, NEW c1, NEW o1, EntryInv(e, c, o), NEW m \in o, Answered(m, e, c, o, e1, c1, o1),
         NEW a \in Node, NEW r \in Node, a # r, e.bitmap = {a}, m.req = r, m.agent = a, o = {m},
         \/ e.state = "S_TO_SHARED" /\ m.type = "AGENT_2_DIR_READ_MISS_DIRTY_ACKDATA"
         \/ e.state = "S_TO_DIRTY" /\ m.type = "AGENT_2_DIR_WRITE_MISS_DIRTY_ACK"
  PROVE  Taken(e, c, o, e1, c1, o1, HandleAck(e, m.type, m.req, m.agent).out)
<1>1. c = NoCopy /\ o1 = {} /\ Writes(HandleAck(e, m.type, r, a), e1, c1)
  BY PendingIdle DEF Answered
<1>2. c.type = "none" /\ c.left = {}
  BY <1>1 DEF NoCopy
<1>3. Handover(e, c, o, a, r)
  BY <1>2 DEF Handover, MissAck, SharedAck
<1>4. \A b : /\ RoundsIn(c, o, b) = {}
             /\ e.state = "S_TO_SHARED" => KnownIn(e, c, o, b) = IF b = a \/ b = r THEN "SHARED" ELSE "INVALID"
             /\ e.state = "S_TO_DIRTY" => KnownIn(e, c, o, b) = IF b = r THEN "MODIFIED" ELSE "INVALID"
  BY <1>3, ViewHandover
<1>5. CASE e.state = "S_TO_SHARED"
  <2>1. HandleAck(e, m.type, r, a) =
          Result([state |-> "S_SHARED", bitmap |-> e.bitmap \cup {r}, count |-> Byte(e.count + 1)], {}, NoCopy)
    BY <1>5 DEF HandleAck, ReadMissDirtyAckdata
  <2>2. e1.state = "S_SHARED" /\ e1.bitmap = {a, r} /\ c1.type = "none" /\ HandleAck(e, m.type, r, a).out = {}
    BY <1>1, <2>1 DEF Result, Writes, NoCopy
  <2>3. \A b : /\ RoundsIn(c1, o1, b) = {}
               /\ KnownIn(e1, c1, o1, b) = IF b \in {a, r} THEN "SHARED" ELSE "INVALID"
    BY <1>1, <2>2, ViewStable
  <2> QED BY <1>4, <1>5, <2>2, <2>3 DEF Taken
<1>6. CASE e.state = "S_TO_DIRTY"
  <2>1. HandleAck(e, m.type, r, a) =
          Result([state |-> "S_DIRTY", bitmap |-> (e.bitmap \cup {r}) \ {a}, count |-> 1], {}, NoCopy)
    BY <1>6 DEF HandleAck, WriteMissDirtyAck
  <2>2. e1.state = "S_DIRTY" /\ e1.bitmap = {r} /\ c1.type = "none" /\ HandleAck(e, m.type, r, a).out = {}
    BY <1>1, <2>1 DEF Result, Writes, NoCopy
  <2>3. \A b : /\ RoundsIn(c1, o1, b) = {}
               /\ KnownIn(e1, c1, o1, b) = IF b \in {r} THEN "MODIFIED" ELSE "INVALID"
    BY <1>1, <2>2, ViewStable
  <2> QED BY <1>4, <1>6, <2>2, <2>3 DEF Taken
<1> QED BY <1>5, <1>6

LEMMA RoundTaken ==
  ASSUME NEW e, NEW c, NEW o, NEW e1, NEW c1, NEW o1, EntryInv(e, c, o), NEW m \in o, Answered(m, e, c, o, e1, c1, o1),
         e.state = "S_TO_DIRTY", NEW q, NEW t, NEW x \in {0, 1},
         \/ q = "R_WRITE_MISS" /\ t = MissAck /\ x = 0
         \/ q = "R_WRITE_SHARED" /\ t = SharedAck /\ x = 1,
         Invalidating(e, c, o, q, t, x)
  PROVE  Taken(e, c, o, e1, c1, o1, HandleAck(e, m.type, m.req, m.agent).out)
<1>1. c = NoCopy /\ c.type = "none" /\ o1 = o \ {m}
  BY PendingIdle DEF Answered
<1>2. PICK r \in Node :
        /\ \A y \in o : y.type = t /\ y.req = r
        /\ r \notin Pending(c, o) /\ Pending(c, o) = e.bitmap \ {r}
        /\ e.count = Cardinality(Pending(c, o)) + x
  BY DEF Invalidating
<1>3. AnswerEffect(e, c, o, m, t, x, r)
  <2>1. Answering(e, c, o, t, x, r)
    BY <1>1, <1>2 DEF Answering
  <2> QED BY <2>1, AnswerFacts
<1>4. /\ m.type = t /\ m.req = r
      /\ e.count = 1 + x <=> Pending(c, o) = {m.agent}
      /\ Pending(c, o) = {m.agent} => o = {m}
      /\ {y.agent : y \in o \ {m}} = Pending(c, o) \ {m.agent}
      /\ m.agent \in Pending(c, o)
  BY <1>3 DEF AnswerEffect
<1>5. t \in {MissAck, SharedAck} /\ MissAck # SharedAck
  BY DEF MissAck, SharedAck
<1>6. ToCopy(c) = {}
  BY PendingIdle, <1>1
<1>7. InRound(e, c, o, t, r)
  BY <1>1, <1>2, <1>5 DEF InRound
<1>8. \A b : /\ RoundsIn(c, o, b) = IF b = r THEN {t} ELSE {}
             /\ KnownIn(e, c, o, b) = IF b = r THEN "MODIFIED" ELSE "INVALID"
  BY <1>6, <1>7, ViewRound
<1> DEFINE B == (e.bitmap \cup {r}) \ {m.agent}
           out == HandleAck(e, m.type, m.req, m.agent).out
<1>0. out = HandleAck(e, t, r, m.agent).out /\ e1 = HandleAck(e, t, r, m.agent).entry /\ c1 = HandleAck(e, t, r, m.agent).copy
  BY <1>4 DEF Answered, Writes
<1>9. CASE e.count = 1 + x
  <2>1. HandleAck(e, t, r, m.agent) = Result([state |-> "S_DIRTY", bitmap |-> B, count |-> 1], {ToReq(Summed(t), r)}, NoCopy)
    <3>1. CASE t = MissAck /\ x = 0
      <4>1. HandleAck(e, t, r, m.agent) = WriteMissSharedAck(e, r, m.agent)
        BY <3>1 DEF HandleAck, MissAck
      <4>2. e.count = 1
        BY <1>9, <3>1
      <4> QED BY <3>1, <4>1, <4>2 DEF WriteMissSharedAck, Summed
    <3>2. CASE t = SharedAck /\ x = 1
      <4>1. HandleAck(e, t, r, m.agent) = WriteSharedNotonlyAck(e, r, m.agent)
        BY <3>2 DEF HandleAck, SharedAck
      <4>2. e.count = 2
        BY <1>9, <3>2
      <4> QED BY <1>5, <3>2, <4>1, <4>2 DEF WriteSharedNotonlyAck, Summed
    <3> QED BY <3>1, <3>2
  <2>2. e1.state = "S_DIRTY" /\ e1.bitmap = B /\ c1.type = "none" /\ out = {ToReq(Summed(t), r)}
    BY <1>0, <2>1 DEF Result, NoCopy
  <2>3. B = {r} /\ o1 = {}
    BY <1>1, <1>2, <1>4, <1>9
  <2>4. \A b : /\ RoundsIn(c1, o1, b) = {}
               /\ KnownIn(e1, c1, o1, b) = IF b \in {r} THEN "MODIFIED" ELSE "INVALID"
    BY <2>2, <2>3, ViewStable
  <2> QED BY <1>5, <1>8, <2>2, <2>4 DEF Taken
<1>10. CASE e.count # 1 + x
  <2>1. \E k : HandleAck(e, t, r, m.agent) = Result([state |-> e.state, bitmap |-> B, count |-> k], {}, NoCopy)
    <3>1. CASE t = MissAck /\ x = 0
      <4>1. HandleAck(e, t, r, m.agent) = WriteMissSharedAck(e, r, m.agent)
        BY <3>1 DEF HandleAck, MissAck
      <4>2. e.count # 1
        BY <1>10, <3>1
      <4>3. WriteMissSharedAck(e, r, m.agent) = Result([state |-> e.state, bitmap |-> B, count |-> Byte(e.count - 1)], {}, NoCopy)
        BY <4>2 DEF WriteMissSharedAck
      <4> QED BY <4>1, <4>3
    <3>2. CASE t = SharedAck /\ x = 1
      <4>1. HandleAck(e, t, r, m.agent) = WriteSharedNotonlyAck(e, r, m.agent)
        BY <3>2 DEF HandleAck, SharedAck
      <4>2. e.count # 2
        BY <1>10, <3>2
      <4>3. WriteSharedNotonlyAck(e, r, m.agent) = Result([state |-> e.state, bitmap |-> B, count |-> Byte(e.count - 1)], {}, NoCopy)
        BY <4>2 DEF WriteSharedNotonlyAck
      <4> QED BY <4>1, <4>3
    <3> QED BY <3>1, <3>2
  <2>2. e1.state = "S_TO_DIRTY" /\ c1 = NoCopy /\ c1.type = "none" /\ out = {}
    BY <1>0, <2>1 DEF Result, NoCopy
  <2>3. o1 # {}
    BY <1>1, <1>4, <1>10
  <2>4. InRound(e1, c1, o1, t, r) /\ ToCopy(c1) = {}
    BY <1>1, <1>2, <1>5, <1>6, <2>2, <2>3 DEF InRound
  <2>5. \A b : /\ RoundsIn(c1, o1, b) = IF b = r THEN {t} ELSE {}
               /\ KnownIn(e1, c1, o1, b) = IF b = r THEN "MODIFIED" ELSE "INVALID"
    BY <2>4, ViewRound
  <2> QED BY <1>8, <2>2, <2>5 DEF Taken
<1> QED BY <1>9, <1>10

LEMMA AnswerTaken ==
  ASSUME NEW e, NEW c, NEW o, NEW e1, NEW c1, NEW o1, EntryInv(e, c, o), NEW m \in o, Answered(m, e, c, o, e1, c1, o1)
  PROVE  Taken(e, c, o, e1, c1, o1, HandleAck(e, m.type, m.req, m.agent).out)
<1>1. e.state \in {"S_TO_SHARED", "S_TO_DIRTY"}
  BY DEF EntryInv, EntryTyped, Entry, State, EntryConsistent, StableConsistent
<1>2. \/ e.state = "S_TO_SHARED" /\ HandingOver(e, c, o, "AGENT_2_DIR_READ_MISS_DIRTY_ACKDATA")
      \/ e.state = "S_TO_DIRTY" /\ HandingOver(e, c, o, "AGENT_2_DIR_WRITE_MISS_DIRTY_ACK")
      \/ e.state = "S_TO_DIRTY" /\ Invalidating(e, c, o, "R_WRITE_MISS", MissAck, 0)
      \/ e.state = "S_TO_DIRTY" /\ Invalidating(e, c, o, "R_WRITE_SHARED", SharedAck, 1)
  BY <1>1 DEF EntryInv, EntryConsistent, TransientConsistent, MissAck, SharedAck
<1>3. ASSUME NEW u, HandingOver(e, c, o, u)
      PROVE  \E a, r \in Node : a # r /\ e.bitmap = {a} /\ m.type = u /\ m.req = r /\ m.agent = a /\ o = {m}
  BY <1>3 DEF HandingOver
<1> QED BY <1>2, <1>3, HandoverTaken, RoundTaken

\* What a cycle of the copy loop leads to.
Copied(e, c, o, e1, c1, o1, out) ==
  /\ \A b \in Node : RoundsIn(c1, o1, b) = RoundsIn(c, o, b)
  /\ \/ out = {} /\ \A b \in Node : KnownIn(e1, c1, o1, b) = KnownIn(e, c, o, b)
     \/ \E w \in Invalidation, a \in Node, r \in Node :
          /\ out = {[type |-> w, req |-> r, agent |-> a]}
          /\ KnownIn(e, c, o, a) = "SHARED" /\ KnownIn(e1, c1, o1, a) = "INVALID"
          /\ \A b \in Node : b # a => KnownIn(e1, c1, o1, b) = KnownIn(e, c, o, b)

LEMMA CopyCopied ==
  ASSUME NEW e, NEW c, NEW o, NEW e1, NEW c1, NEW o1, EntryInv(e, c, o), CopiedOne(e, c, o, e1, c1, o1)
  PROVE  Copied(e, c, o, e1, c1, o1, CopyOut(c))
<1>1. c \in Copy /\ c.type # "none" /\ e1 = e /\ e \in Entry /\ o \subseteq AckMsg
  BY DEF EntryInv, EntryTyped, CopiedOne
<1>2. e.state = "S_TO_DIRTY"
  <2>1. e.state \notin {"S_UNSHARED", "S_SHARED", "S_DIRTY"}
    BY <1>1 DEF EntryInv, EntryConsistent, StableConsistent
  <2>2. e.state # "S_TO_SHARED"
    BY <1>1 DEF EntryInv, EntryConsistent, TransientConsistent, HandingOver
  <2> QED BY <1>1, <2>1, <2>2 DEF Entry, State
<1>3. \/ Invalidating(e, c, o, "R_WRITE_MISS", MissAck, 0)
      \/ Invalidating(e, c, o, "R_WRITE_SHARED", SharedAck, 1)
  BY <1>1, <1>2 DEF EntryInv, EntryConsistent, TransientConsistent, HandingOver, MissAck, SharedAck
<1>4. PICK q, t, x :
        /\ \/ q = "R_WRITE_MISS" /\ t = MissAck /\ x = 0
           \/ q = "R_WRITE_SHARED" /\ t = SharedAck /\ x = 1
        /\ Invalidating(e, c, o, q, t, x)
  BY <1>3
<1>5. PICK r \in Node :
        /\ \A m \in o : m.type = t /\ m.req = r
        /\ c.type = q /\ c.req = r
        /\ OwedBy(o) \cap ToCopy(c) = {} /\ r \notin Pending(c, o) /\ Pending(c, o) # {}
  BY <1>1, <1>4 DEF Invalidating
<1>6. t \in {MissAck, SharedAck} /\ MissAck # SharedAck /\ q = IF t = MissAck THEN "R_WRITE_MISS" ELSE "R_WRITE_SHARED"
  BY <1>4 DEF MissAck, SharedAck
<1>7. InRound(e, c, o, t, r)
  BY <1>1, <1>2, <1>5, <1>6 DEF InRound
<1>8. \A b : /\ RoundsIn(c, o, b) = IF b = r THEN {t} ELSE {}
             /\ KnownIn(e, c, o, b) = IF b = r THEN "MODIFIED" ELSE IF b \in ToCopy(c) THEN "SHARED" ELSE "INVALID"
  BY <1>7, ViewRound
<1>9. ASSUME InRound(e1, c1, o1, t, r), ToCopy(c1) = ToCopy(c), CopyOut(c) = {}
      PROVE  Copied(e, c, o, e1, c1, o1, CopyOut(c))
  <2>1. \A b : /\ RoundsIn(c1, o1, b) = IF b = r THEN {t} ELSE {}
               /\ KnownIn(e1, c1, o1, b) = IF b = r THEN "MODIFIED" ELSE IF b \in ToCopy(c1) THEN "SHARED" ELSE "INVALID"
    BY <1>9, ViewRound
  <2> QED BY <1>8, <1>9, <2>1 DEF Copied
<1>10. CASE c.left = {}
  <2>1. c1 = NoCopy /\ o1 = o /\ CopyOut(c) = {}
    BY <1>10, OwingNone DEF CopiedOne, CopyNext, CopyOut
  <2>2. c1.type = "none" /\ c1.left = {}
    BY <2>1 DEF NoCopy
  <2>3. ToCopy(c1) = {} /\ ToCopy(c) = {}
    BY <1>10, <2>2 DEF ToCopy
  <2>4. o # {}
    BY <1>5, <2>3 DEF Pending, OwedBy
  <2>5. InRound(e1, c1, o1, t, r)
    BY <1>1, <1>2, <1>5, <1>6, <2>1, <2>2, <2>4 DEF InRound
  <2> QED BY <1>9, <2>1, <2>3, <2>5
<1>11. CASE c.left # {}
  <2> DEFINE l == LastLeft(c)
  <2>1. l \in c.left /\ l \in Node
    BY <1>1, <1>11, LastLeftIn DEF Copy
  <2>2. c1 = [c EXCEPT !.left = @ \ {l}]
    BY <1>11 DEF CopiedOne, CopyNext
  <2>3. c1.type = q /\ c1.req = r /\ c1.left = c.left \ {l}
    BY <1>1, <1>5, <2>2 DEF Copy
  <2>4. CASE c.type = "R_WRITE_SHARED" /\ l = c.req
    <3>1. o1 = o /\ CopyOut(c) = {}
      BY <2>4, OwingNone DEF CopiedOne, CopyOut
    <3>2. ToCopy(c1) = ToCopy(c)
      BY <1>5, <2>3, <2>4 DEF ToCopy
    <3>3. InRound(e1, c1, o1, t, r)
      BY <1>1, <1>2, <1>5, <1>6, <2>3, <3>1 DEF InRound
    <3> QED BY <1>9, <3>1, <3>2, <3>3
  <2>5. CASE ~ (c.type = "R_WRITE_SHARED" /\ l = c.req)
    <3> DEFINE u == IF c.type = "R_WRITE_MISS" THEN "DIR_2_AGENT_WRITE_MISS_SHARED"
                    ELSE "DIR_2_AGENT_WRITE_SHARED_NOTONLY"
    <3>1. CopyOut(c) = {[type |-> u, req |-> r, agent |-> l]}
      BY <1>5, <1>11, <2>5 DEF CopyOut
    <3>2. u \in ToAgent /\ u \in Invalidation /\ AckOf(u) = t
      BY <1>4, <1>5 DEF ToAgent, AckOf, Invalidation, MissAck, SharedAck
    <3>3. o1 = o \cup {[type |-> t, req |-> r, agent |-> l]}
      <4> HIDE DEF u, l
      <4> QED BY <3>1, <3>2, OwingOne DEF CopiedOne
    <3>4. l \in ToCopy(c) /\ ToCopy(c1) = ToCopy(c) \ {l} /\ l # r
      <4>1. l \in ToCopy(c) /\ ToCopy(c1) = ToCopy(c) \ {l}
        BY <1>5, <2>1, <2>3, <2>5 DEF ToCopy
      <4> QED BY <1>5, <4>1 DEF Pending
    <3>5. \A m \in o1 : m.type = t /\ m.req = r
      BY <1>5, <3>3
    <3>6. InRound(e1, c1, o1, t, r)
      BY <1>1, <1>2, <1>5, <1>6, <2>3, <3>5 DEF InRound
    <3>7. \A b : /\ RoundsIn(c1, o1, b) = IF b = r THEN {t} ELSE {}
                 /\ KnownIn(e1, c1, o1, b) = IF b = r THEN "MODIFIED" ELSE IF b \in ToCopy(c1) THEN "SHARED" ELSE "INVALID"
      BY <3>6, ViewRound
    <3> HIDE DEF u, l
    <3>8. KnownIn(e, c, o, l) = "SHARED" /\ KnownIn(e1, c1, o1, l) = "INVALID"
      BY <1>8, <3>4, <3>7
    <3>9. \A b \in Node : b # l => KnownIn(e1, c1, o1, b) = KnownIn(e, c, o, b)
      BY <1>8, <3>4, <3>7
    <3>10. \A b \in Node : RoundsIn(c1, o1, b) = RoundsIn(c, o, b)
      BY <1>8, <3>7
    <3> QED BY <2>1, <3>1, <3>2, <3>8, <3>9, <3>10 DEF Copied
  <2> QED BY <2>4, <2>5
<1> QED BY <1>10, <1>11
------------------------------------------------------------------------------
(* The second part of the invariant is kept: steps of the application thread *)

\* A line's word.
LEMMA FlagIs ==
  \A s : /\ Flag(Tag(FALSE, s)) = "clear" /\ Tag(FALSE, s).st = s /\ Tag(FALSE, s).fl = FALSE
         /\ Flag(Tag(TRUE, s)) = "set" /\ Tag(TRUE, s).st = s /\ Tag(TRUE, s).fl = TRUE
BY DEF Flag, Tag

\* The state of a line matters to an agent only while the agent is at it.
LEMMA AgentAt ==
  ASSUME NEW a, NEW q, NEW d, NEW ls, NEW ss, NEW ls1, NEW ss1, AgentOK(a, q, d, ls, ss),
         a.at = "line" => ls1 # "NONE", a.at = "shad" => ss1 # "PRESERVED"
  PROVE  AgentOK(a, q, d, ls1, ss1)
BY DEF AgentOK

\* What a thread's own node has besides the queues and its agent.
SameNode(b) == /\ pc'[b] = pc[b] /\ op'[b] = op[b] /\ got'[b] = got[b] /\ evType'[b] = evType[b]
               /\ line'[b] = line[b] /\ shad'[b] = shad[b]

ThreadOK(n, T, D, K) ==
  NodeOK(pc[n], op[n], got[n], evType[n], Flag(line[n]), line[n].st, Flag(shad[n]), shad[n].st, T, D, K)

ThreadOKNext(n, T, D, K) ==
  NodeOK(pc'[n], op'[n], got'[n], evType'[n], Flag(line'[n]), line'[n].st, Flag(shad'[n]), shad'[n].st, T, D, K)

\* A step of a thread changes what its own node has.
LEMMA ThreadOthers ==
  ASSUME TypeOK, NEW n \in Node,
         LocalStep(n) \/ StartMiss(n) \/ EvictSend(n) \/ Receive(n) \/ EvictReply(n) \/ Access(n)
  PROVE  \A b \in Node : b # n => SameNode(b)
<1> USE DEF LineTypeOK, ThreadTypeOK, SameNode, Goto, SetLine, lineVars, threadVars
<1>0. LineTypeOK /\ ThreadTypeOK
  BY TypeParts
<1>1. CASE \E o \in {"read", "write"} : Begin(n, o)
  BY <1>0, <1>1 DEF Begin
<1>2. CASE NewLine(n)
  BY <1>0, <1>2 DEF NewLine
<1>3. CASE Hit(n)
  BY <1>0, <1>3 DEF Hit
<1>4. CASE Spin(n)
  BY <1>0, <1>4 DEF Spin
<1>5. CASE Settle(n)
  BY <1>0, <1>5 DEF Settle
<1>6. CASE EvictLine(n)
  <2>1. CASE line[n].st = "INVALID"
    BY <1>0, <1>6, <2>1 DEF EvictLine
  <2>2. CASE line[n].st # "INVALID"
    BY <1>0, <1>6, <2>2 DEF EvictLine
  <2> QED BY <2>1, <2>2
<1>7. CASE EvictMark(n)
  <2>1. CASE shad[n].st = "INVALID"
    BY <1>0, <1>7, <2>1 DEF EvictMark, FreeShadow
  <2>2. CASE shad[n].st # "INVALID"
    BY <1>0, <1>7, <2>2 DEF EvictMark
  <2> QED BY <2>1, <2>2
<1>8. CASE EvictUndo(n)
  BY <1>0, <1>8 DEF EvictUndo
<1>9. CASE EvictSpin(n)
  BY <1>0, <1>9 DEF EvictSpin, FreeShadow
<1>10. CASE StartMiss(n)
  BY <1>0, <1>10 DEF StartMiss
<1>11. CASE EvictSend(n)
  BY <1>0, <1>11 DEF EvictSend
<1>12. CASE Receive(n)
  BY <1>0, <1>12 DEF Receive
<1>13. CASE EvictReply(n)
  <2>1. /\ UNCHANGED <<line, op, got>>
        /\ \/ FreeShadow(n)
           \/ (\E p : Goto(n, p)) /\ UNCHANGED <<shad, evType>>
    BY <1>13 DEF EvictReply
  <2> QED BY <1>0, <2>1 DEF FreeShadow
<1>14. CASE Access(n)
  BY <1>0, <1>14 DEF Access
<1> QED BY <1>1, <1>2, <1>3, <1>4, <1>5, <1>6, <1>7, <1>8, <1>9, <1>10, <1>11, <1>12, <1>13, <1>14 DEF LocalStep

\* The steps that use no queue: what the node has stays in agreement, whatever T, D and K.
LEMMA LocalOk ==
  ASSUME TypeOK, NEW n \in Node, LocalStep(n), SysThread = {0}, NEW T, NEW K, NEW q, NEW d,
         AgentOK(agent[n][0], q, d, line[n].st, shad[n].st),
         ThreadOK(n, T, Mail(agent[n][0], q, d), K)
  PROVE  /\ AgentOK(agent[n][0], q, d, line'[n].st, shad'[n].st)
         /\ ThreadOKNext(n, T, Mail(agent[n][0], q, d), K)
<1> DEFINE D == Mail(agent[n][0], q, d)
           p == pc[n]
           o == op[n]
           g == got[n]
           v == evType[n]
           lf == Flag(line[n])
           ls == line[n].st
           sf == Flag(shad[n])
           ss == shad[n].st
<1>0. LineTypeOK /\ ThreadTypeOK
  BY TypeParts
<1>a. NodeOK(p, o, g, v, lf, ls, sf, ss, T, D, K)
  BY DEF ThreadOK
<1>b. ASSUME agent[n][0].at = "line" => line'[n].st # "NONE",
             agent[n][0].at = "shad" => shad'[n].st # "PRESERVED"
      PROVE  AgentOK(agent[n][0], q, d, line'[n].st, shad'[n].st)
  BY <1>b, AgentAt
<1>c. /\ agent[n][0].at = "line" => ls # "NONE"
      /\ agent[n][0].at = "shad" => ss # "PRESERVED"
      /\ D = {} => agent[n][0].at = "none"
  BY AgentRests DEF AgentOK
<1>d. NoAgentAtWork(n) => agent[n][0].at = "none"
  BY DEF NoAgentAtWork, AgentIdle
<1> HIDE DEF D
<1> USE DEF Goto, SetLine, lineVars, threadVars
<1>1. CASE \E x \in {"read", "write"} : Begin(n, x)
  <2>1. PICK x \in {"read", "write"} : Begin(n, x)
    BY <1>1
  <2>2. /\ p = "idle" /\ pc'[n] = "look" /\ op'[n] = x /\ got'[n] = g /\ evType'[n] = v
        /\ line'[n] = line[n] /\ shad'[n] = shad[n]
    BY <1>0, <2>1 DEF Begin, ThreadTypeOK
  <2>3. NodeOK("look", x, g, v, lf, ls, sf, ss, T, D, K)
    BY <1>a, <2>2, OkBegin
  <2> QED BY <1>b, <1>c, <2>2, <2>3 DEF ThreadOKNext, D
<1>2. CASE NewLine(n)
  <2>1. /\ p = "look" /\ ls = "NONE" /\ ss = "PRESERVED" /\ NoAgentAtWork(n)
        /\ pc'[n] = p /\ op'[n] = o /\ got'[n] = g /\ evType'[n] = v
        /\ line'[n] = Tag(FALSE, "INVALID") /\ shad'[n] = shad[n]
    BY <1>0, <1>2 DEF NewLine, LineTypeOK
  <2>2. NodeOK(p, o, g, v, "clear", "INVALID", sf, ss, T, D, K)
    BY <1>a, <2>1, OkNewLine
  <2>3. Flag(line'[n]) = "clear" /\ line'[n].st = "INVALID" /\ shad'[n].st = ss /\ Flag(shad'[n]) = sf
    BY <2>1, FlagIs
  <2>4. ThreadOKNext(n, T, D, K)
    BY <2>1, <2>2, <2>3 DEF ThreadOKNext
  <2>5. AgentOK(agent[n][0], q, d, line'[n].st, shad'[n].st)
    BY <1>b, <1>d, <2>1
  <2> QED BY <2>4, <2>5 DEF D
<1>3. CASE Hit(n)
  <2>1. /\ p = "look" /\ pc'[n] = "access" /\ op'[n] = o /\ got'[n] = g /\ evType'[n] = v
        /\ line'[n] = line[n] /\ shad'[n] = shad[n]
    BY <1>0, <1>3 DEF Hit, ThreadTypeOK
  <2>2. NodeOK("access", o, g, v, lf, ls, sf, ss, T, D, K)
    BY <1>a, <2>1, OkHit
  <2> QED BY <1>b, <1>c, <2>1, <2>2 DEF ThreadOKNext, D
<1>4. CASE Spin(n)
  <2>1. /\ p = "spin" /\ lf = "set" /\ pc'[n] = "fail" /\ op'[n] = o /\ got'[n] = g /\ evType'[n] = v
        /\ line'[n] = line[n] /\ shad'[n] = shad[n]
    BY <1>0, <1>4 DEF Spin, ThreadTypeOK, Flag
  <2>2. NodeOK("fail", o, g, v, lf, ls, sf, ss, T, D, K)
    BY <1>a, <2>1, OkSpin
  <2> QED BY <1>b, <1>c, <2>1, <2>2 DEF ThreadOKNext, D
<1>5. CASE Settle(n)
  <2> DEFINE s == CASE line[n].fl -> "INVALID"
                    [] ~line[n].fl /\ pc[n] = "won" -> IF op[n] = "readMiss" THEN "SHARED" ELSE "MODIFIED"
                    [] ~line[n].fl /\ pc[n] = "fail" -> IF op[n] = "writeShared" THEN "SHARED" ELSE "INVALID"
  <2>1. /\ p \in {"fail", "won"} /\ pc'[n] = "look" /\ op'[n] = Retry(o) /\ got'[n] = {} /\ evType'[n] = v
        /\ line'[n] = Tag(FALSE, s) /\ shad'[n] = shad[n]
    BY <1>0, <1>5 DEF Settle, ThreadTypeOK, LineTypeOK
  <2>2. s = After(p, o, lf)
    BY <1>0, <2>1 DEF After, Flag, LineTypeOK
  <2> HIDE DEF s
  <2>3. NodeOK("look", Retry(o), {}, v, "clear", s, sf, ss, T, D, K) /\ s # "NONE"
    BY <1>a, <2>1, <2>2, OkSettle DEF After
  <2>4. Flag(line'[n]) = "clear" /\ line'[n].st = s /\ shad'[n].st = ss /\ Flag(shad'[n]) = sf
    BY <2>1, FlagIs
  <2>5. ThreadOKNext(n, T, D, K)
    BY <2>1, <2>3, <2>4 DEF ThreadOKNext
  <2>6. AgentOK(agent[n][0], q, d, line'[n].st, shad'[n].st)
    BY <1>b, <1>c, <2>3, <2>4
  <2> QED BY <2>5, <2>6 DEF D
<1>6. CASE EvictLine(n)
  <2>1. /\ p = "idle" /\ ls \in {"INVALID", "SHARED", "MODIFIED"} /\ ss = "PRESERVED" /\ NoAgentAtWork(n)
        /\ op'[n] = o /\ got'[n] = g /\ evType'[n] = v
        /\ line'[n] = Tag(FALSE, "NONE")
    BY <1>0, <1>6 DEF EvictLine, LineTypeOK
  <2>2. CASE ls = "INVALID"
    <3>1. shad'[n] = shad[n] /\ pc'[n] = p
      BY <1>6, <2>2 DEF EvictLine
    <3>2. NodeOK(p, o, g, v, "clear", "NONE", sf, ss, T, D, K)
      BY <1>a, <2>1, <2>2, OkDrop
    <3>3. Flag(line'[n]) = "clear" /\ line'[n].st = "NONE" /\ shad'[n].st = ss /\ Flag(shad'[n]) = sf
      BY <2>1, <3>1, FlagIs
    <3>4. ThreadOKNext(n, T, D, K)
      BY <2>1, <3>1, <3>2, <3>3 DEF ThreadOKNext
    <3>5. AgentOK(agent[n][0], q, d, line'[n].st, shad'[n].st)
      BY <1>b, <1>d, <2>1
    <3> QED BY <3>4, <3>5 DEF D
  <2>3. CASE ls \in {"SHARED", "MODIFIED"}
    <3>1. shad'[n] = Tag(FALSE, ls) /\ pc'[n] = "evStart"
      BY <1>0, <1>6, <2>3 DEF EvictLine, LineTypeOK, ThreadTypeOK
    <3>2. NodeOK("evStart", o, g, v, "clear", "NONE", "clear", ls, T, D, K)
      BY <1>a, <2>1, <2>3, OkEvictLine
    <3>3. shad'[n].st = ls /\ Flag(shad'[n]) = "clear" /\ line'[n].st = "NONE" /\ Flag(line'[n]) = "clear"
      BY <2>1, <3>1, FlagIs, ZenonT(60)
    <3>4. ThreadOKNext(n, T, D, K)
      BY <2>1, <3>1, <3>2, <3>3 DEF ThreadOKNext
    <3>5. AgentOK(agent[n][0], q, d, line'[n].st, shad'[n].st)
      BY <1>b, <1>d, <2>1
    <3> QED BY <3>4, <3>5 DEF D
  <2> QED BY <2>1, <2>2, <2>3
<1>7. CASE EvictMark(n)
  <2>1. p = "evStart" /\ op'[n] = o /\ got'[n] = g /\ line'[n] = line[n]
    BY <1>7 DEF EvictMark
  <2>2. CASE ss = "INVALID"
    <3>1. pc'[n] = "idle" /\ evType'[n] = "none" /\ shad'[n] = Tag(FALSE, "PRESERVED")
      BY <1>0, <1>7, <2>2 DEF EvictMark, FreeShadow, LineTypeOK, ThreadTypeOK
    <3>2. NodeOK("idle", o, g, "none", lf, ls, "clear", "PRESERVED", T, D, K)
      BY <1>a, <2>1, <2>2, OkMarkInvalid
    <3>3. D = {}
      BY <1>a, <2>1, <2>2, NothingOrdered
    <3> QED BY <1>b, <1>c, <2>1, <3>1, <3>2, <3>3, FlagIs DEF ThreadOKNext, D
  <2>3. CASE ss # "INVALID"
    <3> DEFINE x == IF shad[n].st = "SHARED" THEN "EVICT_SHARED" ELSE "EVICT_DIRTY"
    <3>1. pc'[n] = "evLock" /\ evType'[n] = x /\ shad'[n] = [shad[n] EXCEPT !.st = "TO_PRESERVED"]
      BY <1>0, <1>7, <2>3 DEF EvictMark, LineTypeOK, ThreadTypeOK
    <3>2. shad'[n].st = "TO_PRESERVED" /\ Flag(shad'[n]) = sf
      <4>1. shad'[n].st = "TO_PRESERVED" /\ shad'[n].fl = shad[n].fl
        BY <1>0, <3>1 DEF LineTypeOK
      <4> QED BY <4>1 DEF Flag
    <3>3. NodeOK("evLock", o, g, x, lf, ls, sf, "TO_PRESERVED", T, D, K)
      BY <1>a, <2>1, <2>3, OkMark
    <3> QED BY <1>b, <1>c, <2>1, <3>1, <3>2, <3>3 DEF ThreadOKNext, D
  <2> QED BY <2>2, <2>3
<1>8. CASE EvictUndo(n)
  <2>1. p = "evCas" /\ op'[n] = o /\ got'[n] = g /\ evType'[n] = v /\ line'[n] = line[n] /\ pc'[n] = "evStart"
    BY <1>0, <1>8 DEF EvictUndo, ThreadTypeOK
  <2>2. PICK x : /\ shad'[n] = Tag(FALSE, x) /\ x \in {"SHARED", "MODIFIED", "INVALID"}
                 /\ \/ sf = "clear" /\ ss = "TO_PRESERVED" /\ x = (IF v = "EVICT_SHARED" THEN "SHARED" ELSE "MODIFIED")
                    \/ sf = "set" /\ x = "INVALID"
                    \/ sf = "clear" /\ ss = "TO_SHARED" /\ x = "SHARED"
    <3>1. CASE shad[n] = Tag(FALSE, "TO_PRESERVED") /\
                 shad' = [shad EXCEPT ![n] = Tag(FALSE, IF evType[n] = "EVICT_SHARED" THEN "SHARED" ELSE "MODIFIED")]
      BY <1>0, <3>1, FlagIs DEF LineTypeOK
    <3>2. CASE shad[n] = Tag(TRUE, "TO_PRESERVED") /\ shad' = [shad EXCEPT ![n] = Tag(FALSE, "INVALID")]
      BY <1>0, <3>2, FlagIs DEF LineTypeOK
    <3>3. CASE shad[n] = Tag(FALSE, "TO_SHARED") /\ shad' = [shad EXCEPT ![n] = Tag(FALSE, "SHARED")]
      BY <1>0, <3>3, FlagIs DEF LineTypeOK
    <3>4. CASE shad[n] = Tag(TRUE, "TO_SHARED") /\ shad' = [shad EXCEPT ![n] = Tag(FALSE, "INVALID")]
      BY <1>0, <3>4, FlagIs DEF LineTypeOK
    <3> QED BY <1>8, <3>1, <3>2, <3>3, <3>4 DEF EvictUndo
  <2>3. NodeOK("evStart", o, g, v, lf, ls, "clear", x, T, D, K)
    BY <1>a, <2>1, <2>2, OkUndo
  <2>4. x # "PRESERVED"
    BY <2>2
  <2> QED BY <1>b, <1>c, <2>1, <2>2, <2>3, <2>4, FlagIs DEF ThreadOKNext, D
<1>9. CASE EvictSpin(n)
  <2>1. /\ p = "evSpin" /\ sf = "set" /\ op'[n] = o /\ got'[n] = g /\ line'[n] = line[n]
        /\ pc'[n] = "idle" /\ evType'[n] = "none" /\ shad'[n] = Tag(FALSE, "PRESERVED")
    BY <1>0, <1>9 DEF EvictSpin, FreeShadow, LineTypeOK, ThreadTypeOK, Flag
  <2>2. NodeOK("idle", o, g, "none", lf, ls, "clear", "PRESERVED", T, D, K)
    BY <1>a, <2>1, OkEvictSpin
  <2>3. D = {}
    BY <1>a, <2>1, NothingOrdered
  <2> QED BY <1>b, <1>c, <2>1, <2>2, <2>3, FlagIs DEF ThreadOKNext, D
<1> QED BY <1>1, <1>2, <1>3, <1>4, <1>5, <1>6, <1>7, <1>8, <1>9 DEF LocalStep
------------------------------------------------------------------------------
(* Steps of the application thread: the other nodes, and the queues *)

\* A node that a step leaves alone, but for the freshness of its messages.
SameKinds(q1, q) == Types(q1) = Types(q) /\ (Distinct(q) => Distinct(q1))

Aside(b) ==
  /\ SameNode(b) /\ agent'[b] = agent[b] /\ sysQ'[b] = sysQ[b] /\ appQ'[b] = appQ[b]
  /\ SameKinds(up'[b], up[b]) /\ SameKinds(down'[b], down[b]) /\ SameKinds(peer'[b], peer[b])

LEMMA AsideKeeps ==
  ASSUME NEW b \in Node, NodeInv(b), Aside(b), Tokens(b)' = Tokens(b), Known(b)' = Known(b)
  PROVE  NodeInv(b)'
<1>1. Once(up'[b], down'[b], peer'[b], appQ'[b])
  BY DEF NodeInv, Aside, SameKinds, Once
<1>2. AgentOK(agent'[b][0], sysQ'[b][0], Types(down'[b]) \cap ToAgent, line'[b].st, shad'[b].st)
  BY DEF NodeInv, Aside, SameKinds, SameNode
<1>3. NodeOK(pc'[b], op'[b], got'[b], evType'[b], Flag(line'[b]), line'[b].st, Flag(shad'[b]), shad'[b].st,
             Tokens(b)', Mail(agent'[b][0], sysQ'[b][0], Types(down'[b]) \cap ToAgent), Known(b)')
  BY DEF NodeInv, Aside, SameKinds, SameNode
<1> QED BY <1>1, <1>2, <1>3 DEF NodeInv

\* The queues that a node's tokens are in.
TokensIn(u, d, p, q, S, R) == Asked(u) \cup Replies(d, p, q) \cup S \cup R

LEMMA TokensAre ==
  ASSUME NEW n \in Node
  PROVE  /\ Tokens(n) = TokensIn(up[n], down[n], peer[n], appQ[n], OrdersFor(n), RoundsIn(copy, Owed, n))
         /\ Tokens(n)' = TokensIn(up'[n], down'[n], peer'[n], appQ'[n], OrdersFor(n)', RoundsIn(copy', Owed', n))
BY DEF Tokens, TokensIn

LEMMA AsideTokens ==
  ASSUME NEW b \in Node, Aside(b), OrdersFor(b)' = OrdersFor(b), RoundsIn(copy', Owed', b) = RoundsIn(copy, Owed, b)
  PROVE  Tokens(b)' = Tokens(b)
BY TokensAre DEF TokensIn, Aside, SameKinds, Asked, Replies

\* While the directory rests its view does.
LEMMA ViewSame ==
  ASSUME DirSame
  PROVE  \A n : Known(n)' = Known(n) /\ RoundsIn(copy', Owed', n) = RoundsIn(copy, Owed, n)
BY DEF DirSame, Known

LEMMA OrdersSame ==
  ASSUME down' = down
  PROVE  \A n : OrdersFor(n)' = OrdersFor(n)
BY DEF OrdersFor

LEMMA KindsSame == \A q : SameKinds(q, q)
BY DEF SameKinds

\* The invariant at one node.
LEMMA NodeIs ==
  ASSUME NEW n \in Node
  PROVE  /\ NodeInv(n) <=>
              /\ Once(up[n], down[n], peer[n], appQ[n])
              /\ AgentOK(agent[n][0], sysQ[n][0], Types(down[n]) \cap ToAgent, line[n].st, shad[n].st)
              /\ ThreadOK(n, Tokens(n), Mail(agent[n][0], sysQ[n][0], Types(down[n]) \cap ToAgent), Known(n))
         /\ NodeInv(n)' <=>
              /\ Once(up'[n], down'[n], peer'[n], appQ'[n])
              /\ AgentOK(agent'[n][0], sysQ'[n][0], Types(down'[n]) \cap ToAgent, line'[n].st, shad'[n].st)
              /\ ThreadOKNext(n, Tokens(n)', Mail(agent'[n][0], sysQ'[n][0], Types(down'[n]) \cap ToAgent), Known(n)')
BY DEF NodeInv, ThreadOK, ThreadOKNext

LEMMA ProtocolLocal ==
  ASSUME NetInv, ProtocolInv, SysThread = {0}, NEW n \in Node, LocalStep(n)
  PROVE  ProtocolInv'
<1>1. TypeOK /\ DirSame
  BY NetTypes, NetLocal
<1>2. UNCHANGED <<entry, copy, mem, up, down, peer, appQ, sysQ, agent>>
  BY <1>1, LocalType
<1>3. \A b \in Node : OrdersFor(b)' = OrdersFor(b) /\ Known(b)' = Known(b)
                      /\ RoundsIn(copy', Owed', b) = RoundsIn(copy, Owed, b)
  BY <1>1, <1>2, ViewSame, OrdersSame
<1>4. \A b \in Node : Tokens(b)' = Tokens(b)
  BY <1>2, <1>3, TokensAre
<1>5. ASSUME NEW b \in Node, b # n PROVE NodeInv(b)'
  <2>1. Aside(b)
    BY <1>1, <1>2, <1>5, ThreadOthers, KindsSame DEF Aside
  <2> QED BY <1>3, <1>4, <2>1, AsideKeeps DEF ProtocolInv
<1>6. NodeInv(n)'
  <2>1. NodeInv(n)
    BY DEF ProtocolInv
  <2>2. /\ AgentOK(agent[n][0], sysQ[n][0], Types(down[n]) \cap ToAgent, line'[n].st, shad'[n].st)
        /\ ThreadOKNext(n, Tokens(n), Mail(agent[n][0], sysQ[n][0], Types(down[n]) \cap ToAgent), Known(n))
    BY <1>1, <2>1, LocalOk, NodeIs
  <2> QED BY <1>2, <1>3, <1>4, <2>1, <2>2, NodeIs
<1> QED BY <1>5, <1>6 DEF ProtocolInv

\* The next state of a node whose agent and whose queues from the directory stay as they are.
Still(n) ==
  /\ agent'[n] = agent[n] /\ sysQ'[n] = sysQ[n] /\ Types(down'[n]) = Types(down[n])
  /\ line'[n].st = line[n].st \/ (line[n].st # "NONE" /\ line'[n].st # "NONE")
  /\ shad'[n].st = shad[n].st \/ agent[n][0].at # "shad"

LEMMA StillKeeps ==
  ASSUME NEW n \in Node, NodeInv(n), Still(n)
  PROVE  /\ AgentOK(agent'[n][0], sysQ'[n][0], Types(down'[n]) \cap ToAgent, line'[n].st, shad'[n].st)
         /\ Mail(agent'[n][0], sysQ'[n][0], Types(down'[n]) \cap ToAgent)
              = Mail(agent[n][0], sysQ[n][0], Types(down[n]) \cap ToAgent)
<1>1. AgentOK(agent[n][0], sysQ[n][0], Types(down[n]) \cap ToAgent, line[n].st, shad[n].st)
  BY DEF NodeInv
<1>2. /\ agent[n][0].at = "line" => line[n].st # "NONE"
      /\ agent[n][0].at = "shad" => shad[n].st # "PRESERVED"
  BY <1>1 DEF AgentOK
<1>3. AgentOK(agent[n][0], sysQ[n][0], Types(down[n]) \cap ToAgent, line'[n].st, shad'[n].st)
  BY <1>1, <1>2, AgentAt DEF Still
<1> QED BY <1>3 DEF Still

\* A thread that waits for nothing has no tokens.
LEMMA NoTokens ==
  ASSUME NEW n \in Node, NodeInv(n), pc[n] \notin {"wait", "evWait"}
  PROVE  Tokens(n) = {}
<1> DEFINE D == Mail(agent[n][0], sysQ[n][0], Types(down[n]) \cap ToAgent)
<1>1. NodeOK(pc[n], op[n], got[n], evType[n], Flag(line[n]), line[n].st, Flag(shad[n]), shad[n].st, Tokens(n), D, Known(n))
  BY NodeIs DEF ThreadOK
<1> HIDE DEF D
<1> QED BY <1>1, Alone

\* A request becomes the only token.
LEMMA AskedFor ==
  ASSUME NetInv, NEW n \in Node, NodeInv(n), Tokens(n) = {}, NEW t \in Request, NEW f \in BOOLEAN,
         up' = [up EXCEPT ![n] = Append(@, M(t, n, n, f))],
         UNCHANGED <<down, peer, appQ>>, OrdersFor(n)' = OrdersFor(n),
         RoundsIn(copy', Owed', n) = RoundsIn(copy, Owed, n)
  PROVE  Tokens(n)' = {t} /\ Once(up'[n], down'[n], peer'[n], appQ'[n])
<1>1. M(t, n, n, f) \in Msg /\ M(t, n, n, f).type = t
  BY MsgIs DEF MsgType
<1>2. up[n] \in Seq(Msg) /\ up'[n] = Append(up[n], M(t, n, n, f))
  BY NetTypes, NetAt DEF QueueTypeOK
<1>3. Types(up'[n]) = Types(up[n]) \cup {t}
  BY <1>1, <1>2, TypesAppend
<1>4. t \notin Types(up[n])
  BY TokensAre DEF TokensIn, Asked
<1>5. Distinct(up[n]) /\ Once(up[n], down[n], peer[n], appQ[n])
  BY NodeIs DEF Once
<1>6. Distinct(up'[n])
  BY <1>1, <1>2, <1>4, <1>5, TypesAppend
<1>7. Asked(up'[n]) = {t} /\ Asked(up[n]) = {}
  BY <1>3, TokensAre DEF TokensIn, Asked
<1>8. Tokens(n)' = {t}
  BY <1>7, TokensAre DEF TokensIn
<1>9. Once(up'[n], down'[n], peer'[n], appQ'[n])
  BY <1>5, <1>6 DEF Once
<1> QED BY <1>8, <1>9

LEMMA ProtocolSend ==
  ASSUME NetInv, ProtocolInv, NEW n \in Node, StartMiss(n) \/ EvictSend(n)
  PROVE  ProtocolInv'
<1>1. TypeOK /\ DirSame
  BY NetTypes, NetSend
<1>2. /\ UNCHANGED <<entry, copy, mem, down, peer, appQ, sysQ, agent>>
      /\ \A b \in Node : b # n => up'[b] = up[b]
  BY <1>1, SendType DEF TypeOK
<1>3. \A b \in Node : OrdersFor(b)' = OrdersFor(b) /\ Known(b)' = Known(b)
                      /\ RoundsIn(copy', Owed', b) = RoundsIn(copy, Owed, b)
  BY <1>1, <1>2, ViewSame, OrdersSame
<1>5. ASSUME NEW b \in Node, b # n PROVE NodeInv(b)'
  <2>1. Aside(b)
    BY <1>1, <1>2, <1>5, ThreadOthers, KindsSame DEF Aside
  <2>2. Tokens(b)' = Tokens(b)
    BY <1>3, <2>1, AsideTokens
  <2> QED BY <1>3, <2>1, <2>2, AsideKeeps DEF ProtocolInv
<1>6. NodeInv(n)'
  <2> DEFINE D == Mail(agent[n][0], sysQ[n][0], Types(down[n]) \cap ToAgent)
  <2>0. LineTypeOK /\ ThreadTypeOK /\ sbuf[n] \in BOOLEAN /\ FALSE \in BOOLEAN
    BY NetTypes DEF LineTypeOK
  <2>1. NodeInv(n) /\ pc[n] \in {"look", "evLock"}
    BY DEF ProtocolInv, StartMiss, EvictSend
  <2>2. Tokens(n) = {}
    BY <2>1, NoTokens
  <2>3. NodeOK(pc[n], op[n], got[n], evType[n], Flag(line[n]), line[n].st, Flag(shad[n]), shad[n].st, Tokens(n), D, Known(n))
    BY <2>1, NodeIs DEF ThreadOK
  <2> HIDE DEF D
  <2>4. ASSUME NEW t \in Request, NEW f \in BOOLEAN, up' = [up EXCEPT ![n] = Append(@, M(t, n, n, f))],
               ThreadOKNext(n, {t}, D, Known(n)), Still(n)
        PROVE  NodeInv(n)'
    <3>1. Tokens(n)' = {t} /\ Once(up'[n], down'[n], peer'[n], appQ'[n])
      BY <1>2, <1>3, <2>1, <2>2, <2>4, AskedFor
    <3>2. Known(n)' = Known(n)
      BY <1>3
    <3>3. /\ AgentOK(agent'[n][0], sysQ'[n][0], Types(down'[n]) \cap ToAgent, line'[n].st, shad'[n].st)
          /\ D = Mail(agent'[n][0], sysQ'[n][0], Types(down'[n]) \cap ToAgent)
      BY <2>1, <2>4, StillKeeps DEF D
    <3> QED BY <2>4, <3>1, <3>2, <3>3, NodeIs
  <2> DEFINE Miss(x, s0, s1, t) ==
               /\ pc[n] = "look" /\ line[n] = Tag(FALSE, s0) /\ SetLine(n, FALSE, s1) /\ Send(n, t, FALSE)
               /\ op' = [op EXCEPT ![n] = x] /\ got' = [got EXCEPT ![n] = {}]
               /\ Goto(n, "wait") /\ UNCHANGED <<shad, evType>>
  <2>5. ASSUME NEW x, NEW s0, NEW s1, NEW t \in Request, Miss(x, s0, s1, t), s0 # "NONE", s1 # "NONE",
               NodeOK("wait", x, {}, evType[n], "clear", s1, Flag(shad[n]), shad[n].st, {t}, D, Known(n))
        PROVE  NodeInv(n)'
    <3>1. /\ pc'[n] = "wait" /\ op'[n] = x /\ got'[n] = {} /\ evType'[n] = evType[n]
          /\ line'[n] = Tag(FALSE, s1) /\ shad'[n] = shad[n]
      BY <2>0, <2>5 DEF SetLine, Goto, LineTypeOK, ThreadTypeOK
    <3>2. line'[n].st = s1 /\ Flag(line'[n]) = "clear" /\ line[n].st = s0
      BY <2>5, <3>1 DEF Tag, Flag
    <3>3. ThreadOKNext(n, {t}, D, Known(n))
      BY <2>5, <3>1, <3>2 DEF ThreadOKNext
    <3>4. Still(n)
      BY <1>2, <2>5, <3>1, <3>2 DEF Still
    <3> QED BY <2>0, <2>4, <2>5, <3>3, <3>4 DEF Send
  <2>6. ASSUME NEW s, line[n] = Tag(FALSE, s) PROVE line[n].st = s /\ Flag(line[n]) = "clear"
    BY <2>6 DEF Tag, Flag
  <2>7. CASE StartMiss(n)
    <3>1. CASE Miss("readMiss", "INVALID", "TO_SHARED", "R_READ_MISS")
      <4>1. Flag(line[n]) = "clear" /\ line[n].st = "INVALID" /\ pc[n] = "look"
        BY <3>1, <2>6
      <4>2. NodeOK("wait", "readMiss", {}, evType[n], "clear", "TO_SHARED", Flag(shad[n]), shad[n].st, {"R_READ_MISS"}, D, Known(n))
        BY <2>3, <4>1, OkStartRead
      <4> QED BY <2>5, <3>1, <4>2 DEF Request
    <3>2. CASE Miss("writeShared", "SHARED", "TO_MODIFIED", "R_WRITE_SHARED")
      <4>1. Flag(line[n]) = "clear" /\ line[n].st = "SHARED" /\ pc[n] = "look"
        BY <3>2, <2>6
      <4>2. NodeOK("wait", "writeShared", {}, evType[n], "clear", "TO_MODIFIED", Flag(shad[n]), shad[n].st, {"R_WRITE_SHARED"}, D, Known(n))
        BY <2>3, <4>1, OkStartShared
      <4> QED BY <2>5, <3>2, <4>2 DEF Request
    <3>3. CASE Miss("writeMiss", "INVALID", "TO_MODIFIED", "R_WRITE_MISS")
      <4>1. Flag(line[n]) = "clear" /\ line[n].st = "INVALID" /\ pc[n] = "look"
        BY <3>3, <2>6
      <4>2. NodeOK("wait", "writeMiss", {}, evType[n], "clear", "TO_MODIFIED", Flag(shad[n]), shad[n].st, {"R_WRITE_MISS"}, D, Known(n))
        BY <2>3, <4>1, OkStartWrite
      <4> QED BY <2>5, <3>3, <4>2 DEF Request
    <3> QED BY <2>7, <3>1, <3>2, <3>3 DEF StartMiss
  <2>8. CASE EvictSend(n)
    <3> DEFINE x == IF evType[n] = "EVICT_SHARED" THEN "R_EVICT_SHARED" ELSE "R_EVICT_DIRTY"
    <3>1. /\ pc[n] = "evLock" /\ pc'[n] = "evWait" /\ op'[n] = op[n] /\ got'[n] = got[n] /\ evType'[n] = evType[n]
          /\ line'[n] = line[n] /\ shad'[n] = shad[n]
          /\ up' = [up EXCEPT ![n] = Append(@, M(x, n, n, sbuf[n]))]
      BY <2>0, <2>8 DEF EvictSend, Send, Goto, ThreadTypeOK
    <3>2. x \in Request
      BY DEF Request
    <3>3. NodeOK("evWait", op[n], got[n], evType[n], Flag(line[n]), line[n].st, Flag(shad[n]), shad[n].st, {x}, D, Known(n))
      BY <2>3, <3>1, OkEvictSend
    <3> HIDE DEF x
    <3>4. ThreadOKNext(n, {x}, D, Known(n)) /\ Still(n)
      BY <1>2, <3>1, <3>3 DEF ThreadOKNext, Still
    <3> QED BY <2>0, <2>4, <3>1, <3>2, <3>4
  <2> QED BY <2>7, <2>8
<1> QED BY <1>5, <1>6 DEF ProtocolInv

\* More kinds that are told apart.
LEMMA TokenKinds ==
  /\ Request \cap (ToApp \cup PeerAck) = {}
  /\ {MissAck, SharedAck} \cap (ToApp \cup PeerAck) = {}
  /\ {ReadOrder, WriteOrder} \cap (ToApp \cup PeerAck) = {}
  /\ ReadOrder \in ToAgent /\ WriteOrder \in ToAgent
BY DEF Request, ToApp, PeerAck, MissAck, SharedAck, ReadOrder, WriteOrder, ToAgent, Invalidation

LEMMA TokensOther ==
  \A n : /\ OrdersFor(n) \subseteq {ReadOrder, WriteOrder}
         /\ RoundsIn(copy, Owed, n) \subseteq {MissAck, SharedAck}
         /\ \A u : Asked(u) \subseteq Request
BY DEF OrdersFor, RoundsIn, Asked

\* A reply that a thread takes is a token no more.
LEMMA ReplyTaken ==
  ASSUME NetInv, NEW n \in Node, NodeInv(n), appQ[n] # <<>>, appQ' = [appQ EXCEPT ![n] = Tail(@)],
         UNCHANGED <<up, down, peer>>, OrdersFor(n)' = OrdersFor(n),
         RoundsIn(copy', Owed', n) = RoundsIn(copy, Owed, n)
  PROVE  LET t == Head(appQ[n]).type IN
         /\ t \in Tokens(n) \cap (ToApp \cup PeerAck)
         /\ Tokens(n)' = Tokens(n) \ {t}
         /\ Once(up'[n], down'[n], peer'[n], appQ'[n])
<1> DEFINE t == Head(appQ[n]).type
<1>1. Once(up[n], down[n], peer[n], appQ[n])
  BY NodeIs
<1>2. appQ[n] \in Seq(Msg) /\ Types(appQ[n]) \subseteq ToApp \cup PeerAck /\ appQ'[n] = Tail(appQ[n])
  BY NetAt, NetTypes DEF QueueTypeOK
<1>3. /\ Distinct(appQ'[n]) /\ Types(appQ'[n]) = Types(appQ[n]) \ {t} /\ t \in Types(appQ[n])
  BY <1>1, <1>2, DistinctTail DEF Once
<1> HIDE DEF t
<1>4. t \notin Types(down[n]) /\ t \notin Types(peer[n])
  BY <1>1, <1>3 DEF Once
<1>5. t \notin Asked(up[n]) /\ t \notin OrdersFor(n) /\ t \notin RoundsIn(copy, Owed, n)
  BY <1>2, <1>3, TokenKinds, TokensOther
<1>6. Once(up'[n], down'[n], peer'[n], appQ'[n])
  BY <1>1, <1>3 DEF Once
<1>7. Tokens(n)' = Tokens(n) \ {t} /\ t \in Tokens(n)
  BY <1>3, <1>4, <1>5, TokensAre DEF TokensIn, Replies
<1>8. t \in ToApp \cup PeerAck
  BY <1>2, <1>3
<1> QED BY <1>6, <1>7, <1>8 DEF t

LEMMA ProtocolReply ==
  ASSUME NetInv, ProtocolInv, NEW n \in Node, Receive(n) \/ EvictReply(n)
  PROVE  ProtocolInv'
<1>1. TypeOK /\ DirSame
  BY NetTypes, NetReply
<1>2. /\ UNCHANGED <<entry, copy, mem, up, down, peer, sysQ, agent>>
      /\ appQ[n] # <<>> /\ appQ' = [appQ EXCEPT ![n] = Tail(@)]
  BY <1>1, ReplyType
<1>3. \A b \in Node : OrdersFor(b)' = OrdersFor(b) /\ Known(b)' = Known(b)
                      /\ RoundsIn(copy', Owed', b) = RoundsIn(copy, Owed, b)
  BY <1>1, <1>2, ViewSame, OrdersSame
<1>5. ASSUME NEW b \in Node, b # n PROVE NodeInv(b)'
  <2>1. Aside(b)
    BY <1>1, <1>2, <1>5, ThreadOthers, KindsSame DEF Aside, TypeOK
  <2>2. Tokens(b)' = Tokens(b)
    BY <1>3, <2>1, AsideTokens
  <2> QED BY <1>3, <2>1, <2>2, AsideKeeps DEF ProtocolInv
<1>6. NodeInv(n)'
  <2> DEFINE D == Mail(agent[n][0], sysQ[n][0], Types(down[n]) \cap ToAgent)
             t == Head(appQ[n]).type
  <2>0. LineTypeOK /\ ThreadTypeOK
    BY NetTypes
  <2>1. NodeInv(n)
    BY DEF ProtocolInv
  <2>2. NodeOK(pc[n], op[n], got[n], evType[n], Flag(line[n]), line[n].st, Flag(shad[n]), shad[n].st, Tokens(n), D, Known(n))
    BY <2>1, NodeIs DEF ThreadOK
  <2>3. /\ t \in Tokens(n) \cap (ToApp \cup PeerAck)
        /\ Tokens(n)' = Tokens(n) \ {t}
        /\ Once(up'[n], down'[n], peer'[n], appQ'[n])
    BY <1>2, <1>3, <2>1, ReplyTaken
  <2>a. AgentOK(agent[n][0], sysQ[n][0], Types(down[n]) \cap ToAgent, line[n].st, shad[n].st)
    BY <2>1, NodeIs
  <2>b. D = {} => agent[n][0].at # "shad"
    <3> DEFINE d == Types(down[n]) \cap ToAgent
               q == sysQ[n][0]
               a == agent[n][0]
    <3>1. AgentOK(a, q, d, line[n].st, shad[n].st) /\ D = Mail(a, q, d)
      BY <2>a
    <3> HIDE DEF d, q, D
    <3>2. ASSUME D = {} PROVE a.at = "none"
      BY <3>1, <3>2, AgentRests
    <3> QED BY <3>2
  <2>4. ASSUME ThreadOKNext(n, Tokens(n) \ {t}, D, Known(n)), Still(n)
        PROVE  NodeInv(n)'
    <3>1. Known(n)' = Known(n)
      BY <1>3
    <3>2. /\ AgentOK(agent'[n][0], sysQ'[n][0], Types(down'[n]) \cap ToAgent, line'[n].st, shad'[n].st)
          /\ D = Mail(agent'[n][0], sysQ'[n][0], Types(down'[n]) \cap ToAgent)
      BY <2>1, <2>4, StillKeeps
    <3> HIDE DEF D, t
    <3>3. ThreadOKNext(n, Tokens(n)', D, Known(n)')
      BY <2>3, <2>4, <3>1
    <3> QED BY <2>3, <3>2, <3>3, NodeIs
  <2>5. CASE Receive(n)
    <3>1. /\ pc[n] = "wait" /\ pc'[n] = AfterReply(op[n], got[n], t) /\ op'[n] = op[n]
          /\ got'[n] = got[n] \cup {t} /\ evType'[n] = evType[n] /\ line'[n] = line[n] /\ shad'[n] = shad[n]
      BY <2>0, <2>5 DEF Receive, Goto, lineVars, ThreadTypeOK
    <3> HIDE DEF D, t
    <3>2. NodeOK(AfterReply(op[n], got[n], t), op[n], got[n] \cup {t}, evType[n], Flag(line[n]), line[n].st,
                 Flag(shad[n]), shad[n].st, Tokens(n) \ {t}, D, Known(n))
      BY <2>2, <2>3, <3>1, OkReply
    <3> QED BY <1>2, <2>4, <3>1, <3>2 DEF ThreadOKNext, Still
  <2>6. CASE EvictReply(n)
    <3>1. /\ pc[n] = "evWait" /\ op'[n] = op[n] /\ got'[n] = got[n] /\ line'[n] = line[n]
      BY <2>6 DEF EvictReply
    <3> HIDE DEF D, t
    <3>2. Tokens(n) = {t} /\ t \in EvictAck \cup Refusal /\ Tokens(n) \ {t} = {}
      <4>1. Tokens(n) = {t} /\ t \in EvictAck \cup Refusal
        BY <2>2, <2>3, <3>1, OkEvictReply
      <4> QED BY <4>1
    <3>3. CASE t \in EvictAck
      <4>1. FreeShadow(n)
        BY <2>6, <3>3 DEF EvictReply, EvictAck, t
      <4>2. pc'[n] = "idle" /\ evType'[n] = "none" /\ shad'[n] = Tag(FALSE, "PRESERVED")
        BY <2>0, <4>1 DEF FreeShadow, Goto, LineTypeOK, ThreadTypeOK
      <4>3. shad'[n].st = "PRESERVED" /\ Flag(shad'[n]) = "clear"
        BY <4>2 DEF Tag, Flag
      <4>4. Tokens(n) \cap EvictAck # {}
        BY <3>2, <3>3
      <4>5. NodeOK("idle", op[n], got[n], "none", Flag(line[n]), line[n].st, "clear", "PRESERVED", {}, D, Known(n))
        BY <2>2, <3>1, <4>4, OkEvicted
      <4>6. D = {}
        BY <2>2, <3>1, <4>4, NothingOrdered
      <4>7. ThreadOKNext(n, {}, D, Known(n))
        BY <3>1, <4>2, <4>3, <4>5 DEF ThreadOKNext
      <4>8. Still(n)
        BY <1>2, <2>b, <3>1, <4>6 DEF Still
      <4> QED BY <2>4, <3>2, <4>7, <4>8
    <3>4. CASE t \in Refusal
      <4>1. /\ pc'[n] = IF t = "DIR_2_APP_M_CHECK_FAIL" THEN "evCas" ELSE "evSpin"
            /\ evType'[n] = evType[n] /\ shad'[n] = shad[n]
        <5>1. CASE t = "DIR_2_APP_M_CHECK_FAIL"
          BY <2>0, <2>6, <5>1 DEF EvictReply, Goto, ThreadTypeOK, t
        <5>2. CASE t = "DIR_2_APP_BITMAP_CHECK_FAIL"
          BY <2>0, <2>6, <5>2 DEF EvictReply, Goto, ThreadTypeOK, t
        <5> QED BY <3>4, <5>1, <5>2 DEF Refusal
      <4>2. NodeOK(pc'[n], op[n], got[n], evType[n], Flag(line[n]), line[n].st, Flag(shad[n]), shad[n].st, {}, D, Known(n))
        <5>1. CASE t = "DIR_2_APP_M_CHECK_FAIL"
          BY <2>2, <3>1, <3>2, <4>1, <5>1, OkEvictRefused
        <5>2. CASE t = "DIR_2_APP_BITMAP_CHECK_FAIL"
          BY <2>2, <3>1, <3>2, <4>1, <5>2, OkEvictToSpin
        <5> QED BY <3>4, <5>1, <5>2 DEF Refusal
      <4>3. ThreadOKNext(n, {}, D, Known(n)) /\ Still(n)
        BY <1>2, <3>1, <4>1, <4>2 DEF ThreadOKNext, Still
      <4> QED BY <2>4, <3>2, <4>3
    <3> QED BY <3>2, <3>3, <3>4
  <2> QED BY <2>5, <2>6
<1> QED BY <1>5, <1>6 DEF ProtocolInv

\* A queue holds an order t for node r.
OrderIn(q, t, r) == \E m \in Range(q) : m.type = t /\ m.req = r

LEMMA OrdersAre ==
  \A n : /\ OrdersFor(n) = {t \in {ReadOrder, WriteOrder} : \E a \in Node : OrderIn(down[a], t, n)}
         /\ OrdersFor(n)' = {t \in {ReadOrder, WriteOrder} : \E a \in Node : OrderIn(down'[a], t, n)}
BY DEF OrdersFor, OrderIn

\* The orders that are on their way are the same when the messages for agents are.
LEMMA OrdersSel ==
  ASSUME \A a \in Node : Sel(down'[a], ToAgent) = Sel(down[a], ToAgent)
  PROVE  \A n : OrdersFor(n)' = OrdersFor(n)
<1>1. \A n, t : t \in {ReadOrder, WriteOrder} =>
        ((\E a \in Node : \E m \in Range(down'[a]) : m.type = t /\ m.req = n)
          <=> (\E a \in Node : \E m \in Range(down[a]) : m.type = t /\ m.req = n))
  <2> SUFFICES ASSUME NEW n, NEW t \in {ReadOrder, WriteOrder}, NEW a \in Node
               PROVE  (\E m \in Range(down'[a]) : m.type = t /\ m.req = n)
                        <=> (\E m \in Range(down[a]) : m.type = t /\ m.req = n)
    OBVIOUS
  <2>1. t \in ToAgent
    BY TokenKinds
  <2>2. \A m : m \in Sel(down'[a], ToAgent) <=> m \in Sel(down[a], ToAgent)
    OBVIOUS
  <2> QED BY <2>1, <2>2 DEF Sel
<1> QED BY <1>1 DEF OrdersFor

LEMMA ProtocolAccess ==
  ASSUME NetInv, ProtocolInv, NEW n \in Node, Access(n)
  PROVE  ProtocolInv'
<1>1. TypeOK /\ DirSame
  BY NetTypes, NetAccess
<1>2. /\ UNCHANGED <<entry, copy, appQ, sysQ, agent, line, shad, got, evType>>
      /\ pc[n] = "access" /\ pc' = [pc EXCEPT ![n] = "idle"] /\ op' = [op EXCEPT ![n] = "none"]
  BY <1>1, AccessType
<1>3. \A b \in Node : /\ SameKinds(up'[b], up[b]) /\ SameKinds(down'[b], down[b]) /\ SameKinds(peer'[b], peer[b])
                      /\ OrdersFor(b)' = OrdersFor(b)
  <2>3. CASE UNCHANGED <<up, down, peer>>
    <3>1. \A b \in Node : /\ SameKinds(up'[b], up[b]) /\ SameKinds(down'[b], down[b]) /\ SameKinds(peer'[b], peer[b])
                          /\ OrdersFor(b)' = OrdersFor(b)
      BY <2>3, KindsSame, OrdersSame
    <3> QED BY <3>1
  <2>4. CASE /\ up' = [m \in Node |-> StaleQueue(up[m])]
             /\ down' = [m \in Node |-> StaleQueue(down[m])]
             /\ peer' = [m \in Node |-> StaleQueue(peer[m])]
    <3>1. \A b \in Node : SameKinds(up'[b], up[b]) /\ SameKinds(down'[b], down[b]) /\ SameKinds(peer'[b], peer[b])
      BY <2>4, NetAt, TypesStale DEF SameKinds
    <3>2. ASSUME NEW a \in Node, NEW t, NEW r PROVE OrderIn(down'[a], t, r) <=> OrderIn(down[a], t, r)
      <4>1. down'[a] = StaleQueue(down[a]) /\ down[a] \in Seq(Msg)
        BY <2>4, NetAt
      <4> QED BY <4>1, TypesStale DEF OrderIn
    <3>3. \A b : OrdersFor(b)' = OrdersFor(b)
      BY <3>2, OrdersAre
    <3> QED BY <3>1, <3>3
  <2> QED BY <1>1, <2>3, <2>4, AccessType
<1>4. \A b \in Node : Known(b)' = Known(b) /\ RoundsIn(copy', Owed', b) = RoundsIn(copy, Owed, b)
  BY <1>1, ViewSame
<1>5. \A b \in Node : Tokens(b)' = Tokens(b)
  BY <1>2, <1>3, <1>4, TokensAre, ZenonT(60) DEF TokensIn, SameKinds, Asked, Replies
<1>6. ASSUME NEW b \in Node, b # n PROVE NodeInv(b)'
  <2>1. Aside(b)
    BY <1>1, <1>2, <1>3, <1>6, ThreadOthers DEF Aside
  <2> QED BY <1>4, <1>5, <2>1, AsideKeeps DEF ProtocolInv
<1>7. NodeInv(n)'
  <2> DEFINE D == Mail(agent[n][0], sysQ[n][0], Types(down[n]) \cap ToAgent)
  <2>1. NodeInv(n)
    BY DEF ProtocolInv
  <2>2. NodeOK(pc[n], op[n], got[n], evType[n], Flag(line[n]), line[n].st, Flag(shad[n]), shad[n].st, Tokens(n), D, Known(n))
    BY <2>1, NodeIs DEF ThreadOK
  <2>3. Still(n)
    BY <1>2, <1>3 DEF Still, SameKinds
  <2>4. /\ AgentOK(agent'[n][0], sysQ'[n][0], Types(down'[n]) \cap ToAgent, line'[n].st, shad'[n].st)
        /\ D = Mail(agent'[n][0], sysQ'[n][0], Types(down'[n]) \cap ToAgent)
    BY <2>1, <2>3, StillKeeps
  <2>5. Once(up'[n], down'[n], peer'[n], appQ'[n])
    BY <1>2, <1>3, <2>1, NodeIs DEF Once, SameKinds
  <2> HIDE DEF D
  <2>6. pc'[n] = "idle" /\ op'[n] = "none"
    BY <1>1, <1>2 DEF TypeOK
  <2>7. NodeOK("idle", "none", got[n], evType[n], Flag(line[n]), line[n].st, Flag(shad[n]), shad[n].st, Tokens(n), D, Known(n))
    BY <1>2, <2>2, OkAccess
  <2>8. ThreadOKNext(n, Tokens(n)', D, Known(n)')
    BY <1>2, <1>4, <1>5, <2>6, <2>7 DEF ThreadOKNext
  <2> QED BY <2>4, <2>5, <2>8, NodeIs
<1> QED BY <1>6, <1>7 DEF ProtocolInv

\* A reply goes from one queue to the next.
LEMMA ProtocolToApp ==
  ASSUME NetInv, ProtocolInv, NEW n \in Node, FpgaToApp(n)
  PROVE  ProtocolInv'
<1>1. DirSame /\ UNCHANGED <<entry, copy, mem, up, sysQ, agent, line, shad, pc, op, got, evType>>
  BY NetToApp, ToAppType
<1>2. \A b \in Node : Known(b)' = Known(b) /\ RoundsIn(copy', Owed', b) = RoundsIn(copy, Owed, b)
  BY <1>1, ViewSame
<1>3. /\ up[n] \in Seq(Msg) /\ down[n] \in Seq(Msg) /\ peer[n] \in Seq(Msg) /\ appQ[n] \in Seq(Msg)
      /\ DownFor(n, down[n]) /\ Types(peer[n]) \subseteq PeerAck /\ Types(appQ[n]) \subseteq ToApp \cup PeerAck
  BY NetAt
<1>4. Types(down[n]) \subseteq ToApp \cup ToAgent
  BY <1>3 DEF DownFor, Types
<1>5. NodeInv(n) /\ Once(up[n], down[n], peer[n], appQ[n])
  BY NodeIs DEF ProtocolInv
<1>6. QueueTypeOK
  BY NetTypes
<1>7. /\ \A b \in Node : b # n => down'[b] = down[b] /\ peer'[b] = peer[b] /\ appQ'[b] = appQ[b]
      /\ \A b \in Node : OrdersFor(b)' = OrdersFor(b)
      /\ Replies(down'[n], peer'[n], appQ'[n]) = Replies(down[n], peer[n], appQ[n])
      /\ Types(down'[n]) \cap ToAgent = Types(down[n]) \cap ToAgent
      /\ Once(up'[n], down'[n], peer'[n], appQ'[n])
  <2>1. CASE \E i \in DOMAIN down[n] :
                 /\ down[n][i].type \notin ToAgent
                 /\ down' = [down EXCEPT ![n] = RemoveAt(@, i)]
                 /\ appQ' = [appQ EXCEPT ![n] = Append(@, down[n][i])]
                 /\ UNCHANGED peer
    <3>1. PICK i \in DOMAIN down[n] :
                 /\ down[n][i].type \notin ToAgent
                 /\ down' = [down EXCEPT ![n] = RemoveAt(@, i)]
                 /\ appQ' = [appQ EXCEPT ![n] = Append(@, down[n][i])]
                 /\ UNCHANGED peer
      BY <2>1
    <3> DEFINE x == down[n][i]
    <3>2. down'[n] = RemoveAt(down[n], i) /\ appQ'[n] = Append(appQ[n], x) /\ x \in Msg /\ peer'[n] = peer[n]
      BY <1>3, <1>6, <3>1 DEF QueueTypeOK
    <3>3. /\ Distinct(down'[n]) /\ Types(down'[n]) = Types(down[n]) \ {x.type} /\ x.type \in Types(down[n])
      BY <1>3, <1>5, <3>2, DistinctRemove DEF Once
    <3>4. x.type \notin ToAgent
      BY <3>1
    <3>5. Sel(down'[n], ToAgent) = Sel(down[n], ToAgent)
      BY <1>3, <3>2, <3>4, SelRemove
    <3> HIDE DEF x
    <3>6. x.type \in ToApp /\ x.type \notin Types(appQ[n]) /\ x.type \notin Types(peer[n])
      BY <1>3, <1>4, <1>5, <3>3, <3>4, Kinds DEF Once
    <3>7. Types(appQ'[n]) = Types(appQ[n]) \cup {x.type} /\ Distinct(appQ'[n])
      BY <1>3, <1>5, <3>2, <3>6, TypesAppend DEF Once
    <3>8. Once(up'[n], down'[n], peer'[n], appQ'[n])
      BY <1>1, <1>5, <3>2, <3>3, <3>6, <3>7 DEF Once
    <3>9. /\ Replies(down'[n], peer'[n], appQ'[n]) = Replies(down[n], peer[n], appQ[n])
          /\ Types(down'[n]) \cap ToAgent = Types(down[n]) \cap ToAgent
      BY <3>2, <3>3, <3>4, <3>6, <3>7 DEF Replies
    <3>10. \A b \in Node : b # n => down'[b] = down[b] /\ peer'[b] = peer[b] /\ appQ'[b] = appQ[b]
      BY <1>6, <3>1 DEF QueueTypeOK
    <3>11. \A b \in Node : OrdersFor(b)' = OrdersFor(b)
      BY <3>5, <3>10, OrdersSel
    <3> QED BY <3>8, <3>9, <3>10, <3>11
  <2>2. CASE /\ peer[n] # <<>>
             /\ peer' = [peer EXCEPT ![n] = Tail(@)]
             /\ appQ' = [appQ EXCEPT ![n] = Append(@, Head(peer[n]))]
             /\ UNCHANGED down
    <3> DEFINE x == Head(peer[n])
    <3>1. peer'[n] = Tail(peer[n]) /\ appQ'[n] = Append(appQ[n], x) /\ x \in Msg /\ down'[n] = down[n]
      BY <1>3, <1>6, <2>2, HeadType DEF QueueTypeOK
    <3>2. /\ Distinct(peer'[n]) /\ Types(peer'[n]) = Types(peer[n]) \ {x.type} /\ x.type \in Types(peer[n])
      BY <1>3, <1>5, <2>2, <3>1, DistinctTail DEF Once
    <3> HIDE DEF x
    <3>3. x.type \in PeerAck /\ x.type \notin Types(appQ[n]) /\ x.type \notin Types(down[n])
      BY <1>3, <1>4, <1>5, <3>2, Kinds DEF Once
    <3>4. Types(appQ'[n]) = Types(appQ[n]) \cup {x.type} /\ Distinct(appQ'[n])
      BY <1>3, <1>5, <3>1, <3>3, TypesAppend DEF Once
    <3>5. Once(up'[n], down'[n], peer'[n], appQ'[n])
      BY <1>1, <1>5, <3>1, <3>2, <3>3, <3>4 DEF Once
    <3>6. Replies(down'[n], peer'[n], appQ'[n]) = Replies(down[n], peer[n], appQ[n])
      BY <3>1, <3>2, <3>4 DEF Replies
    <3>7. \A b \in Node : b # n => down'[b] = down[b] /\ peer'[b] = peer[b] /\ appQ'[b] = appQ[b]
      BY <1>6, <2>2 DEF QueueTypeOK
    <3> QED BY <2>2, <3>1, <3>5, <3>6, <3>7, OrdersSame
  <2> QED BY <2>1, <2>2, ToAppType
<1>8. \A b \in Node : Tokens(b)' = Tokens(b)
  BY <1>1, <1>2, <1>7, TokensAre DEF TokensIn
<1>9. ASSUME NEW b \in Node, b # n PROVE NodeInv(b)'
  <2>1. Aside(b)
    BY <1>1, <1>7, <1>9, KindsSame DEF Aside, SameNode
  <2> QED BY <1>2, <1>8, <2>1, AsideKeeps DEF ProtocolInv
<1>10. NodeInv(n)'
  <2>1. /\ AgentOK(agent[n][0], sysQ[n][0], Types(down[n]) \cap ToAgent, line[n].st, shad[n].st)
        /\ ThreadOK(n, Tokens(n), Mail(agent[n][0], sysQ[n][0], Types(down[n]) \cap ToAgent), Known(n))
    BY <1>5, NodeIs
  <2>2. AgentOK(agent'[n][0], sysQ'[n][0], Types(down'[n]) \cap ToAgent, line'[n].st, shad'[n].st)
    BY <1>1, <1>7, <2>1
  <2>3. ThreadOKNext(n, Tokens(n)', Mail(agent'[n][0], sysQ'[n][0], Types(down'[n]) \cap ToAgent), Known(n)')
    BY <1>1, <1>2, <1>7, <1>8, <2>1 DEF ThreadOK, ThreadOKNext
  <2> QED BY <1>7, <2>2, <2>3, NodeIs
<1> QED BY <1>9, <1>10 DEF ProtocolInv

------------------------------------------------------------------------------
(* Steps of the cache agent *)

\* The compare-and-swap of an agent in terms of flag and state.
LEMMA CasIs ==
  ASSUME NEW t, NEW S, NEW l \in [fl : BOOLEAN, st : S], NEW x \in AgentCas(t, l)
  PROVE  Cas(t, Flag(l), l.st, Flag(x), x.st)
<1>a. /\ \A s : l = Tag(FALSE, s) => l.st = s /\ Flag(l) = "clear"
      /\ \A s : x = Tag(FALSE, s) => x.st = s /\ Flag(x) = "clear"
      /\ \A s : x = Tag(TRUE, s) => x.st = s /\ Flag(x) = "set"
  BY FlagIs
<1>1. CASE l.st = "PRESERVED"
  <2>1. /\ l # Tag(FALSE, "SHARED") /\ l # Tag(FALSE, "MODIFIED") /\ l # Tag(FALSE, "TO_PRESERVED") /\ ~Moving(l)
    <3>1. ASSUME NEW s, l = Tag(FALSE, s) PROVE s = "PRESERVED"
      BY <1>1, <3>1 DEF Tag
    <3>2. "SHARED" # "PRESERVED" /\ "MODIFIED" # "PRESERVED" /\ "TO_PRESERVED" # "PRESERVED"
      OBVIOUS
    <3>3. ~Moving(l)
      BY <1>1 DEF Moving
    <3> QED BY <3>1, <3>2, <3>3
  <2>2. AgentCas(t, l) = {l}
    BY <1>1, <2>1 DEF AgentCas
  <2>3. x = l
    BY <2>2
  <2> QED BY <1>1, <2>3 DEF Cas
<1>2. CASE t \in Invalidation /\ l = Tag(FALSE, "SHARED") /\ x = Tag(FALSE, "INVALID")
  BY <1>a, <1>2 DEF Cas
<1>3. CASE t = ReadOrder /\ l = Tag(FALSE, "MODIFIED") /\ x = Tag(FALSE, "SHARED")
  BY <1>a, <1>3 DEF Cas
<1>4. CASE t = ReadOrder /\ l = Tag(FALSE, "TO_PRESERVED") /\ x = Tag(FALSE, "TO_SHARED")
  BY <1>a, <1>4 DEF Cas
<1>5. CASE t = WriteOrder /\ l = Tag(FALSE, "MODIFIED") /\ x = Tag(FALSE, "INVALID")
  BY <1>a, <1>5 DEF Cas
<1>6. CASE t # ReadOrder /\ Moving(l) /\ x = Tag(TRUE, l.st)
  <2>1. Flag(l) = "clear" /\ l.st \in {"TO_MODIFIED", "TO_SHARED", "TO_PRESERVED"}
    BY <1>6 DEF Moving, Flag, Tag
  <2> QED BY <1>a, <1>6, <2>1 DEF Cas
<1> QED BY <1>1, <1>2, <1>3, <1>4, <1>5, <1>6 DEF AgentCas, ReadOrder, WriteOrder

\* A step of node n's agent leaves the queues to its thread, the directory and all other
\* nodes alone.
LEMMA AgentAside ==
  ASSUME NetInv, ProtocolInv, DirSame, NEW n \in Node,
         UNCHANGED <<entry, copy, up, down, peer, appQ, pc, op, got, evType>>,
         \A b \in Node : b # n => /\ agent'[b] = agent[b] /\ sysQ'[b] = sysQ[b]
                                  /\ line'[b] = line[b] /\ shad'[b] = shad[b],
         AgentOK(agent'[n][0], sysQ'[n][0], Types(down[n]) \cap ToAgent, line'[n].st, shad'[n].st),
         NodeOK(pc[n], op[n], got[n], evType[n], Flag(line'[n]), line'[n].st, Flag(shad'[n]), shad'[n].st,
                Tokens(n), Mail(agent'[n][0], sysQ'[n][0], Types(down[n]) \cap ToAgent), Known(n))
  PROVE  ProtocolInv'
<1>1. \A b \in Node : OrdersFor(b)' = OrdersFor(b) /\ Known(b)' = Known(b)
                      /\ RoundsIn(copy', Owed', b) = RoundsIn(copy, Owed, b)
  BY ViewSame, OrdersSame
<1>2. \A b \in Node : Tokens(b)' = Tokens(b)
  BY <1>1, TokensAre
<1>3. ASSUME NEW b \in Node, b # n PROVE NodeInv(b)'
  <2>1. Aside(b)
    BY <1>3, KindsSame DEF Aside, SameNode
  <2> QED BY <1>1, <1>2, <2>1, AsideKeeps DEF ProtocolInv
<1>4. NodeInv(n)'
  <2>1. Once(up'[n], down'[n], peer'[n], appQ'[n])
    BY NodeIs DEF ProtocolInv
  <2>2. ThreadOKNext(n, Tokens(n)', Mail(agent'[n][0], sysQ'[n][0], Types(down'[n]) \cap ToAgent), Known(n)')
    BY <1>1, <1>2 DEF ThreadOKNext
  <2> QED BY <2>1, <2>2, NodeIs
<1> QED BY <1>3, <1>4 DEF ProtocolInv

LEMMA ProtocolTake ==
  ASSUME NetInv, ProtocolInv, SysThread = {0}, NEW n \in Node, NEW k \in SysThread, AgentTake(n, k)
  PROVE  ProtocolInv'
<1> DEFINE a == agent[n][0]
           q == sysQ[n][0]
           d == Types(down[n]) \cap ToAgent
           t == Head(sysQ[n][0]).type
<1>0. k = 0 /\ 0 \in SysThread /\ AgentTypeOK /\ QueueTypeOK
  BY NetTypes
<1>1. /\ DirSame
      /\ UNCHANGED <<entry, copy, mem, up, down, peer, appQ, line, buf, shad, sbuf, wlock, pc, op, got, evType>>
      /\ q # <<>> /\ sysQ' = [sysQ EXCEPT ![n][0] = Tail(@)]
  BY <1>0, NetTake, TakeType
<1>2. q \in Seq(Msg) /\ Types(q) \subseteq ToAgent
  BY <1>0, NetAt
<1>3. t \in ToAgent /\ t \in Types(q)
  BY <1>1, <1>2, HeadType
<1>4. NodeInv(n)
  BY DEF ProtocolInv
<1>5. /\ AgentOK(a, q, d, line[n].st, shad[n].st)
      /\ NodeOK(pc[n], op[n], got[n], evType[n], Flag(line[n]), line[n].st, Flag(shad[n]), shad[n].st,
                Tokens(n), Mail(a, q, d), Known(n))
  BY <1>4, NodeIs DEF ThreadOK
<1>6. a.type = "none"
  BY <1>0 DEF AgentTake, AgentIdle
<1>7. sysQ'[n][0] = Tail(q)
  BY <1>0, <1>1 DEF QueueTypeOK
<1>8. t \in Mail(a, q, d)
  BY <1>3 DEF Mail
<1>9. \A b \in Node : b # n => agent'[b] = agent[b] /\ sysQ'[b] = sysQ[b]
  BY <1>0, <1>1 DEF AgentTake, AgentTypeOK, QueueTypeOK
<1>10. line[n].st = "NONE" \/ shad[n].st = "PRESERVED"
  BY <1>5 DEF NodeOK, Shape
<1>11. line[n].st # "NONE" \/ shad[n].st # "PRESERVED"
  <2> HIDE DEF a, q, d, t
  <2> QED BY <1>5, <1>8, Found
<1>12. PICK at : /\ agent'[n][0] = [type |-> t, at |-> at]
                 /\ (at = "line" /\ line[n].st # "NONE") \/ (at = "shad" /\ shad[n].st # "PRESERVED")
  <2>1. CASE line[n].st # "NONE"
    BY <1>0, <1>10, <2>1 DEF AgentTake, AgentTypeOK
  <2>2. CASE line[n].st = "NONE"
    BY <1>0, <1>11, <2>2 DEF AgentTake, AgentTypeOK
  <2> QED BY <2>1, <2>2
<1>13. Head(q).type # "none" /\ t = Head(q).type
  BY <1>3, OrderKinds
<1> HIDE DEF a, q, d, t
<1>14. /\ AgentOK([type |-> t, at |-> at], Tail(q), d, line[n].st, shad[n].st)
       /\ Mail([type |-> t, at |-> at], Tail(q), d) = Mail(a, q, d)
  BY <1>1, <1>2, <1>5, <1>6, <1>12, <1>13, AgentTakes
<1>15. AgentOK(agent'[n][0], sysQ'[n][0], d, line'[n].st, shad'[n].st)
  BY <1>1, <1>7, <1>12, <1>14
<1>16. NodeOK(pc[n], op[n], got[n], evType[n], Flag(line'[n]), line'[n].st, Flag(shad'[n]), shad'[n].st,
                Tokens(n), Mail(agent'[n][0], sysQ'[n][0], d), Known(n))
  BY <1>1, <1>5, <1>7, <1>12, <1>14
<1> QED BY <1>1, <1>9, <1>15, <1>16, AgentAside DEF d

LEMMA ProtocolApply ==
  ASSUME NetInv, ProtocolInv, SysThread = {0}, NEW n \in Node, NEW k \in SysThread, AgentApply(n, k)
  PROVE  ProtocolInv'
<1> DEFINE a == agent[n][0]
           q == sysQ[n][0]
           d == Types(down[n]) \cap ToAgent
           D == Mail(a, q, d)
<1>0. k = 0 /\ 0 \in SysThread /\ AgentTypeOK /\ LineTypeOK
  BY NetTypes
<1>1. /\ DirSame
      /\ UNCHANGED <<entry, copy, mem, up, down, peer, appQ, sysQ, buf, sbuf, wlock, pc, op, got, evType>>
      /\ agent' = [agent EXCEPT ![n][0] = AgentIdle]
  BY <1>0, NetApply, ApplyType
<1>2. q \in Seq(Msg) /\ Types(q) \subseteq ToAgent
  BY <1>0, NetAt
<1>3. NodeInv(n)
  BY DEF ProtocolInv
<1>4. /\ AgentOK(a, q, d, line[n].st, shad[n].st)
      /\ NodeOK(pc[n], op[n], got[n], evType[n], Flag(line[n]), line[n].st, Flag(shad[n]), shad[n].st,
                Tokens(n), D, Known(n))
  BY <1>3, NodeIs DEF ThreadOK
<1>5. a.at \in {"line", "shad"}
  BY <1>0 DEF AgentApply
<1>6. a.type # "none"
  BY <1>4, <1>5 DEF AgentOK
<1>7. "none" \notin Types(q) \cup d
  BY <1>2, OrderKinds
<1>8. agent'[n][0] = AgentIdle /\ sysQ'[n][0] = q
  BY <1>0, <1>1 DEF AgentTypeOK
<1> HIDE DEF d, q
<1>9. /\ a.type \in D
      /\ Mail(AgentIdle, q, d) = D \ {a.type}
      /\ ReadOrder \in D => a.type = ReadOrder
      /\ AgentOK(AgentIdle, q, d, line'[n].st, shad'[n].st)
  BY <1>2, <1>4, <1>6, <1>7, AgentDone
<1>10. /\ \A b \in Node : b # n => agent'[b] = agent[b] /\ sysQ'[b] = sysQ[b]
       /\ \A b \in Node : b # n => line'[b] = line[b] /\ shad'[b] = shad[b]
  BY <1>0, <1>1 DEF AgentApply, AgentTypeOK, LineTypeOK
<1>11. NodeOK(pc[n], op[n], got[n], evType[n], Flag(line'[n]), line'[n].st, Flag(shad'[n]), shad'[n].st,
              Tokens(n), D \ {a.type}, Known(n))
  <2>1. CASE a.at = "line" /\ shad' = shad /\ \E l \in AgentCas(a.type, line[n]) : line' = [line EXCEPT ![n] = l]
    <3>1. PICK l \in AgentCas(a.type, line[n]) : line' = [line EXCEPT ![n] = l]
      BY <2>1
    <3>2. line'[n] = l /\ line[n] \in [fl : BOOLEAN, st : LineStatus]
      BY <1>0, <3>1 DEF LineTypeOK
    <3>3. Cas(a.type, Flag(line[n]), line[n].st, Flag(l), l.st)
      BY <3>1, <3>2, CasIs
    <3>4. line[n].st # "NONE"
      BY <1>4, <2>1 DEF AgentOK
    <3> HIDE DEF a, D
    <3>5. NodeOK(pc[n], op[n], got[n], evType[n], Flag(l), l.st, Flag(shad[n]), shad[n].st, Tokens(n), D \ {a.type}, Known(n))
      BY <1>4, <1>9, <3>3, <3>4, OkApplyLine
    <3> QED BY <2>1, <3>2, <3>5
  <2>2. CASE a.at = "shad" /\ line' = line /\ \E l \in AgentCas(a.type, shad[n]) : shad' = [shad EXCEPT ![n] = l]
    <3>1. PICK l \in AgentCas(a.type, shad[n]) : shad' = [shad EXCEPT ![n] = l]
      BY <2>2
    <3>2. shad'[n] = l /\ shad[n] \in [fl : BOOLEAN, st : ShadStatus]
      BY <1>0, <3>1 DEF LineTypeOK
    <3>3. Cas(a.type, Flag(shad[n]), shad[n].st, Flag(l), l.st)
      BY <3>1, <3>2, CasIs
    <3>4. shad[n].st # "PRESERVED"
      BY <1>4, <2>2 DEF AgentOK
    <3> HIDE DEF a, D
    <3>5. NodeOK(pc[n], op[n], got[n], evType[n], Flag(line[n]), line[n].st, Flag(l), l.st, Tokens(n), D \ {a.type}, Known(n))
      BY <1>4, <1>9, <3>3, <3>4, OkApplyShad
    <3> QED BY <2>2, <3>2, <3>5
  <2> QED BY <1>0, <2>1, <2>2 DEF AgentApply
<1> HIDE DEF a, D
<1>12. AgentOK(agent'[n][0], sysQ'[n][0], d, line'[n].st, shad'[n].st)
  BY <1>8, <1>9
<1>13. NodeOK(pc[n], op[n], got[n], evType[n], Flag(line'[n]), line'[n].st, Flag(shad'[n]), shad'[n].st,
              Tokens(n), Mail(agent'[n][0], sysQ'[n][0], d), Known(n))
  BY <1>8, <1>9, <1>11
<1> QED BY <1>1, <1>10, <1>12, <1>13, AgentAside DEF d

------------------------------------------------------------------------------
(* An order reaches a node *)

\* An owner that is asked for the block is the only one that owes an answer.
LEMMA DirtyAlone ==
  ASSUME NEW e, NEW c, NEW o, EntryInv(e, c, o), NEW m \in o,
         m.type \in {"AGENT_2_DIR_READ_MISS_DIRTY_ACKDATA", "AGENT_2_DIR_WRITE_MISS_DIRTY_ACK"}
  PROVE  o = {m} /\ m.req # m.agent
<1>1. EntryConsistent(e, c, o) /\ e.state \in State
  BY DEF EntryInv, EntryTyped, Entry
<1>2. ASSUME NEW t, HandingOver(e, c, o, t) PROVE o = {m} /\ m.req # m.agent
  <2>1. PICK a \in Node, r \in Node : a # r /\ o = {[type |-> t, req |-> r, agent |-> a]}
    BY <1>2 DEF HandingOver
  <2>2. m = [type |-> t, req |-> r, agent |-> a]
    BY <2>1
  <2> QED BY <2>1, <2>2
<1>3. ASSUME NEW q, NEW t, NEW x, Invalidating(e, c, o, q, t, x) PROVE m.type = t
  BY <1>3 DEF Invalidating
<1>4. e.state \notin {"S_UNSHARED", "S_SHARED", "S_DIRTY"}
  BY <1>1 DEF EntryConsistent, StableConsistent
<1>5. CASE e.state = "S_TO_SHARED"
  BY <1>1, <1>2, <1>5 DEF EntryConsistent, TransientConsistent
<1>6. CASE e.state = "S_TO_DIRTY"
  BY <1>1, <1>2, <1>3, <1>6 DEF EntryConsistent, TransientConsistent
<1> QED BY <1>1, <1>4, <1>5, <1>6 DEF State

LEMMA OrdersSel2 ==
  ASSUME NEW P, {ReadOrder, WriteOrder} \subseteq P
  PROVE  /\ \A q, t, r : t \in {ReadOrder, WriteOrder} =>
              (OrderIn(q, t, r) <=> \E m \in Sel(q, P) : m.type = t /\ m.req = r)
BY DEF OrderIn, Sel

LEMMA OrderAlone ==
  ASSUME NetInv, NEW n \in Node, NEW i \in DOMAIN down[n], NEW m, m = down[n][i], m.type \in {ReadOrder, WriteOrder}
  PROVE  /\ m.req \in Node /\ m.req # n
         /\ \A a \in Node : a # n => Sel(down[a], ToAgent) = {}
         /\ Sel(down[n], ToAgent) = {m}
         /\ \A b \in Node : OrdersFor(b) = IF b = m.req THEN {m.type} ELSE {}
<1>1. down[n] \in Seq(Msg) /\ m \in Msg /\ m.type \in ToAgent /\ DownFor(n, down[n]) /\ AtMostOneOrder(up[n], down[n])
  BY NetAt, TokenKinds
<1>2. Sel(down[n], ToAgent) = {m} /\ m \in Range(down[n])
  BY <1>1, SelRemove, Removing DEF AtMostOneOrder
<1>3. m.agent = n
  BY <1>1, <1>2, Kinds DEF DownFor
<1>4. AnswerTo(m) \in OwedIn(up[n], down[n])
  BY <1>2 DEF OwedIn
<1>5. AnswerTo(m) \in Owed /\ EntryInv(entry, copy, Owed)
  BY <1>4, OwedOf DEF NetInv
<1>6. AnswerTo(m).type \in {"AGENT_2_DIR_READ_MISS_DIRTY_ACKDATA", "AGENT_2_DIR_WRITE_MISS_DIRTY_ACK"}
  BY DEF AnswerTo, AckOf, ReadOrder, WriteOrder
<1>7. Owed = {AnswerTo(m)} /\ AnswerTo(m).req # AnswerTo(m).agent
  BY <1>5, <1>6, DirtyAlone
<1>8. m.req # n /\ m.req \in Node
  BY <1>1, <1>3, <1>7 DEF AnswerTo, Msg
<1>9. ASSUME NEW a \in Node, a # n PROVE Sel(down[a], ToAgent) = {}
  <2>1. SUFFICES ASSUME NEW y \in Sel(down[a], ToAgent) PROVE FALSE
    OBVIOUS
  <2>2. AnswerTo(y) \in Owed /\ AnswerTo(y).agent = a
    BY OwedOf DEF OwedIn
  <2>3. AnswerTo(m).agent = n
    BY <1>3 DEF AnswerTo
  <2> QED BY <1>7, <1>9, <2>2, <2>3
<1>10. {ReadOrder, WriteOrder} \subseteq ToAgent
  BY TokenKinds
<1>11. ASSUME NEW b \in Node, NEW t \in {ReadOrder, WriteOrder}
       PROVE  (\E a \in Node : OrderIn(down[a], t, b)) <=> (t = m.type /\ b = m.req)
  <2>1. \A a \in Node : OrderIn(down[a], t, b) <=> \E x \in Sel(down[a], ToAgent) : x.type = t /\ x.req = b
    BY <1>10, OrdersSel2
  <2> QED BY <1>2, <1>9, <2>1
<1>12. \A b \in Node : OrdersFor(b) = IF b = m.req THEN {m.type} ELSE {}
  BY <1>11, OrdersAre
<1> QED BY <1>2, <1>8, <1>9, <1>12

\* The queues of the node that an order reaches.
LEMMA OrderPassed ==
  ASSUME NetInv, NEW n \in Node, NodeInv(n), NEW i \in DOMAIN down[n], NEW f \in BOOLEAN,
         NEW m, m = down[n][i], m \in Msg, m.type \in ToAgent,
         down'[n] = RemoveAt(down[n], i), appQ'[n] = appQ[n], peer'[n] = peer[n],
         up'[n] = Append(up[n], M(AckOf(m.type), m.req, n, f))
  PROVE  /\ Once(up'[n], down'[n], peer'[n], appQ'[n])
         /\ Asked(up'[n]) = Asked(up[n])
         /\ Replies(down'[n], peer'[n], appQ'[n]) = Replies(down[n], peer[n], appQ[n])
         /\ Types(down[n]) \cap ToAgent = {m.type} /\ Types(down'[n]) \cap ToAgent = {}
<1> DEFINE x == M(AckOf(m.type), m.req, n, f)
<1>1. up[n] \in Seq(Msg) /\ down[n] \in Seq(Msg) /\ AtMostOneOrder(up[n], down[n])
  BY NetAt
<1>2. AckOf(m.type) \in Ack /\ m.req \in Node
  BY Kinds DEF Msg
<1>3. x \in Msg /\ x.type = AckOf(m.type)
  BY <1>2, MsgIs DEF MsgType
<1>4. Once(up[n], down[n], peer[n], appQ[n])
  BY NodeIs
<1>5. Distinct(down'[n]) /\ Types(down'[n]) = Types(down[n]) \ {m.type} /\ m.type \in Types(down[n])
  BY <1>1, <1>4, DistinctRemove DEF Once
<1>6. /\ Sel(down[n], ToAgent) = {m} /\ Sel(down'[n], ToAgent) = {}
  BY <1>1, SelRemove DEF AtMostOneOrder
<1>7. Types(down[n]) \cap ToAgent = {m.type} /\ Types(down'[n]) \cap ToAgent = {}
  <2>1. Types(down[n]) \cap ToAgent = {y.type : y \in {m}}
    BY <1>6, SelEmpty
  <2>2. Types(down'[n]) \cap ToAgent = {}
    BY <1>6, SelEmpty
  <2> QED BY <2>1, <2>2
<1>8. Types(up[n]) \cap Ack = {}
  BY <1>1, <1>7 DEF AtMostOneOrder
<1> HIDE DEF x
<1>9. Types(up'[n]) = Types(up[n]) \cup {x.type} /\ Distinct(up'[n])
  BY <1>1, <1>2, <1>3, <1>4, <1>8, TypesAppend DEF Once, x
<1>10. Asked(up'[n]) = Asked(up[n])
  BY <1>2, <1>3, <1>9, Kinds DEF Asked
<1>11. Types(down'[n]) \cap ToApp = Types(down[n]) \cap ToApp
  BY <1>5, Kinds
<1>12. Replies(down'[n], peer'[n], appQ'[n]) = Replies(down[n], peer[n], appQ[n])
  BY <1>11 DEF Replies
<1>13. Once(up'[n], down'[n], peer'[n], appQ'[n])
  BY <1>4, <1>5, <1>9 DEF Once
<1> QED BY <1>7, <1>10, <1>12, <1>13

\* The queues of the node that an owner sends the block to.
LEMMA PeerSent ==
  ASSUME NetInv, NEW r \in Node, NodeInv(r), NEW t \in {ReadOrder, WriteOrder}, Tokens(r) = {t},
         NEW x \in Msg, x.type \in PeerAck, peer'[r] = Append(peer[r], x),
         up'[r] = up[r], down'[r] = down[r], appQ'[r] = appQ[r], OrdersFor(r)' = {},
         RoundsIn(copy', Owed', r) = RoundsIn(copy, Owed, r)
  PROVE  /\ Once(up'[r], down'[r], peer'[r], appQ'[r])
         /\ Tokens(r)' = {x.type}
<1>1. peer[r] \in Seq(Msg) /\ Types(peer[r]) \subseteq PeerAck /\ Types(appQ[r]) \subseteq ToApp \cup PeerAck
  BY NetAt
<1>2. Once(up[r], down[r], peer[r], appQ[r])
  BY NodeIs
<1>3. t \notin ToApp \cup PeerAck /\ t \notin Request /\ t \notin {MissAck, SharedAck}
  BY DEF ToApp, PeerAck, Request, MissAck, SharedAck, ReadOrder, WriteOrder
<1>4. {t} = Asked(up[r]) \cup ((Types(down[r]) \cap ToApp) \cup Types(peer[r]) \cup Types(appQ[r])) \cup OrdersFor(r)
            \cup RoundsIn(copy, Owed, r)
  BY TokensAre DEF TokensIn, Replies
<1>5. /\ Asked(up[r]) = {} /\ Types(down[r]) \cap ToApp = {} /\ Types(peer[r]) = {} /\ Types(appQ[r]) = {}
      /\ RoundsIn(copy, Owed, r) = {}
  BY <1>1, <1>3, <1>4, TokensOther
<1>6. Types(peer'[r]) = {x.type} /\ Distinct(peer'[r])
  BY <1>1, <1>2, <1>5, TypesAppend DEF Once
<1>7. Tokens(r)' = {x.type}
  BY <1>5, <1>6, TokensAre DEF TokensIn, Replies
<1>8. Once(up'[r], down'[r], peer'[r], appQ'[r])
  BY <1>2, <1>5, <1>6 DEF Once
<1> QED BY <1>7, <1>8

LEMMA ProtocolToAgent ==
  ASSUME NetInv, ProtocolInv, SysThread = {0}, NEW n \in Node, FpgaToAgent(n)
  PROVE  ProtocolInv'
<1>0. QueueTypeOK /\ 0 \in SysThread
  BY NetTypes
<1>1. PICK i \in DOMAIN down[n], k \in SysThread, f \in BOOLEAN :
        LET m == down[n][i] IN
           /\ m \in Msg /\ m.type \in ToAgent
           /\ down' = [down EXCEPT ![n] = RemoveAt(@, i)]
           /\ sysQ' = [sysQ EXCEPT ![n][k] = Append(@, m)]
           /\ up' = [up EXCEPT ![n] = Append(@, M(AckOf(m.type), m.req, n, f))]
           /\ peer' = IF m.type \in {ReadOrder, WriteOrder}
                      THEN [peer EXCEPT ![m.req] = Append(@, M(PeerOf(m.type), m.req, n, f))]
                      ELSE peer
           /\ UNCHANGED <<entry, copy, mem, appQ, agent, line, buf, shad, sbuf, wlock, pc, op, got, evType>>
  BY ToAgentType
<1> DEFINE m == down[n][i]
<1>2. /\ m \in Msg /\ m.type \in ToAgent /\ m.req \in Node /\ k = 0
      /\ UNCHANGED <<entry, copy, mem, appQ, agent, line, buf, shad, sbuf, wlock, pc, op, got, evType>>
  BY <1>1 DEF Msg
<1>3. /\ down'[n] = RemoveAt(down[n], i)
      /\ sysQ'[n][0] = Append(sysQ[n][0], m)
      /\ up'[n] = Append(up[n], M(AckOf(m.type), m.req, n, f))
      /\ \A b \in Node : b # n => down'[b] = down[b] /\ sysQ'[b] = sysQ[b] /\ up'[b] = up[b]
  BY <1>0, <1>1 DEF QueueTypeOK
<1>4. DirSame
  BY NetToAgent
<1>5. \A b \in Node : Known(b)' = Known(b) /\ RoundsIn(copy', Owed', b) = RoundsIn(copy, Owed, b)
  BY <1>4, ViewSame
<1>6. down[n] \in Seq(Msg) /\ AtMostOneOrder(up[n], down[n]) /\ sysQ[n][0] \in Seq(Msg)
  BY <1>0, NetAt
<1> HIDE DEF m
<1>7. ASSUME peer'[n] = peer[n], OrdersFor(n)' = OrdersFor(n) PROVE NodeInv(n)'
  <2> DEFINE D == Mail(agent[n][0], sysQ[n][0], Types(down[n]) \cap ToAgent)
             d == Types(down[n]) \cap ToAgent
             q == sysQ[n][0]
             a == agent[n][0]
  <2>1. NodeInv(n) /\ appQ'[n] = appQ[n]
    BY <1>2 DEF ProtocolInv
  <2>2. AgentOK(a, q, d, line[n].st, shad[n].st) /\ ThreadOK(n, Tokens(n), Mail(a, q, d), Known(n))
    BY <2>1, NodeIs
  <2>3. /\ Once(up'[n], down'[n], peer'[n], appQ'[n])
        /\ Asked(up'[n]) = Asked(up[n])
        /\ Replies(down'[n], peer'[n], appQ'[n]) = Replies(down[n], peer[n], appQ[n])
        /\ d = {m.type} /\ Types(down'[n]) \cap ToAgent = {}
    BY <1>2, <1>3, <1>7, <2>1, OrderPassed DEF m
  <2>4. Tokens(n)' = Tokens(n)
    BY <1>5, <1>7, <2>3, TokensAre DEF TokensIn
  <2>5. agent'[n][0] = a /\ sysQ'[n][0] = Append(q, m) /\ line'[n] = line[n] /\ shad'[n] = shad[n] /\ q \in Seq(Msg)
    BY <1>2, <1>3, <1>6
  <2> HIDE DEF a, q, d
  <2>6. AgentOK(a, Append(q, m), {}, line[n].st, shad[n].st) /\ Mail(a, Append(q, m), {}) = Mail(a, q, d)
    BY <1>2, <2>2, <2>3, <2>5, AgentPassOn
  <2>7. AgentOK(agent'[n][0], sysQ'[n][0], Types(down'[n]) \cap ToAgent, line'[n].st, shad'[n].st)
    BY <2>3, <2>5, <2>6
  <2>8. ThreadOKNext(n, Tokens(n)', Mail(agent'[n][0], sysQ'[n][0], Types(down'[n]) \cap ToAgent), Known(n)')
    <3>1. Mail(agent'[n][0], sysQ'[n][0], Types(down'[n]) \cap ToAgent) = Mail(a, q, d)
      BY <2>3, <2>5, <2>6
    <3> QED BY <1>2, <1>5, <2>2, <2>4, <3>1 DEF ThreadOK, ThreadOKNext
  <2> QED BY <2>3, <2>7, <2>8, NodeIs
<1>8. CASE m.type \in {ReadOrder, WriteOrder}
  <2>0. PICK r \in Node : r = m.req
    BY <1>2
  <2> DEFINE x == M(PeerOf(m.type), m.req, n, f)
  <2>1. /\ r \in Node /\ r # n
        /\ \A a \in Node : a # n => Sel(down[a], ToAgent) = {}
        /\ \A b \in Node : OrdersFor(b) = IF b = m.req THEN {m.type} ELSE {}
    BY <1>8, <2>0, OrderAlone DEF m
  <2>2. /\ peer' = [peer EXCEPT ![m.req] = Append(@, x)]
    BY <1>1, <1>8 DEF m
  <2>3. peer'[r] = Append(peer[r], x) /\ \A b \in Node : b # r => peer'[b] = peer[b]
    BY <1>0, <2>0, <2>1, <2>2 DEF QueueTypeOK
  <2>4. PeerOf(m.type) \in PeerAck
    BY <1>8 DEF PeerOf, PeerAck, ReadOrder, WriteOrder
  <2>5. x \in Msg /\ x.type = PeerOf(m.type)
    BY <1>2, <2>4, MsgIs DEF MsgType
  <2>6. Sel(down'[n], ToAgent) = {}
    BY <1>2, <1>3, <1>6, SelRemove DEF AtMostOneOrder, m
  <2>7. \A b \in Node : OrdersFor(b)' = {}
    <3>1. \A a \in Node : Sel(down'[a], ToAgent) = {}
      BY <1>3, <2>1, <2>6
    <3>2. {ReadOrder, WriteOrder} \subseteq ToAgent
      BY TokenKinds
    <3>3. ASSUME NEW b \in Node, NEW t \in {ReadOrder, WriteOrder}, NEW a \in Node
          PROVE  ~OrderIn(down'[a], t, b)
      BY <3>1, <3>2, OrdersSel2
    <3> QED BY <3>3, OrdersAre
  <2> HIDE DEF x
  <2>8. ASSUME NEW b \in Node, b # n, b # r PROVE NodeInv(b)'
    <3>1. Aside(b)
      BY <1>2, <1>3, <2>3, <2>8, KindsSame DEF Aside, SameNode
    <3>2. OrdersFor(b)' = OrdersFor(b)
      BY <2>0, <2>1, <2>7, <2>8
    <3>3. Tokens(b)' = Tokens(b)
      BY <1>5, <3>1, <3>2, AsideTokens
    <3> QED BY <1>5, <3>1, <3>3, AsideKeeps DEF ProtocolInv
  <2>9. NodeInv(r)'
    <3> DEFINE D == Mail(agent[r][0], sysQ[r][0], Types(down[r]) \cap ToAgent)
    <3>1. NodeInv(r) /\ r \in Node /\ r # n
      BY <2>1 DEF ProtocolInv
    <3>2. NodeOK(pc[r], op[r], got[r], evType[r], Flag(line[r]), line[r].st, Flag(shad[r]), shad[r].st, Tokens(r), D, Known(r))
      BY <3>1, NodeIs DEF ThreadOK
    <3>3. m.type \in Tokens(r)
      <4>1. OrdersFor(r) = {m.type}
        BY <2>0, <2>1, <3>1
      <4> QED BY <3>1, <4>1, TokensAre DEF TokensIn
    <3> HIDE DEF D
    <3>4. Tokens(r) = {m.type} /\ pc[r] = "wait"
      BY <1>8, <3>2, <3>3, Alone
    <3>5. /\ Once(up'[r], down'[r], peer'[r], appQ'[r])
          /\ Tokens(r)' = {PeerOf(m.type)}
      <4>1. up'[r] = up[r] /\ down'[r] = down[r] /\ appQ'[r] = appQ[r] /\ OrdersFor(r)' = {}
        BY <1>2, <1>3, <2>7, <3>1
      <4>2. RoundsIn(copy', Owed', r) = RoundsIn(copy, Owed, r) /\ NetInv
        BY <1>5, <3>1
      <4>3. peer'[r] = Append(peer[r], x) /\ x \in Msg /\ x.type = PeerOf(m.type) /\ x.type \in PeerAck
        BY <2>3, <2>4, <2>5
      <4> QED BY <1>8, <3>1, <3>4, <4>1, <4>2, <4>3, PeerSent
    <3>6. Tokens(r) \cap (Request \cup Refusal) = {}
      BY <1>8, <3>4 DEF Request, Refusal, ReadOrder, WriteOrder
    <3>7. NodeOK(pc[r], op[r], got[r], evType[r], Flag(line[r]), line[r].st, Flag(shad[r]), shad[r].st, Tokens(r)', D, Known(r))
      <4>1. CASE m.type = ReadOrder
        <5>1. Tokens(r) = {ReadOrder} /\ Tokens(r)' = {"AGENT_2_APP_READ_MISS_DIRTY_ACKDATA"}
          BY <3>4, <3>5, <4>1 DEF PeerOf, ReadOrder, WriteOrder
        <5> QED BY <3>2, <3>4, <3>6, <5>1, OkSwap
      <4>2. CASE m.type = WriteOrder
        <5>1. Tokens(r) = {WriteOrder} /\ Tokens(r)' = {"AGENT_2_APP_WRITE_MISS_DIRTY_ACKDATA"}
          BY <3>4, <3>5, <4>2 DEF PeerOf, ReadOrder, WriteOrder
        <5> QED BY <3>2, <3>4, <3>6, <5>1, OkSwap
      <4> QED BY <1>8, <4>1, <4>2
    <3>8. ThreadOKNext(r, Tokens(r)', D, Known(r)')
      BY <1>2, <1>5, <3>1, <3>7 DEF ThreadOKNext
    <3>9. Still(r)
      BY <1>2, <1>3, <3>1 DEF Still
    <3> QED BY <3>1, <3>5, <3>8, <3>9, StillKeeps, NodeIs DEF D
  <2>10. peer'[n] = peer[n] /\ OrdersFor(n)' = OrdersFor(n)
    BY <2>0, <2>1, <2>3, <2>7
  <2> QED BY <1>7, <2>8, <2>9, <2>10 DEF ProtocolInv
<1>9. CASE m.type \notin {ReadOrder, WriteOrder}
  <2>1. peer' = peer
    BY <1>1, <1>9 DEF m
  <2>2. \A b \in Node : OrdersFor(b)' = OrdersFor(b)
    <3> DEFINE P == {ReadOrder, WriteOrder}
    <3>1. Sel(down'[n], P) = Sel(down[n], P)
      BY <1>3, <1>6, <1>9, SelRemove DEF m
    <3>2. \A a \in Node : Sel(down'[a], P) = Sel(down[a], P)
      BY <1>3, <3>1
    <3>3. ASSUME NEW b \in Node, NEW t \in {ReadOrder, WriteOrder}, NEW a \in Node
          PROVE  OrderIn(down'[a], t, b) <=> OrderIn(down[a], t, b)
      BY <3>2, OrdersSel2
    <3> QED BY <3>3, OrdersAre
  <2>3. ASSUME NEW b \in Node, b # n PROVE NodeInv(b)'
    <3>1. Aside(b)
      BY <1>2, <1>3, <2>1, <2>3, KindsSame DEF Aside, SameNode
    <3>2. Tokens(b)' = Tokens(b)
      BY <1>5, <2>2, <3>1, AsideTokens
    <3> QED BY <1>5, <3>1, <3>2, AsideKeeps DEF ProtocolInv
  <2> QED BY <1>7, <2>1, <2>2, <2>3 DEF ProtocolInv
<1> QED BY <1>8, <1>9

------------------------------------------------------------------------------
(* Steps of the directory: what they do to a node's queues *)

\* A step of the directory leaves the host of node b and its receive rings alone, and
\* puts no message twice into its queue.
Quiet(b) ==
  /\ SameNode(b) /\ agent'[b] = agent[b] /\ sysQ'[b] = sysQ[b] /\ appQ'[b] = appQ[b] /\ peer'[b] = peer[b]
  /\ Distinct(up'[b])

MailOf(b) == Mail(agent[b][0], sysQ[b][0], Types(down[b]) \cap ToAgent)

\* Node b is sent nothing ...
LEMMA NodeQuiet ==
  ASSUME NEW b \in Node, NodeInv(b), Quiet(b), down'[b] = down[b], ThreadOK(b, Tokens(b)', MailOf(b), Known(b)')
  PROVE  NodeInv(b)'
<1>1. Once(up'[b], down'[b], peer'[b], appQ'[b])
  BY NodeIs DEF Once, Quiet
<1>2. AgentOK(agent'[b][0], sysQ'[b][0], Types(down'[b]) \cap ToAgent, line'[b].st, shad'[b].st)
  BY NodeIs DEF Quiet, SameNode
<1>3. ThreadOKNext(b, Tokens(b)', Mail(agent'[b][0], sysQ'[b][0], Types(down'[b]) \cap ToAgent), Known(b)')
  BY DEF ThreadOK, ThreadOKNext, Quiet, SameNode, MailOf
<1> QED BY <1>1, <1>2, <1>3, NodeIs

\* A message w joins the queue from the directory.
Joins(b, w) ==
  /\ Types(down'[b]) = Types(down[b]) \cup {w}
  /\ Distinct(down[b]) /\ w \notin Types(down[b]) => Distinct(down'[b])

\* ... or a reply ...
LEMMA NodeReplied ==
  ASSUME NEW b \in Node, NodeInv(b), Quiet(b), NEW w \in ToApp, Joins(b, w),
         w \notin Replies(down[b], peer[b], appQ[b]), ThreadOK(b, Tokens(b)', MailOf(b), Known(b)')
  PROVE  NodeInv(b)'
<1>0. w \notin Types(down[b]) /\ w \notin Types(appQ[b]) /\ w \notin ToAgent
  BY Kinds DEF Replies
<1>1. Once(up'[b], down'[b], peer'[b], appQ'[b])
  BY <1>0, NodeIs DEF Once, Quiet, Joins
<1>a. Types(down'[b]) \cap ToAgent = Types(down[b]) \cap ToAgent
  BY <1>0 DEF Joins
<1>2. AgentOK(agent'[b][0], sysQ'[b][0], Types(down'[b]) \cap ToAgent, line'[b].st, shad'[b].st)
  BY <1>a, NodeIs DEF Quiet, SameNode
<1>3. ThreadOKNext(b, Tokens(b)', Mail(agent'[b][0], sysQ'[b][0], Types(down'[b]) \cap ToAgent), Known(b)')
  BY <1>a DEF ThreadOK, ThreadOKNext, Quiet, SameNode, MailOf
<1> QED BY <1>1, <1>2, <1>3, NodeIs

\* ... or an order.
LEMMA NodeOrdered ==
  ASSUME NetInv, NEW b \in Node, NodeInv(b), Quiet(b), NEW w \in ToAgent, Joins(b, w),
         Types(down[b]) \cap ToAgent = {}, w \notin MailOf(b), w = ReadOrder => MailOf(b) = {},
         ThreadOK(b, Tokens(b)', MailOf(b) \cup {w}, Known(b)')
  PROVE  NodeInv(b)'
<1> DEFINE a == agent[b][0]
           q == sysQ[b][0]
<1>0. w \notin Types(down[b]) /\ w \notin Types(appQ[b]) /\ w # "none"
  BY NetAt, Kinds, OrderKinds
<1>1. Once(up'[b], down'[b], peer'[b], appQ'[b])
  BY <1>0, NodeIs DEF Once, Quiet, Joins
<1>2. Types(down'[b]) \cap ToAgent = {w}
  BY DEF Joins
<1>3. AgentOK(a, q, {}, line[b].st, shad[b].st) /\ MailOf(b) = Mail(a, q, {})
  BY NodeIs DEF MailOf
<1>4. agent'[b][0] = a /\ sysQ'[b][0] = q /\ line'[b] = line[b] /\ shad'[b] = shad[b]
  BY DEF Quiet, SameNode
<1> HIDE DEF a, q
<1>5. AgentOK(a, q, {w}, line[b].st, shad[b].st) /\ Mail(a, q, {w}) = MailOf(b) \cup {w}
  <2>1. w \notin Mail(a, q, {}) /\ (w = ReadOrder => Mail(a, q, {}) = {})
    BY <1>3
  <2>2. AgentOK(a, q, {w}, line[b].st, shad[b].st) /\ Mail(a, q, {w}) = Mail(a, q, {}) \cup {w}
    BY <1>0, <1>3, <2>1, AgentOrdered
  <2> QED BY <1>3, <2>2
<1>6. AgentOK(agent'[b][0], sysQ'[b][0], Types(down'[b]) \cap ToAgent, line'[b].st, shad'[b].st)
  BY <1>2, <1>4, <1>5
<1>7. Mail(agent'[b][0], sysQ'[b][0], Types(down'[b]) \cap ToAgent) = MailOf(b) \cup {w}
  BY <1>2, <1>4, <1>5
<1>8. ThreadOKNext(b, Tokens(b)', MailOf(b) \cup {w}, Known(b)')
  BY DEF ThreadOK, ThreadOKNext, Quiet, SameNode
<1> QED BY <1>1, <1>6, <1>7, <1>8, NodeIs

\* What the directory's messages do to the queues: the queue of the node it goes to, and
\* the orders for the one that it is about.
SentOne(x) ==
  /\ x \in OutMsg /\ Dst(x) \in Node
  /\ Joins(Dst(x), x.type)
  /\ \A b \in Node : b # Dst(x) => down'[b] = down[b]
  /\ \A b \in Node : OrdersFor(b)' = OrdersFor(b) \cup (IF b = x.req THEN {x.type} \cap {ReadOrder, WriteOrder} ELSE {})
  /\ NetInv' /\ x.type \in ToAgent => Types(down[Dst(x)]) \cap ToAgent = {}

LEMMA SentIs ==
  ASSUME NetInv, NEW out, SendDown(out), out = {} \/ \E x \in OutMsg : out = {x}
  PROVE  \/ out = {} /\ down' = down
         \/ \E x \in OutMsg : out = {x} /\ SentOne(x)
<1>1. down \in [Node -> Seq(Msg)] /\ mem \in BOOLEAN
  BY NetTypes DEF QueueTypeOK
<1>2. \/ out = {} /\ down' = down
      \/ \E x \in OutMsg, w \in Msg :
           /\ out = {x} /\ Dst(x) \in Node
           /\ w.type = x.type /\ w.req = x.req /\ w.agent = x.agent
           /\ down' = [down EXCEPT ![Dst(x)] = Append(@, w)]
  BY <1>1, Sending
<1>3. ASSUME NEW x \in OutMsg, NEW w \in Msg, Dst(x) \in Node, w.type = x.type, w.req = x.req,
             down' = [down EXCEPT ![Dst(x)] = Append(@, w)]
      PROVE  SentOne(x)
  <2> DEFINE a == Dst(x)
  <2>1. down'[a] = Append(down[a], w) /\ down[a] \in Seq(Msg) /\ \A b \in Node : b # a => down'[b] = down[b]
    BY <1>1, <1>3
  <2>2. a \in Node
    BY <1>3
  <2> HIDE DEF a
  <2>3. Joins(a, x.type)
    BY <1>3, <2>1, TypesAppend DEF Joins
  <2>4. Range(down'[a]) = Range(down[a]) \cup {w}
    BY <2>1, Appending
  <2>5. ASSUME NEW b \in Node, NEW t \in {ReadOrder, WriteOrder}
        PROVE  (\E c \in Node : OrderIn(down'[c], t, b)) <=> (\E c \in Node : OrderIn(down[c], t, b)) \/ (b = x.req /\ t = x.type)
    <3>1. \A c \in Node : c # a => (OrderIn(down'[c], t, b) <=> OrderIn(down[c], t, b))
      BY <2>1
    <3>2. OrderIn(down'[a], t, b) <=> OrderIn(down[a], t, b) \/ (w.type = t /\ w.req = b)
      BY <2>4 DEF OrderIn
    <3> QED BY <1>3, <2>2, <3>1, <3>2
  <2>6. \A b \in Node : OrdersFor(b)' = OrdersFor(b) \cup (IF b = x.req THEN {x.type} \cap {ReadOrder, WriteOrder} ELSE {})
    BY <2>5, OrdersAre
  <2>7. ASSUME NetInv', x.type \in ToAgent PROVE Types(down[a]) \cap ToAgent = {}
    <3>1. AtMostOne(down'[a], ToAgent)
      BY <2>2, <2>7 DEF NetInv, OneOrder, AtMostOneOrder
    <3>2. \A j \in DOMAIN down[a] : down[a][j].type \notin ToAgent
      <4>1. /\ DOMAIN down'[a] = 1 .. Len(down[a]) + 1 /\ DOMAIN down[a] = 1 .. Len(down[a]) /\ Len(down[a]) \in Nat
            /\ down'[a][Len(down[a]) + 1] = w
            /\ \A j \in 1 .. Len(down[a]) : down'[a][j] = down[a][j]
        BY <2>1
      <4> QED BY <1>3, <2>7, <3>1, <4>1 DEF AtMostOne
    <3> QED BY <3>2 DEF Types, Range
  <2> QED BY <1>3, <2>1, <2>3, <2>6, <2>7 DEF SentOne, a
<1> QED BY <1>2, <1>3

------------------------------------------------------------------------------
(* Steps of the directory: requests, answers, invalidations *)

\* A message leaves the queue to the directory.
LEMMA UpRemoved ==
  ASSUME NetInv, ProtocolInv, NEW n \in Node, NEW i \in DOMAIN up[n], up' = [up EXCEPT ![n] = RemoveAt(@, i)],
         UNCHANGED <<peer, appQ, sysQ, agent, line, shad, pc, op, got, evType>>
  PROVE  /\ \A b \in Node : Quiet(b)
         /\ \A b \in Node : b # n => up'[b] = up[b]
         /\ Types(up'[n]) = Types(up[n]) \ {up[n][i].type} /\ up[n][i].type \in Types(up[n])
<1>1. QueueTypeOK /\ up[n] \in Seq(Msg)
  BY NetTypes, NetAt
<1>2. \A b \in Node : Distinct(up[b])
  BY DEF ProtocolInv, NodeInv, Once
<1>3. up'[n] = RemoveAt(up[n], i) /\ \A b \in Node : b # n => up'[b] = up[b]
  BY <1>1 DEF QueueTypeOK
<1>4. Distinct(up'[n]) /\ Types(up'[n]) = Types(up[n]) \ {up[n][i].type} /\ up[n][i].type \in Types(up[n])
  BY <1>1, <1>2, <1>3, DistinctRemove
<1>5. \A b \in Node : Distinct(up'[b])
  BY <1>2, <1>3, <1>4
<1> QED BY <1>3, <1>4, <1>5 DEF Quiet, SameNode

\* What NodeInv says of the thread.
LEMMA ThreadIs ==
  ASSUME NEW b \in Node, NodeInv(b)
  PROVE  NodeOK(pc[b], op[b], got[b], evType[b], Flag(line[b]), line[b].st, Flag(shad[b]), shad[b].st,
                Tokens(b), MailOf(b), Known(b))
BY NodeIs DEF ThreadOK, MailOf

\* The tokens of a node whose request the directory takes.
LEMMA TokensAtRequest ==
  ASSUME NetInv, NEW n \in Node, NodeInv(n), NEW t \in Request, t \in Types(up[n])
  PROVE  /\ Tokens(n) = {t} /\ Asked(up[n]) = {t} /\ Replies(down[n], peer[n], appQ[n]) = {}
         /\ OrdersFor(n) = {} /\ RoundsIn(copy, Owed, n) = {}
<1>1. t \in Asked(up[n])
  BY DEF Asked
<1>2. t \in Tokens(n)
  BY <1>1, TokensAre DEF TokensIn
<1> DEFINE D == MailOf(n)
<1>3. NodeOK(pc[n], op[n], got[n], evType[n], Flag(line[n]), line[n].st, Flag(shad[n]), shad[n].st, Tokens(n), D, Known(n))
  BY ThreadIs
<1> HIDE DEF D
<1>4. Tokens(n) = {t}
  BY <1>2, <1>3, Alone
<1>5. Types(peer[n]) \subseteq PeerAck /\ Types(appQ[n]) \subseteq ToApp \cup PeerAck
  BY NetAt
<1>6. Replies(down[n], peer[n], appQ[n]) \subseteq ToApp \cup PeerAck
  BY <1>5 DEF Replies
<1>7. t \notin ToApp \cup PeerAck /\ t \notin {ReadOrder, WriteOrder} /\ t \notin {MissAck, SharedAck}
  BY DEF Request, ToApp, PeerAck, ReadOrder, WriteOrder, MissAck, SharedAck
<1> QED BY <1>1, <1>4, <1>6, <1>7, TokensAre, TokensOther DEF TokensIn

LEMMA ProtocolRequest ==
  ASSUME NetInv, NetInv', ProtocolInv, NEW n \in Node, NEW i \in DOMAIN up[n], NEW t \in Request,
         up[n][i].type = t, up' = [up EXCEPT ![n] = RemoveAt(@, i)],
         Requested(t, n, entry, copy, Owed, entry', copy', Owed'),
         SendDown(HandleRequest(entry, t, n).out),
         UNCHANGED <<peer, appQ, sysQ, agent, line, shad, pc, op, got, evType>>
  PROVE  ProtocolInv'
<1> DEFINE out == HandleRequest(entry, t, n).out
           K(b) == KnownIn(entry, copy, Owed, b)
           K1(b) == KnownIn(entry', copy', Owed', b)
           R(b) == RoundsIn(copy, Owed, b)
           R1(b) == RoundsIn(copy', Owed', b)
<1>1. EntryInv(entry, copy, Owed)
  BY DEF NetInv
<1>2. /\ \A b \in Node : Quiet(b)
      /\ \A b \in Node : b # n => up'[b] = up[b]
      /\ Types(up'[n]) = Types(up[n]) \ {t} /\ t \in Types(up[n])
  BY UpRemoved
<1>3. \A b \in Node : NodeInv(b)
  BY DEF ProtocolInv
<1>4. /\ Tokens(n) = {t} /\ Asked(up[n]) = {t} /\ Replies(down[n], peer[n], appQ[n]) = {}
      /\ OrdersFor(n) = {} /\ R(n) = {}
  BY <1>2, <1>3, TokensAtRequest
<1>5. Turned(t, n, entry, copy, Owed, entry', copy', Owed', out)
  BY <1>1, <1>4, RequestTurned
<1>6. \A b \in Node : Known(b) = K(b) /\ Known(b)' = K1(b)
  BY DEF Known
<1>7. \/ out = {} /\ down' = down
      \/ \E x \in OutMsg : out = {x} /\ SentOne(x)
  <2>1. out = {} \/ \E x \in OutMsg : out = {x}
    BY <1>1, RequestOut
  <2> QED BY <2>1, SentIs
<1>8. Asked(up'[n]) = {} /\ \A b \in Node : b # n => Asked(up'[b]) = Asked(up[b])
  BY <1>2, <1>4 DEF Asked
<1>9. \A b \in Node : peer'[b] = peer[b] /\ appQ'[b] = appQ[b]
  OBVIOUS
<1> HIDE DEF out, K, K1, R, R1
<1>10. /\ \A x \in out : x.req = n /\ (x.type \in ToAgent => x.type \in {ReadOrder, WriteOrder} /\ x.agent # n)
       /\ Outcome(t, K(n), {x.type : x \in out} \cup R1(n), K1(n))
       /\ \A b \in Node : b # n => R1(b) = R(b)
       /\ \A b \in Node : b # n =>
            \/ /\ K1(b) = K(b)
               /\ \A x \in out : x.type \in ToAgent => x.agent # b
            \/ \E x \in out : /\ x.type \in ToAgent /\ x.agent = b
                              /\ K(b) = "MODIFIED"
                              /\ K1(b) = IF x.type = ReadOrder THEN "SHARED" ELSE "INVALID"
  BY <1>5 DEF Turned, K, K1, R, R1
<1>11. ThreadOK(n, {x.type : x \in out} \cup R1(n), MailOf(n), K1(n))
  <2> DEFINE D == MailOf(n)
             T1 == {x.type : x \in out} \cup R1(n)
  <2>1. NodeOK(pc[n], op[n], got[n], evType[n], Flag(line[n]), line[n].st, Flag(shad[n]), shad[n].st, Tokens(n), D, K(n))
    BY <1>3, <1>6, ThreadIs
  <2>2. Outcome(t, K(n), T1, K1(n)) /\ t \in Tokens(n) \cap Request
    BY <1>4, <1>10
  <2> HIDE DEF D, T1
  <2>3. NodeOK(pc[n], op[n], got[n], evType[n], Flag(line[n]), line[n].st, Flag(shad[n]), shad[n].st, T1, D, K1(n))
    BY <2>1, <2>2, OkOwn
  <2> QED BY <2>3 DEF ThreadOK, D, T1
<1>12. CASE out = {} /\ down' = down
  <2>1. \A b \in Node : OrdersFor(b)' = OrdersFor(b)
    BY <1>12, OrdersSame
  <2>2. Tokens(n)' = R1(n) /\ {x.type : x \in out} \cup R1(n) = R1(n)
    <3>1. {x.type : x \in out} = {}
      BY <1>12
    <3>2. Replies(down'[n], peer'[n], appQ'[n]) = {} /\ OrdersFor(n)' = {}
      BY <1>4, <1>9, <1>12, <2>1
    <3>3. Tokens(n)' = R1(n)
      BY <1>8, <3>2, TokensAre DEF TokensIn, R1
    <3> QED BY <3>1, <3>3
  <2>3. NodeInv(n)'
    BY <1>2, <1>3, <1>6, <1>11, <1>12, <2>2, NodeQuiet
  <2>4. ASSUME NEW b \in Node, b # n PROVE NodeInv(b)'
    <3>1. Known(b)' = Known(b) /\ R1(b) = R(b)
      BY <1>6, <1>10, <1>12, <2>4
    <3>2. Tokens(b)' = Tokens(b)
      BY <1>8, <1>9, <1>12, <2>1, <2>4, <3>1, TokensAre DEF TokensIn, R, R1
    <3>3. ThreadOK(b, Tokens(b)', MailOf(b), Known(b)')
      BY <1>3, <3>1, <3>2, ThreadIs DEF ThreadOK
    <3> QED BY <1>2, <1>3, <1>12, <3>3, NodeQuiet
  <2> QED BY <2>3, <2>4 DEF ProtocolInv
<1>13. CASE \E x \in OutMsg : out = {x} /\ SentOne(x)
  <2>1. PICK x \in OutMsg : out = {x} /\ SentOne(x)
    BY <1>13
  <2>2. {y.type : y \in out} = {x.type} /\ x.req = n
    BY <1>10, <2>1
  <2>3. ASSUME NEW b \in Node, b # n PROVE OrdersFor(b)' = OrdersFor(b) /\ R1(b) = R(b)
    BY <1>10, <2>1, <2>2, <2>3 DEF SentOne
  <2>4. CASE x.type \in ToAgent
    <3>0. PICK c \in Node : c = x.agent /\ c = Dst(x) /\ c # n /\ x.type \in {ReadOrder, WriteOrder}
      BY <1>10, <2>1, <2>4 DEF OutMsg, Dst
    <3>1. /\ \A b \in Node : b # c => down'[b] = down[b]
          /\ Joins(c, x.type) /\ OrdersFor(n)' = {x.type} /\ Types(down[c]) \cap ToAgent = {}
      BY <1>4, <2>1, <2>2, <2>4, <3>0 DEF SentOne
    <3>2. Tokens(n)' = {x.type} \cup R1(n)
      BY <1>4, <1>8, <1>9, <3>0, <3>1, TokensAre DEF TokensIn, R1
    <3>3. NodeInv(n)'
      BY <1>2, <1>3, <1>6, <1>11, <2>2, <3>0, <3>1, <3>2, NodeQuiet
    <3>4. ASSUME NEW b \in Node, b # n, b # c PROVE NodeInv(b)'
      <4>1. Known(b)' = Known(b) /\ down'[b] = down[b]
        <5>1. \A y \in out : y.agent # b
          BY <2>1, <3>0, <3>4
        <5>2. K1(b) = K(b)
          BY <1>10, <3>4, <5>1
        <5> QED BY <1>6, <3>1, <3>4, <5>2
      <4>2. Tokens(b)' = Tokens(b)
        BY <1>8, <1>9, <2>3, <3>4, <4>1, TokensAre DEF TokensIn, R, R1
      <4>3. ThreadOK(b, Tokens(b)', MailOf(b), Known(b)')
        BY <1>3, <4>1, <4>2, ThreadIs DEF ThreadOK
      <4> QED BY <1>2, <1>3, <4>1, <4>3, NodeQuiet
    <3>5. NodeInv(c)'
      <4>1. K(c) = "MODIFIED" /\ K1(c) = IF x.type = ReadOrder THEN "SHARED" ELSE "INVALID"
        BY <1>10, <2>1, <2>4, <3>0
      <4> DEFINE D == MailOf(c)
      <4>2. NodeOK(pc[c], op[c], got[c], evType[c], Flag(line[c]), line[c].st, Flag(shad[c]), shad[c].st, Tokens(c), D, "MODIFIED")
        BY <1>3, <1>6, <4>1, ThreadIs
      <4> HIDE DEF D
      <4>3. /\ D = {}
            /\ NodeOK(pc[c], op[c], got[c], evType[c], Flag(line[c]), line[c].st, Flag(shad[c]), shad[c].st, Tokens(c), {ReadOrder}, "SHARED")
            /\ NodeOK(pc[c], op[c], got[c], evType[c], Flag(line[c]), line[c].st, Flag(shad[c]), shad[c].st, Tokens(c), {WriteOrder}, "INVALID")
        BY <4>2, OkHandOver
      <4>4. x.type \notin ToApp
        BY <2>4, Kinds
      <4>5. Types(down'[c]) \cap ToApp = Types(down[c]) \cap ToApp
        BY <3>1, <4>4 DEF Joins
      <4>6. Tokens(c)' = Tokens(c)
        BY <1>8, <1>9, <2>3, <3>0, <4>5, TokensAre DEF TokensIn, Replies, R, R1
      <4>7. Known(c)' = IF x.type = ReadOrder THEN "SHARED" ELSE "INVALID"
        BY <1>6, <4>1
      <4>8. ThreadOK(c, Tokens(c)', {x.type}, Known(c)')
        <5>1. CASE x.type = ReadOrder
          BY <4>3, <4>6, <4>7, <5>1 DEF ThreadOK
        <5>2. CASE x.type = WriteOrder
          <6>1. Known(c)' = "INVALID"
            BY <4>7, <5>2, OrderKinds
          <6> QED BY <4>3, <4>6, <5>2, <6>1 DEF ThreadOK
        <5> QED BY <3>0, <5>1, <5>2
      <4>9. MailOf(c) = {} /\ MailOf(c) \cup {x.type} = {x.type}
        BY <4>3 DEF D
      <4> QED BY <1>2, <1>3, <2>4, <3>1, <4>8, <4>9, NodeOrdered
    <3> QED BY <3>3, <3>4, <3>5 DEF ProtocolInv
  <2>5. CASE x.type \notin ToAgent
    <3>1. x.type \in ToApp /\ Dst(x) = n /\ x.type \notin {ReadOrder, WriteOrder}
      BY <2>2, <2>5, TokenKinds DEF OutMsg, Dst
    <3>2. /\ \A b \in Node : b # n => down'[b] = down[b]
          /\ Joins(n, x.type) /\ OrdersFor(n)' = {}
      BY <1>4, <2>1, <3>1 DEF SentOne
    <3>3. Replies(down'[n], peer'[n], appQ'[n]) = {x.type}
      BY <1>4, <1>9, <3>1, <3>2 DEF Joins, Replies
    <3>4. Tokens(n)' = {x.type} \cup R1(n)
      BY <1>8, <3>2, <3>3, TokensAre DEF TokensIn, R1
    <3>5. x.type \notin Replies(down[n], peer[n], appQ[n])
      BY <1>4
    <3>6. ThreadOK(n, Tokens(n)', MailOf(n), Known(n)')
      BY <1>6, <1>11, <2>2, <3>4
    <3>7. NodeInv(n)'
      BY <1>2, <1>3, <3>1, <3>2, <3>5, <3>6, NodeReplied
    <3>8. ASSUME NEW b \in Node, b # n PROVE NodeInv(b)'
      <4>1. Known(b)' = Known(b) /\ down'[b] = down[b]
        BY <1>6, <1>10, <2>1, <2>5, <3>2, <3>8
      <4>2. Tokens(b)' = Tokens(b)
        BY <1>8, <1>9, <2>3, <3>8, <4>1, TokensAre DEF TokensIn, R, R1
      <4>3. ThreadOK(b, Tokens(b)', MailOf(b), Known(b)')
        BY <1>3, <4>1, <4>2, ThreadIs DEF ThreadOK
      <4> QED BY <1>2, <1>3, <4>1, <4>3, NodeQuiet
    <3> QED BY <3>7, <3>8 DEF ProtocolInv
  <2> QED BY <2>4, <2>5
<1> QED BY <1>7, <1>12, <1>13

LEMMA ProtocolAnswer ==
  ASSUME NetInv, NetInv', ProtocolInv, NEW n \in Node, NEW i \in DOMAIN up[n], NEW m, m = up[n][i],
         m.type \in Ack, m.agent = n, up' = [up EXCEPT ![n] = RemoveAt(@, i)],
         Strip(m) \in Owed, Answered(Strip(m), entry, copy, Owed, entry', copy', Owed'),
         SendDown(HandleAck(entry, m.type, m.req, n).out),
         UNCHANGED <<peer, appQ, sysQ, agent, line, shad, pc, op, got, evType>>
  PROVE  ProtocolInv'
<1> DEFINE out == HandleAck(entry, m.type, m.req, n).out
           R(b) == RoundsIn(copy, Owed, b)
           R1(b) == RoundsIn(copy', Owed', b)
<1>1. EntryInv(entry, copy, Owed) /\ entry \in Entry /\ m \in Msg /\ m.req \in Node
  <2>1. EntryInv(entry, copy, Owed) /\ entry \in Entry
    BY NetTypes DEF NetInv
  <2>2. up[n] \in Seq(Msg)
    BY NetAt
  <2>3. m \in Msg
    BY <2>2
  <2>4. m.req \in Node
    BY <2>3 DEF Msg
  <2> QED BY <2>1, <2>3, <2>4
<1>2. /\ \A b \in Node : Quiet(b)
      /\ \A b \in Node : b # n => up'[b] = up[b]
      /\ Types(up'[n]) = Types(up[n]) \ {m.type}
  BY UpRemoved
<1>3. \A b \in Node : NodeInv(b)
  BY DEF ProtocolInv
<1>4. Taken(entry, copy, Owed, entry', copy', Owed', out)
  <2>1. Strip(m).type = m.type /\ Strip(m).req = m.req /\ Strip(m).agent = n
    BY DEF Strip
  <2> QED BY <1>1, <2>1, AnswerTaken
<1>5. \A b \in Node : Known(b)' = Known(b)
  BY <1>4 DEF Known, Taken
<1>6. \/ out = {} /\ down' = down
      \/ \E x \in OutMsg : out = {x} /\ SentOne(x)
  <2>1. out = {} \/ \E x \in OutMsg : out = {x}
    BY <1>1, AckOut
  <2> QED BY <2>1, SentIs
<1>7. \A b \in Node : Asked(up'[b]) = Asked(up[b])
  BY <1>2, Kinds DEF Asked
<1>8. \A b \in Node : peer'[b] = peer[b] /\ appQ'[b] = appQ[b]
  OBVIOUS
<1>9. \/ out = {} /\ \A b \in Node : R1(b) = R(b)
      \/ \E r \in Node, t \in {MissAck, SharedAck} :
          /\ out = {ToReq(Summed(t), r)}
          /\ R(r) = {t}
          /\ \A b \in Node : b # r => R(b) = {}
          /\ \A b \in Node : R1(b) = {}
  BY <1>4 DEF Taken
<1> HIDE DEF out, R, R1
<1>10. ASSUME NEW b \in Node, down'[b] = down[b], OrdersFor(b)' = OrdersFor(b), R1(b) = R(b)
       PROVE  NodeInv(b)'
  <2>1. Tokens(b)' = Tokens(b)
    BY <1>7, <1>8, <1>10, TokensAre DEF TokensIn, R, R1
  <2>2. ThreadOK(b, Tokens(b)', MailOf(b), Known(b)')
    BY <1>3, <1>5, <2>1, ThreadIs DEF ThreadOK
  <2> QED BY <1>2, <1>3, <1>10, <2>2, NodeQuiet
<1>11. CASE out = {}
  <2>1. down' = down /\ \A b \in Node : R1(b) = R(b)
    BY <1>6, <1>9, <1>11
  <2> QED BY <1>10, <2>1, OrdersSame DEF ProtocolInv
<1>12. CASE out # {}
  <2>1. PICK r \in Node, t \in {MissAck, SharedAck} :
          /\ out = {ToReq(Summed(t), r)}
          /\ R(r) = {t}
          /\ \A b \in Node : b # r => R(b) = {}
          /\ \A b \in Node : R1(b) = {}
    BY <1>9, <1>12
  <2> DEFINE u == Summed(t)
             x == ToReq(u, r)
  <2>2. u \in ToApp /\ u \notin ToAgent /\ u \notin {ReadOrder, WriteOrder}
    BY Kinds, TokenKinds DEF Summed, ToApp
  <2>3. SentOne(x) /\ x.type = u /\ x.req = r /\ Dst(x) = r
    <3>1. SentOne(x)
      BY <1>6, <1>12, <2>1
    <3> QED BY <2>2, <3>1 DEF ToReq, Dst
  <2>4. /\ Joins(r, u)
        /\ \A b \in Node : b # r => down'[b] = down[b]
        /\ \A b \in Node : OrdersFor(b)' = OrdersFor(b)
    BY <2>2, <2>3 DEF SentOne
  <2> DEFINE D == MailOf(r)
  <2>5. NodeOK(pc[r], op[r], got[r], evType[r], Flag(line[r]), line[r].st, Flag(shad[r]), shad[r].st, Tokens(r), D, Known(r))
    BY <1>3, ThreadIs
  <2>6. t \in Tokens(r)
    BY <2>1, TokensAre DEF TokensIn, R
  <2> HIDE DEF D
  <2>7. /\ pc[r] = "wait"
        /\ \/ Tokens(r) = {t}
           \/ t = MissAck /\ Tokens(r) = {t, "DIR_2_APP_WRITE_MISS_SHAREDDATA"}
    BY <2>5, <2>6, Alone
  <2>8. /\ u # t /\ u # "DIR_2_APP_WRITE_MISS_SHAREDDATA" /\ t \notin Request
        /\ t \notin ToApp \cup PeerAck /\ t \notin {ReadOrder, WriteOrder}
    BY DEF Summed, MissAck, SharedAck, Request, ToApp, PeerAck, ReadOrder, WriteOrder
  <2>9. u \notin Tokens(r)
    BY <2>7, <2>8
  <2>10. u \notin Replies(down[r], peer[r], appQ[r])
    BY <2>9, TokensAre DEF TokensIn
  <2>11. Tokens(r)' = (Tokens(r) \ {t}) \cup {u}
    <3>1. t \notin Asked(up[r]) /\ t \notin OrdersFor(r)
      BY <2>8, TokensOther
    <3>2. t \notin Replies(down[r], peer[r], appQ[r])
      BY <2>8, NetAt DEF Replies
    <3>3. Replies(down'[r], peer'[r], appQ'[r]) = Replies(down[r], peer[r], appQ[r]) \cup {u}
      BY <1>8, <2>2, <2>4 DEF Replies, Joins
    <3>4. Tokens(r) = Asked(up[r]) \cup Replies(down[r], peer[r], appQ[r]) \cup OrdersFor(r) \cup {t}
      BY <2>1, TokensAre DEF TokensIn, R
    <3>5. Tokens(r)' = Asked(up[r]) \cup (Replies(down[r], peer[r], appQ[r]) \cup {u}) \cup OrdersFor(r)
      BY <1>7, <2>1, <2>4, <3>3, TokensAre DEF TokensIn, R1
    <3> QED BY <3>1, <3>2, <3>4, <3>5
  <2>12. NodeOK(pc[r], op[r], got[r], evType[r], Flag(line[r]), line[r].st, Flag(shad[r]), shad[r].st, Tokens(r)', D, Known(r))
    <3>1. Tokens(r) \cap (Request \cup Refusal) = {}
      BY <2>7 DEF Request, Refusal, MissAck, SharedAck
    <3>2. \/ Tokens(r) = {SharedAck} /\ Tokens(r)' = {"DIR_2_APP_WRITE_SHARED_NOTONLY_AGGACK_ACK"}
          \/ Tokens(r) = {MissAck} /\ Tokens(r)' = {"DIR_2_APP_WRITE_MISS_SHARED_AGGACK_ACK"}
          \/ Tokens(r) = {MissAck, "DIR_2_APP_WRITE_MISS_SHAREDDATA"} /\ Tokens(r)' = Partial
      <4>1. CASE Tokens(r) = {t}
        <5>1. Tokens(r)' = {u}
          BY <2>11, <4>1
        <5>2. CASE t = MissAck
          BY <4>1, <5>1, <5>2 DEF Summed
        <5>3. CASE t = SharedAck
          BY <4>1, <5>1, <5>3 DEF Summed, MissAck, SharedAck
        <5> QED BY <5>2, <5>3
      <4>2. CASE t = MissAck /\ Tokens(r) = {t, "DIR_2_APP_WRITE_MISS_SHAREDDATA"}
        <5>1. u = "DIR_2_APP_WRITE_MISS_SHARED_AGGACK_ACK"
          BY <4>2 DEF Summed
        <5>2. Tokens(r)' = {"DIR_2_APP_WRITE_MISS_SHAREDDATA", u}
          BY <2>8, <2>11, <4>2 DEF ToApp
        <5> QED BY <4>2, <5>1, <5>2 DEF Partial
      <4> QED BY <2>7, <4>1, <4>2
    <3> QED BY <2>5, <2>7, <3>1, <3>2, OkSwap
  <2>13. ThreadOK(r, Tokens(r)', MailOf(r), Known(r)')
    BY <1>5, <2>12 DEF ThreadOK, D
  <2> HIDE DEF u, x
  <2>14. NodeInv(r)'
    BY <1>2, <1>3, <2>2, <2>4, <2>10, <2>13, NodeReplied
  <2>15. ASSUME NEW b \in Node, b # r PROVE NodeInv(b)'
    BY <1>10, <2>1, <2>4, <2>15
  <2> QED BY <2>14, <2>15 DEF ProtocolInv
<1> QED BY <1>11, <1>12

LEMMA ProtocolCopy ==
  ASSUME NetInv, ProtocolInv, DirCopyLoop
  PROVE  ProtocolInv'
<1> DEFINE out == CopyOut(copy)
<1>1. EntryInv(entry, copy, Owed) /\ copy \in Copy
  BY NetTypes DEF NetInv
<1>2. NetInv' /\ CopiedOne(entry, copy, Owed, entry', copy', Owed') /\ SendDown(out)
      /\ UNCHANGED <<up, peer, appQ, sysQ, agent, line, shad, pc, op, got, evType>>
  BY NetCopy DEF DirCopyLoop, hostQ, lineVars, threadVars
<1>3. \A b \in Node : NodeInv(b)
  BY DEF ProtocolInv
<1>4. Copied(entry, copy, Owed, entry', copy', Owed', out)
  BY <1>1, <1>2, CopyCopied
<1>5. \A b \in Node : RoundsIn(copy', Owed', b) = RoundsIn(copy, Owed, b)
  BY <1>4 DEF Copied
<1>6. \/ out = {} /\ down' = down
      \/ \E x \in OutMsg : out = {x} /\ SentOne(x)
  <2>1. out = {} \/ \E x \in OutMsg : out = {x}
    BY <1>1, CopyOutIs
  <2> QED BY <1>2, <2>1, SentIs
<1>7. \A b \in Node : Quiet(b) /\ up'[b] = up[b] /\ peer'[b] = peer[b] /\ appQ'[b] = appQ[b]
  BY <1>2, <1>3 DEF Quiet, SameNode, NodeInv, Once
<1>8. \/ out = {} /\ \A b \in Node : Known(b)' = Known(b)
      \/ \E w \in Invalidation, a \in Node, r \in Node :
          /\ out = {[type |-> w, req |-> r, agent |-> a]}
          /\ Known(a) = "SHARED" /\ Known(a)' = "INVALID"
          /\ \A b \in Node : b # a => Known(b)' = Known(b)
  BY <1>4 DEF Copied, Known
<1> HIDE DEF out
<1>9. ASSUME NEW b \in Node, down'[b] = down[b], OrdersFor(b)' = OrdersFor(b), Known(b)' = Known(b)
      PROVE  NodeInv(b)'
  <2>1. Tokens(b)' = Tokens(b)
    BY <1>5, <1>7, <1>9, TokensAre DEF TokensIn
  <2>2. ThreadOK(b, Tokens(b)', MailOf(b), Known(b)')
    BY <1>3, <1>9, <2>1, ThreadIs DEF ThreadOK
  <2> QED BY <1>3, <1>7, <1>9, <2>2, NodeQuiet
<1>10. CASE out = {}
  BY <1>6, <1>8, <1>9, <1>10, OrdersSame DEF ProtocolInv
<1>11. CASE out # {}
  <2>1. PICK w \in Invalidation, a \in Node, r \in Node :
          /\ out = {[type |-> w, req |-> r, agent |-> a]}
          /\ Known(a) = "SHARED" /\ Known(a)' = "INVALID"
          /\ \A b \in Node : b # a => Known(b)' = Known(b)
    BY <1>8, <1>11
  <2> DEFINE x == [type |-> w, req |-> r, agent |-> a]
  <2>2. w \in ToAgent /\ w \notin {ReadOrder, WriteOrder} /\ w \notin ToApp
    BY OrderKinds, Kinds
  <2>3. SentOne(x) /\ x.type = w /\ x.req = r /\ Dst(x) = a
    <3>1. SentOne(x)
      BY <1>6, <1>11, <2>1
    <3> QED BY <2>2, <3>1 DEF Dst
  <2>4. /\ Joins(a, w)
        /\ \A b \in Node : b # a => down'[b] = down[b]
        /\ \A b \in Node : OrdersFor(b)' = OrdersFor(b)
        /\ Types(down[a]) \cap ToAgent = {}
    BY <1>2, <2>2, <2>3 DEF SentOne
  <2> DEFINE D == MailOf(a)
  <2>5. NodeOK(pc[a], op[a], got[a], evType[a], Flag(line[a]), line[a].st, Flag(shad[a]), shad[a].st, Tokens(a), D, "SHARED")
    BY <1>3, <2>1, ThreadIs
  <2> HIDE DEF D
  <2>6. /\ D = {} \/ D = {ReadOrder}
        /\ NodeOK(pc[a], op[a], got[a], evType[a], Flag(line[a]), line[a].st, Flag(shad[a]), shad[a].st, Tokens(a), D \cup {w}, "INVALID")
    BY <2>5, OkInvalidate
  <2>7. Replies(down'[a], peer'[a], appQ'[a]) = Replies(down[a], peer[a], appQ[a])
    BY <1>7, <2>2, <2>4 DEF Replies, Joins
  <2>8. Tokens(a)' = Tokens(a)
    BY <1>5, <1>7, <2>4, <2>7, TokensAre DEF TokensIn
  <2>9. ThreadOK(a, Tokens(a)', MailOf(a) \cup {w}, Known(a)')
    BY <2>1, <2>6, <2>8 DEF ThreadOK, D
  <2>10. w \notin MailOf(a) /\ (w = ReadOrder => MailOf(a) = {})
    BY <2>2, <2>6 DEF D
  <2> HIDE DEF x
  <2>11. NodeInv(a)'
    BY <1>3, <1>7, <2>2, <2>4, <2>9, <2>10, NodeOrdered
  <2>12. ASSUME NEW b \in Node, b # a PROVE NodeInv(b)'
    BY <1>9, <2>1, <2>4, <2>12
  <2> QED BY <2>11, <2>12 DEF ProtocolInv
<1> QED BY <1>10, <1>11

------------------------------------------------------------------------------
(* The second part of the invariant holds *)

LEMMA ProtocolInit ==
  ASSUME Init, SysThread = {0}
  PROVE  ProtocolInv
<1> SUFFICES ASSUME NEW n \in Node PROVE NodeInv(n)
  BY DEF ProtocolInv
<1>1. /\ up[n] = <<>> /\ down[n] = <<>> /\ peer[n] = <<>> /\ appQ[n] = <<>> /\ sysQ[n][0] = <<>>
      /\ agent[n][0] = AgentIdle /\ line[n] = Tag(FALSE, "NONE") /\ shad[n] = Tag(FALSE, "PRESERVED")
      /\ pc[n] = "idle" /\ op[n] = "none" /\ got[n] = {} /\ evType[n] = "none"
      /\ \A a \in Node : down[a] = <<>>
  BY DEF Init
<1>2. Range(<<>>) = {} /\ DOMAIN <<>> = {}
  BY DEF Range
<1>3. Types(<<>>) = {} /\ Distinct(<<>>)
  BY <1>2 DEF Types, Distinct
<1>4. Once(up[n], down[n], peer[n], appQ[n])
  BY <1>1, <1>3 DEF Once
<1>5. /\ line[n].st = "NONE" /\ Flag(line[n]) = "clear" /\ shad[n].st = "PRESERVED" /\ Flag(shad[n]) = "clear"
      /\ agent[n][0].type = "none" /\ agent[n][0].at = "none"
  <2>1. line[n].st = "NONE" /\ Flag(line[n]) = "clear"
    BY <1>1 DEF Tag, Flag
  <2>2. shad[n].st = "PRESERVED" /\ Flag(shad[n]) = "clear"
    BY <1>1 DEF Tag, Flag
  <2>3. agent[n][0].type = "none" /\ agent[n][0].at = "none"
    BY <1>1 DEF AgentIdle
  <2> QED BY <2>1, <2>2, <2>3
<1>6. AgentOK(agent[n][0], sysQ[n][0], Types(down[n]) \cap ToAgent, line[n].st, shad[n].st)
  <2>1. "none" \notin {} /\ DOMAIN sysQ[n][0] = {} /\ Types(sysQ[n][0]) = {} /\ Types(down[n]) = {}
    BY <1>1, <1>2, <1>3
  <2>2. Distinct(sysQ[n][0])
    BY <1>1, <1>3
  <2> QED BY <1>5, <2>1, <2>2 DEF AgentOK
<1>7. Mail(agent[n][0], sysQ[n][0], Types(down[n]) \cap ToAgent) = {}
  BY <1>1, <1>3, <1>5 DEF Mail
<1>8. EntryInv(entry, copy, Owed) /\ entry.state = "S_UNSHARED"
  BY NetInit DEF NetInv, Init
<1>9. Known(n) = "INVALID"
  BY <1>8 DEF Known, KnownIn
<1>10. copy.type = "none" /\ Owed = {}
  BY <1>8 DEF EntryInv, EntryConsistent, StableConsistent
<1>11. RoundsIn(copy, Owed, n) = {}
  BY <1>10, ViewStable
<1>12. OrdersFor(n) = {}
  BY <1>1, <1>2 DEF OrdersFor
<1>13. Tokens(n) = {}
  BY <1>1, <1>3, <1>11, <1>12, TokensAre DEF TokensIn, Asked, Replies
<1>14. NodeOK("idle", "none", {}, "none", "clear", "NONE", "clear", "PRESERVED", {}, {}, "INVALID")
  <2>1. Shape("idle", "none", "none", "clear", "NONE", "clear", "PRESERVED")
    BY DEF Shape, ThreadPc, LineStatus, ShadStatus, InMiss, InEvict
  <2>2. Expects("idle", "none", {}, "none", {})
    BY DEF Expects
  <2>3. Has("idle", "none", "none", "clear", "NONE", "clear", "PRESERVED", {}) = "INVALID"
    BY DEF Has
  <2>4. Agrees("INVALID", {}, "INVALID")
    BY DEF Agrees
  <2> QED BY <2>1, <2>2, <2>3, <2>4 DEF NodeOK
<1>15. ThreadOK(n, Tokens(n), Mail(agent[n][0], sysQ[n][0], Types(down[n]) \cap ToAgent), Known(n))
  BY <1>1, <1>5, <1>7, <1>9, <1>13, <1>14 DEF ThreadOK
<1> QED BY <1>4, <1>6, <1>15, NodeIs

LEMMA ProtocolStutter ==
  ASSUME ProtocolInv, UNCHANGED vars
  PROVE  ProtocolInv'
<1>1. UNCHANGED <<entry, copy, up, down, peer, appQ, sysQ, agent, line, shad, pc, op, got, evType>>
  BY DEF vars, dirVars, netVars, hostQ, lineVars, threadVars
<1>2. Owed' = Owed
  BY <1>1 DEF Owed
<1>3. DirSame
  BY <1>1, <1>2 DEF DirSame
<1> SUFFICES ASSUME NEW b \in Node PROVE NodeInv(b)'
  BY DEF ProtocolInv
<1>4. Aside(b)
  BY <1>1, KindsSame DEF Aside, SameNode
<1>5. Known(b)' = Known(b) /\ OrdersFor(b)' = OrdersFor(b) /\ RoundsIn(copy', Owed', b) = RoundsIn(copy, Owed, b)
  BY <1>1, <1>3, ViewSame, OrdersSame
<1> QED BY <1>4, <1>5, AsideTokens, AsideKeeps DEF ProtocolInv

LEMMA ProtocolReceive ==
  ASSUME NetInv, ProtocolInv, NEW n \in Node, DirReceive(n)
  PROVE  ProtocolInv'
<1>1. NetInv' /\ UNCHANGED <<peer, appQ, sysQ, agent, line, shad, pc, op, got, evType>>
  BY NetReceive
<1>2. CASE \E i \in DOMAIN up[n] : \E t \in Request :
             /\ up[n][i].type = t /\ up' = [up EXCEPT ![n] = RemoveAt(@, i)]
             /\ Requested(t, n, entry, copy, Owed, entry', copy', Owed')
             /\ SendDown(HandleRequest(entry, t, n).out)
  BY <1>1, <1>2, ProtocolRequest
<1>3. CASE \E i \in DOMAIN up[n] :
             /\ up[n][i].type \in Ack /\ up[n][i].agent = n
             /\ up' = [up EXCEPT ![n] = RemoveAt(@, i)]
             /\ Strip(up[n][i]) \in Owed
             /\ Answered(Strip(up[n][i]), entry, copy, Owed, entry', copy', Owed')
             /\ SendDown(HandleAck(entry, up[n][i].type, up[n][i].req, n).out)
  <2>1. PICK i \in DOMAIN up[n] :
             /\ up[n][i].type \in Ack /\ up[n][i].agent = n
             /\ up' = [up EXCEPT ![n] = RemoveAt(@, i)]
             /\ Strip(up[n][i]) \in Owed
             /\ Answered(Strip(up[n][i]), entry, copy, Owed, entry', copy', Owed')
             /\ SendDown(HandleAck(entry, up[n][i].type, up[n][i].req, n).out)
    BY <1>3
  <2>2. PICK m : m = up[n][i]
    OBVIOUS
  <2> QED BY <1>1, <2>1, <2>2, ProtocolAnswer
<1> QED BY <1>2, <1>3, NetReceive

LEMMA ProtocolNext ==
  ASSUME NetInv, ProtocolInv, SysThread = {0}, [Next]_vars
  PROVE  ProtocolInv'
<1>1. CASE DirCopyLoop
  BY <1>1, ProtocolCopy
<1>2. ASSUME NEW n \in Node, DirReceive(n) PROVE ProtocolInv'
  BY <1>2, ProtocolReceive
<1>3. ASSUME NEW n \in Node, FpgaToAgent(n) PROVE ProtocolInv'
  BY <1>3, ProtocolToAgent
<1>4. ASSUME NEW n \in Node, FpgaToApp(n) PROVE ProtocolInv'
  BY <1>4, ProtocolToApp
<1>5. ASSUME NEW n \in Node, AgentStep(n) PROVE ProtocolInv'
  BY <1>5, ProtocolTake, ProtocolApply DEF AgentStep
<1>6. ASSUME NEW n \in Node, LocalStep(n) PROVE ProtocolInv'
  BY <1>6, ProtocolLocal
<1>7. ASSUME NEW n \in Node, StartMiss(n) \/ EvictSend(n) PROVE ProtocolInv'
  BY <1>7, ProtocolSend
<1>8. ASSUME NEW n \in Node, Receive(n) \/ EvictReply(n) PROVE ProtocolInv'
  BY <1>8, ProtocolReply
<1>9. ASSUME NEW n \in Node, Access(n) PROVE ProtocolInv'
  BY <1>9, ProtocolAccess
<1>10. CASE UNCHANGED vars
  BY <1>10, ProtocolStutter
<1> QED BY <1>1, <1>2, <1>3, <1>4, <1>5, <1>6, <1>7, <1>8, <1>9, <1>10 DEF Next, Thread, LocalStep

------------------------------------------------------------------------------
(* What the invariant says *)

\* A copy that the agent has no order about is the one that the directory knows.
LEMMA CopyKnown ==
  ASSUME NEW p, NEW o, NEW g, NEW v, NEW lf, NEW ls, NEW sf, NEW ss, NEW T, NEW K,
         NodeOK(p, o, g, v, lf, ls, sf, ss, T, {}, K), NEW x \in {"SHARED", "MODIFIED"}, x = ls \/ x = ss
  PROVE  K = x /\ p # "wait"
<1>1. Shape(p, o, v, lf, ls, sf, ss) /\ Agrees(Has(p, o, v, lf, ls, sf, ss, T), {}, K)
  BY DEF NodeOK
<1>2. Has(p, o, v, lf, ls, sf, ss, T) = K
  BY <1>1 DEF Agrees
<1>3. lf = "clear" /\ sf = "clear"
  BY <1>1 DEF Shape
<1>4. CASE x = ls
  <2>1. ss = "PRESERVED" /\ p \notin InMiss
    BY <1>1, <1>4 DEF Shape
  <2>2. Has(p, o, v, lf, ls, sf, ss, T) = x
    BY <1>3, <1>4, <2>1 DEF Has
  <2> QED BY <1>2, <2>1, <2>2 DEF InMiss
<1>5. CASE x = ss
  <2>1. p \in InEvict
    BY <1>1, <1>5 DEF Shape
  <2>2. Has(p, o, v, lf, ls, sf, ss, T) = x
    BY <1>3, <1>5 DEF Has
  <2> QED BY <1>2, <2>1, <2>2 DEF InEvict
<1> QED BY <1>4, <1>5

\* Between calls, with no order under way, the line is what the directory knows.
LEMMA IdleKnown ==
  ASSUME NEW p, NEW o, NEW g, NEW v, NEW lf, NEW ls, NEW sf, NEW ss, NEW T, NEW K,
         NodeOK(p, o, g, v, lf, ls, sf, ss, T, {}, K), p = "idle"
  PROVE  /\ T = {}
         /\ \A x \in {"SHARED", "MODIFIED"} : x \in {ls, ss} <=> K = x
<1>1. Shape(p, o, v, lf, ls, sf, ss) /\ Agrees(Has(p, o, v, lf, ls, sf, ss, T), {}, K) /\ Expects(p, o, g, v, T)
  BY DEF NodeOK
<1>2. Has(p, o, v, lf, ls, sf, ss, T) = K
  BY <1>1 DEF Agrees
<1>3. p \notin InMiss /\ p \notin InEvict
  BY DEF InMiss, InEvict
<1>4. ls \in {"NONE", "INVALID", "SHARED", "MODIFIED"} /\ ss = "PRESERVED"
  BY <1>1, <1>3 DEF Shape, LineStatus
<1>5. lf = "clear" /\ sf = "clear"
  BY <1>1, <1>4 DEF Shape
<1>6. K = IF ls = "NONE" THEN "INVALID" ELSE ls
  BY <1>2, <1>4, <1>5 DEF Has
<1>7. T = {}
  BY <1>1 DEF Expects
<1> QED BY <1>4, <1>6, <1>7

\* A thread that spins waits for an order.
LEMMA SpinMail ==
  ASSUME NEW p, NEW o, NEW g, NEW v, NEW lf, NEW ls, NEW sf, NEW ss, NEW T, NEW D, NEW K,
         NodeOK(p, o, g, v, lf, ls, sf, ss, T, D, K)
  PROVE  /\ p = "spin" /\ lf = "clear" => D # {}
         /\ p = "evSpin" /\ sf = "clear" => D # {}
<1>1. Shape(p, o, v, lf, ls, sf, ss) /\ Agrees(Has(p, o, v, lf, ls, sf, ss, T), D, K) /\ Expects(p, o, g, v, T)
  BY DEF NodeOK
<1>2. ASSUME p \in {"spin", "evSpin"}, D = {} PROVE Has(p, o, v, lf, ls, sf, ss, T) = "INVALID" /\ T = {}
  BY <1>1, <1>2 DEF NodeOK, Agrees, Expects
<1>3. ASSUME p = "spin", lf = "clear" PROVE Has(p, o, v, lf, ls, sf, ss, T) = "SHARED"
  <2>1. p \in InMiss /\ p \notin InEvict
    BY <1>3 DEF InMiss, InEvict
  <2>2. ss = "PRESERVED" /\ o = "writeShared" /\ ls = Transient(o) /\ sf = "clear"
    BY <1>1, <1>3, <2>1 DEF Shape
  <2>3. ls = "TO_MODIFIED" /\ ~Granted(p, T)
    BY <1>3, <2>2 DEF Transient, Granted
  <2> QED BY <1>3, <2>2, <2>3 DEF Has
<1>4. ASSUME p = "evSpin", sf = "clear", T = {} PROVE Has(p, o, v, lf, ls, sf, ss, T) \in {"SHARED", "MODIFIED"}
  <2>1. p \notin InMiss /\ p \in InEvict \ {"evStart"}
    BY <1>4 DEF InMiss, InEvict
  <2>2. ss \in {"TO_SHARED", "TO_PRESERVED"} /\ lf = "clear"
    BY <1>1, <2>1 DEF Shape
  <2> QED BY <1>4, <2>2 DEF Has
<1> QED BY <1>2, <1>3, <1>4

\* What the directory's view of a node n means.
Means(e, c, o, n) ==
  /\ KnownIn(e, c, o, n) = "SHARED" => n \in e.bitmap \/ \E m \in o : m.req = n
  /\ KnownIn(e, c, o, n) = "MODIFIED" =>
       \/ e.state = "S_DIRTY" /\ e.bitmap = {n}
       \/ \E m \in o : m.req = n
       \/ RoundsIn(c, o, n) # {}
  /\ \A b \in Node : KnownIn(e, c, o, n) = "MODIFIED" /\ KnownIn(e, c, o, b) = "MODIFIED" => b = n
  /\ n \notin c.left /\ n \notin OwedBy(o) /\ ~(\E m \in o : m.req = n) /\ RoundsIn(c, o, n) = {} =>
       /\ (n \in e.bitmap) <=> (KnownIn(e, c, o, n) \in {"SHARED", "MODIFIED"})
       /\ (e.state = "S_DIRTY" /\ n \in e.bitmap) <=> (KnownIn(e, c, o, n) = "MODIFIED")

LEMMA KnownMeans ==
  ASSUME NEW e, NEW c, NEW o, EntryInv(e, c, o), NEW n \in Node
  PROVE  Means(e, c, o, n)
<1>0. /\ e.state \in State
      /\ c.type = "none" => c.left = {}
      /\ StableConsistent(e, c, o) /\ TransientConsistent(e, c, o)
  BY DEF EntryInv, EntryTyped, EntryConsistent, Entry, CopyIdle, NoCopy
<1>1. CASE e.state \in {"S_UNSHARED", "S_SHARED", "S_DIRTY"}
  <2>1. /\ c.type = "none" /\ o = {}
        /\ e.state = "S_UNSHARED" => e.bitmap = {}
        /\ e.state = "S_DIRTY" => \E a \in Node : e.bitmap = {a}
    BY <1>0, <1>1 DEF StableConsistent
  <2>2. CASE e.state = "S_UNSHARED"
    BY <2>1, <2>2 DEF KnownIn, Means
  <2>3. CASE e.state = "S_SHARED"
    BY <2>1, <2>3 DEF KnownIn, Means
  <2>4. CASE e.state = "S_DIRTY"
    BY <2>1, <2>4 DEF KnownIn, Means
  <2> QED BY <1>1, <2>2, <2>3, <2>4
<1>2. ASSUME NEW t, HandingOver(e, c, o, t), e.state \in {"S_TO_SHARED", "S_TO_DIRTY"}, t \notin {MissAck, SharedAck}
      PROVE  Means(e, c, o, n)
  <2>1. PICK a \in Node, r \in Node : /\ a # r /\ o = {[type |-> t, req |-> r, agent |-> a]}
                                      /\ c.type = "none" /\ e.bitmap = {a}
    BY <1>2 DEF HandingOver
  <2>2. /\ OwedBy(o) = {a} /\ (\A m \in o : m.req = r /\ m.type = t) /\ o # {}
    BY <2>1 DEF OwedBy
  <2>3. Handover(e, c, o, a, r)
    BY <1>0, <1>2, <2>1, <2>2 DEF Handover
  <2>4. \A b : /\ e.state = "S_TO_SHARED" => KnownIn(e, c, o, b) = IF b = a \/ b = r THEN "SHARED" ELSE "INVALID"
               /\ e.state = "S_TO_DIRTY" => KnownIn(e, c, o, b) = IF b = r THEN "MODIFIED" ELSE "INVALID"
    BY <2>3, ViewHandover
  <2>5. \E m \in o : m.req = r
    BY <2>2
  <2>6. CASE e.state = "S_TO_SHARED"
    <3>1. \A b : KnownIn(e, c, o, b) = IF b = a \/ b = r THEN "SHARED" ELSE "INVALID"
      BY <2>4, <2>6
    <3> QED BY <2>1, <2>2, <2>5, <2>6, <3>1 DEF Means
  <2>7. CASE e.state = "S_TO_DIRTY"
    <3>1. \A b : KnownIn(e, c, o, b) = IF b = r THEN "MODIFIED" ELSE "INVALID"
      BY <2>4, <2>7
    <3> QED BY <2>1, <2>2, <2>5, <2>7, <3>1 DEF Means
  <2> QED BY <1>2, <2>6, <2>7
<1>3. ASSUME NEW q, NEW t, NEW x, Invalidating(e, c, o, q, t, x), e.state = "S_TO_DIRTY",
             \/ q = "R_WRITE_MISS" /\ t = MissAck
             \/ q = "R_WRITE_SHARED" /\ t = SharedAck
      PROVE  Means(e, c, o, n)
  <2>1. PICK r \in Node : /\ \A m \in o : m.type = t /\ m.req = r
                          /\ c.type \in {"none", q}
                          /\ c.type = q => c.req = r
                          /\ Pending(c, o) # {}
                          /\ Pending(c, o) = e.bitmap \ {r}
    BY <1>3 DEF Invalidating
  <2>2. c.type = "none" => ToCopy(c) = {} /\ o # {}
    BY <1>0, <2>1 DEF ToCopy, Pending, OwedBy
  <2>3. InRound(e, c, o, t, r)
    <3>1. t \in {MissAck, SharedAck} /\ q = IF t = MissAck THEN "R_WRITE_MISS" ELSE "R_WRITE_SHARED"
      BY <1>3 DEF MissAck, SharedAck
    <3> QED BY <1>3, <2>1, <2>2, <3>1 DEF InRound
  <2>4. \A b : /\ RoundsIn(c, o, b) = IF b = r THEN {t} ELSE {}
               /\ KnownIn(e, c, o, b) = IF b = r THEN "MODIFIED"
                                        ELSE IF b \in ToCopy(c) THEN "SHARED" ELSE "INVALID"
    BY <2>3, ViewRound
  <2>5. /\ \A b \in ToCopy(c) : b \in e.bitmap
        /\ \A b \in e.bitmap : b = r \/ b \in OwedBy(o) \/ b \in ToCopy(c)
        /\ ToCopy(c) \subseteq c.left
    BY <2>1 DEF Pending, ToCopy
  <2> QED BY <1>3, <2>4, <2>5 DEF Means
<1>4. CASE e.state = "S_TO_SHARED"
  <2>1. HandingOver(e, c, o, "AGENT_2_DIR_READ_MISS_DIRTY_ACKDATA")
    BY <1>0, <1>4 DEF TransientConsistent
  <2> QED BY <1>2, <1>4, <2>1 DEF MissAck, SharedAck
<1>5. CASE e.state = "S_TO_DIRTY"
  <2>1. \/ HandingOver(e, c, o, "AGENT_2_DIR_WRITE_MISS_DIRTY_ACK")
        \/ Invalidating(e, c, o, "R_WRITE_MISS", MissAck, 0)
        \/ Invalidating(e, c, o, "R_WRITE_SHARED", SharedAck, 1)
    BY <1>0, <1>5 DEF TransientConsistent, MissAck, SharedAck
  <2> QED BY <1>2, <1>3, <1>5, <2>1 DEF MissAck, SharedAck
<1> QED BY <1>0, <1>1, <1>4, <1>5 DEF State

\* With one agent, its mail is what the property's AgentMail collects.
LEMMA MailIs ==
  ASSUME NetInv, ProtocolInv, SysThread = {0}, NEW n \in Node
  PROVE  AgentMail(n) = MailOf(n)
<1>1. agent[n][0] \in [type : ToAgent \cup {"none"}, at : {"none", "line", "shad", "assert"}]
  BY DEF NetInv, TypeOK
<1>2. (agent[n][0].type = "none") <=> (agent[n][0].at = "none")
  BY DEF ProtocolInv, NodeInv, AgentOK
<1>3. (agent[n][0] = AgentIdle) <=> (agent[n][0].type = "none")
  BY <1>1, <1>2 DEF AgentIdle
<1>4. {m.type : m \in {x \in Range(down[n]) : x.type \in ToAgent}} = Types(down[n]) \cap ToAgent
  BY DEF Types
<1>5. (UNION {{m.type : m \in Range(sysQ[n][k])} : k \in SysThread}) = Types(sysQ[n][0])
  BY DEF Types
<1>6. {agent[n][k].type : k \in {j \in SysThread : agent[n][j] # AgentIdle}}
        = IF agent[n][0].type = "none" THEN {} ELSE {agent[n][0].type}
  BY <1>3
<1> QED BY <1>4, <1>5, <1>6 DEF AgentMail, MailOf, Mail

LEMMA NoAssertHolds ==
  ASSUME ProtocolInv, SysThread = {0}
  PROVE  NoAssert
<1> SUFFICES ASSUME NEW n \in Node PROVE pc[n] # "assert" /\ agent[n][0].at # "assert"
  BY DEF NoAssert
<1>1. Shape(pc[n], op[n], evType[n], Flag(line[n]), line[n].st, Flag(shad[n]), shad[n].st)
  BY ThreadIs DEF ProtocolInv, NodeOK
<1>2. agent[n][0].at \in {"none", "line", "shad"}
  BY DEF ProtocolInv, NodeInv, AgentOK
<1> QED BY <1>1, <1>2 DEF Shape

LEMMA SpinIsAnsweredHolds ==
  ASSUME NetInv, ProtocolInv, SysThread = {0}
  PROVE  SpinIsAnswered
<1> SUFFICES ASSUME NEW n \in Node
             PROVE  /\ pc[n] = "spin" => line[n].fl \/ AgentMail(n) # {}
                    /\ pc[n] = "evSpin" => shad[n].fl \/ AgentMail(n) # {}
  BY DEF SpinIsAnswered
<1>1. NodeOK(pc[n], op[n], got[n], evType[n], Flag(line[n]), line[n].st, Flag(shad[n]), shad[n].st,
             Tokens(n), MailOf(n), Known(n))
  BY ThreadIs DEF ProtocolInv
<1>2. /\ (pc[n] = "spin" /\ Flag(line[n]) = "clear") => MailOf(n) # {}
      /\ (pc[n] = "evSpin" /\ Flag(shad[n]) = "clear") => MailOf(n) # {}
  BY <1>1, SpinMail
<1>3. ~line[n].fl => Flag(line[n]) = "clear"
  BY DEF Flag
<1>4. ~shad[n].fl => Flag(shad[n]) = "clear"
  BY DEF Flag
<1> QED BY <1>2, <1>3, <1>4, MailIs

\* A copy that no order under way concerns is the one that the directory knows,
\* and its thread waits for nothing.
LEMMA CopyIs ==
  ASSUME NetInv, ProtocolInv, SysThread = {0}, NEW n \in Node, AgentMail(n) = {},
         NEW x \in {"SHARED", "MODIFIED"}, x \in Copies(n)
  PROVE  Known(n) = x /\ pc[n] # "wait"
<1>1. MailOf(n) = {}
  BY MailIs
<1>2. NodeOK(pc[n], op[n], got[n], evType[n], Flag(line[n]), line[n].st, Flag(shad[n]), shad[n].st,
             Tokens(n), {}, Known(n))
  BY <1>1, ThreadIs DEF ProtocolInv
<1>3. x = line[n].st \/ x = shad[n].st
  BY DEF Copies
<1> QED BY <1>2, <1>3, CopyKnown

\* Whoever a round of invalidations is for waits for it.
LEMMA RoundWaits ==
  ASSUME ProtocolInv, NEW n \in Node, RoundsIn(copy, Owed, n) # {}
  PROVE  pc[n] = "wait"
<1>1. MissAck \in Tokens(n) \/ SharedAck \in Tokens(n)
  <2>1. MissAck \in RoundsIn(copy, Owed, n) \/ SharedAck \in RoundsIn(copy, Owed, n)
    BY DEF RoundsIn
  <2> QED BY <2>1, TokensAre DEF TokensIn
<1>2. NodeOK(pc[n], op[n], got[n], evType[n], Flag(line[n]), line[n].st, Flag(shad[n]), shad[n].st,
             Tokens(n), MailOf(n), Known(n))
  BY ThreadIs DEF ProtocolInv
<1>3. Expects(pc[n], op[n], got[n], evType[n], Tokens(n))
  BY <1>2 DEF NodeOK
<1> HIDE DEF Tokens
<1>4. pc[n] \in {"wait", "evWait"}
  BY <1>1, <1>3 DEF Expects
<1>5. pc[n] # "evWait"
  BY <1>1, <1>3 DEF Expects, MissAck, SharedAck
<1> QED BY <1>4, <1>5

LEMMA NoOrphanHolds ==
  ASSUME NetInv, ProtocolInv, SysThread = {0}
  PROVE  NoOrphan
<1> SUFFICES ASSUME NEW n \in Node, AgentMail(n) = {}
             PROVE  /\ "SHARED" \in Copies(n) => n \in entry.bitmap \/ Registering(n)
                    /\ "MODIFIED" \in Copies(n) => \/ entry.bitmap = {n} /\ entry.state # "S_SHARED"
                                                   \/ Registering(n)
  BY DEF NoOrphan
<1>1. Means(entry, copy, Owed, n)
  BY KnownMeans DEF NetInv
<1>2. ASSUME "SHARED" \in Copies(n) PROVE n \in entry.bitmap \/ Registering(n)
  <2>1. Known(n) = "SHARED"
    BY <1>2, CopyIs
  <2> QED BY <1>1, <2>1 DEF Known, Means, Registering
<1>3. ASSUME "MODIFIED" \in Copies(n)
      PROVE  (entry.bitmap = {n} /\ entry.state # "S_SHARED") \/ Registering(n)
  <2>1. Known(n) = "MODIFIED" /\ pc[n] # "wait"
    BY <1>3, CopyIs
  <2>2. RoundsIn(copy, Owed, n) = {}
    BY <2>1, RoundWaits
  <2> QED BY <1>1, <2>1, <2>2 DEF Known, Means, Registering
<1> QED BY <1>2, <1>3

LEMMA SingleWriterHolds ==
  ASSUME NetInv, ProtocolInv, SysThread = {0}
  PROVE  SingleWriter
<1> SUFFICES ASSUME NEW a \in Node, NEW b \in Node, "MODIFIED" \in Copies(a), "MODIFIED" \in Copies(b),
                    AgentMail(a) \cup AgentMail(b) = {}
             PROVE  a = b
  BY DEF SingleWriter
<1>1. AgentMail(a) = {} /\ AgentMail(b) = {}
  OBVIOUS
<1>2. Known(a) = "MODIFIED" /\ Known(b) = "MODIFIED"
  BY <1>1, CopyIs
<1>3. Means(entry, copy, Owed, a)
  BY KnownMeans DEF NetInv
<1> QED BY <1>2, <1>3 DEF Known, Means

LEMMA AgreementHolds ==
  ASSUME NetInv, ProtocolInv, SysThread = {0}
  PROVE  Agreement
<1> SUFFICES ASSUME NEW n \in Node, Settled(n)
             PROVE  /\ (n \in entry.bitmap) <=> (Copies(n) \cap {"SHARED", "MODIFIED"} # {})
                    /\ (entry.state = "S_DIRTY" /\ n \in entry.bitmap) <=> ("MODIFIED" \in Copies(n))
  BY DEF Agreement
<1>1. /\ pc[n] = "idle" /\ up[n] = <<>> /\ down[n] = <<>> /\ AgentMail(n) = {}
      /\ n \notin copy.left /\ ~(\E m \in Owed : m.req = n)
  BY DEF Settled, Registering
<1>2. MailOf(n) = {}
  BY <1>1, MailIs
<1>3. NodeOK(pc[n], op[n], got[n], evType[n], Flag(line[n]), line[n].st, Flag(shad[n]), shad[n].st,
             Tokens(n), {}, Known(n))
  BY <1>2, ThreadIs DEF ProtocolInv
<1>4. \A x \in {"SHARED", "MODIFIED"} : x \in {line[n].st, shad[n].st} <=> Known(n) = x
  BY <1>1, <1>3, IdleKnown
<1>5. RoundsIn(copy, Owed, n) = {}
  BY <1>1, RoundWaits
<1>6. n \notin OwedBy(Owed)
  <2>1. Range(<<>>) = {}
    BY DEF Range
  <2>2. OwedIn(up[n], down[n]) = {}
    BY <1>1, <2>1 DEF OwedIn, Sel
  <2>3. \A y \in Owed : y.agent # n
    BY <2>2, OwedOf
  <2> QED BY <2>3 DEF OwedBy
<1>7. Means(entry, copy, Owed, n)
  BY KnownMeans DEF NetInv
<1>8. /\ (n \in entry.bitmap) <=> (Known(n) \in {"SHARED", "MODIFIED"})
      /\ (entry.state = "S_DIRTY" /\ n \in entry.bitmap) <=> (Known(n) = "MODIFIED")
  BY <1>1, <1>5, <1>6, <1>7 DEF Known, Means
<1> QED BY <1>4, <1>8 DEF Copies

LEMMA ProtocolHolds ==
  ASSUME SysThread = {0}
  PROVE  Spec => [](NetInv /\ ProtocolInv)
<1>1. Init => NetInv /\ ProtocolInv
  BY NetInit, ProtocolInit
<1>2. NetInv /\ ProtocolInv /\ [Next]_vars => NetInv' /\ ProtocolInv'
  BY NetNext, ProtocolNext
<1> QED BY <1>1, <1>2, PTL DEF Spec

------------------------------------------------------------------------------
(* Theorems for one cache agent per node: SysNum <= 2 gives one system       *)
(* thread, and one agent runs in each.                                       *)

LEMMA OneAgent ==
  ASSUME SysNum <= 2
  PROVE  SysThread = {0}
BY SysNumAssumption DEF SysThread

\* No assert(false) of the receive loops of Cache.cpp (after a miss, an upgrade or an
\* eviction) nor of the agent's handlers in CacheAgent.cpp is reached: every message
\* that arrives is one that the code expects in that place.
THEOREM CoherenceNoAssert == SysNum <= 2 => (Spec => []NoAssert)
<1> SUFFICES ASSUME SysNum <= 2 PROVE Spec => []NoAssert
  OBVIOUS
<1>1. SysThread = {0}
  BY OneAgent
<1>2. Spec => [](NetInv /\ ProtocolInv)
  BY <1>1, ProtocolHolds
<1>3. NetInv /\ ProtocolInv => NoAssert
  BY <1>1, NoAssertHolds
<1> QED BY <1>2, <1>3, PTL

\* A thread that spins on the agent's flag (Cache.cpp after DIR_2_APP_BITMAP_CHECK_FAIL)
\* has it set already, or the message whose handling sets it is under way: the
\* thread does not wait for an agent that has nothing to do.
THEOREM CoherenceSpinIsAnswered == SysNum <= 2 => (Spec => []SpinIsAnswered)
<1> SUFFICES ASSUME SysNum <= 2 PROVE Spec => []SpinIsAnswered
  OBVIOUS
<1>1. SysThread = {0}
  BY OneAgent
<1>2. Spec => [](NetInv /\ ProtocolInv)
  BY <1>1, ProtocolHolds
<1>3. NetInv /\ ProtocolInv => SpinIsAnswered
  BY <1>1, SpinIsAnsweredHolds
<1> QED BY <1>2, <1>3, PTL

\* Once nothing that concerns a node is under way, its line and the directory's entry
\* say the same: CAS races between the thread's misses and evictions and the agent's
\* invalidations leave no state that the directory did not decide on.
THEOREM CoherenceAgreement == SysNum <= 2 => (Spec => []Agreement)
<1> SUFFICES ASSUME SysNum <= 2 PROVE Spec => []Agreement
  OBVIOUS
<1>1. SysThread = {0}
  BY OneAgent
<1>2. Spec => [](NetInv /\ ProtocolInv)
  BY <1>1, ProtocolHolds
<1>3. NetInv /\ ProtocolInv => Agreement
  BY <1>1, AgreementHolds
<1> QED BY <1>2, <1>3, PTL

\* A copy that a node may still read or write is in the directory's bitmap, or the
\* answer that puts it there or the order that takes it away is under way.
THEOREM CoherenceNoOrphan == SysNum <= 2 => (Spec => []NoOrphan)
<1> SUFFICES ASSUME SysNum <= 2 PROVE Spec => []NoOrphan
  OBVIOUS
<1>1. SysThread = {0}
  BY OneAgent
<1>2. Spec => [](NetInv /\ ProtocolInv)
  BY <1>1, ProtocolHolds
<1>3. NetInv /\ ProtocolInv => NoOrphan
  BY <1>1, NoOrphanHolds
<1> QED BY <1>2, <1>3, PTL

\* Two nodes never both hold the block MODIFIED, unless one of them has been told to
\* give it up and its agent has not acted on that yet.
THEOREM CoherenceSingleWriter == SysNum <= 2 => (Spec => []SingleWriter)
<1> SUFFICES ASSUME SysNum <= 2 PROVE Spec => []SingleWriter
  OBVIOUS
<1>1. SysThread = {0}
  BY OneAgent
<1>2. Spec => [](NetInv /\ ProtocolInv)
  BY <1>1, ProtocolHolds
<1>3. NetInv /\ ProtocolInv => SingleWriter
  BY <1>1, SingleWriterHolds
<1> QED BY <1>2, <1>3, PTL

==============================================================================
