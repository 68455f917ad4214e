------------------------------ MODULE DirEntry -------------------------------
(****************************************************************************)
(* The directory entry of one global block and what the handler of          *)
(* dirCtrlHLS_to_net.cpp, on the FPGA of the block's home node, does to it.  *)
(* One operator per message type of the handler's switch: from the entry    *)
(* and the message it gives the entry that is written back, the messages    *)
(* that are sent and the registers that start the invalidation loop.        *)
(* Module Directory is the directory on its own; module Coherence uses the  *)
(* same operators inside the whole protocol.                                *)
(*                                                                          *)
(* Here and in the other modules a definition whose name ends in _fault is  *)
(* its namesake with a plausible mistake: PROJECT.json names the property   *)
(* that fails when it takes the namesake's place.  Nothing else uses it.    *)
(****************************************************************************)
EXTENDS Integers, FiniteSets

CONSTANT N           \* number of nodes; Config.h asserts node_num <= max_node_num (8)

\* All that is needed of the number of nodes: an 8-bit replica_count can hold it.
ASSUME NAssumption == N \in 1 .. 255

Node == 0 .. N - 1

State == {"S_UNSHARED", "S_SHARED", "S_DIRTY", "S_TO_SHARED", "S_TO_DIRTY"}

\* What a node asks the directory for (RawMessageType R_*).
Request == {"R_READ_MISS", "R_WRITE_MISS", "R_WRITE_SHARED",
            "R_EVICT_SHARED", "R_EVICT_DIRTY"}

\* What the FPGA of a sharer or owner answers to the directory.
Ack == {"AGENT_2_DIR_READ_MISS_DIRTY_ACKDATA", "AGENT_2_DIR_WRITE_MISS_DIRTY_ACK",
        "AGENT_2_DIR_WRITE_MISS_SHARED_ACK", "AGENT_2_DIR_WRITE_SHARED_NOTONLY_ACK"}

\* What the directory sends to the requester's application thread ...
ToApp == {"DIR_2_APP_READ_MISS_ACKDATA", "DIR_2_APP_WRITE_MISS_ACKDATA",
          "DIR_2_APP_WRITE_MISS_SHAREDDATA", "DIR_2_APP_WRITE_MISS_SHARED_AGGACK_ACK",
          "DIR_2_APP_WRITE_SHARED_NOTONLY_AGGACK_ACK", "DIR_2_APP_WRITE_SHARED_ONLYACK",
          "DIR_2_APP_EVICT_SHARED_ACK", "DIR_2_APP_EVICT_DIRTY_ACK",
          "DIR_2_APP_M_CHECK_FAIL", "DIR_2_APP_BITMAP_CHECK_FAIL"}

\* ... and to the node that holds a copy.
ToAgent == {"DIR_2_AGENT_READ_MISS_DIRTY", "DIR_2_AGENT_WRITE_MISS_DIRTY",
            "DIR_2_AGENT_WRITE_MISS_SHARED", "DIR_2_AGENT_WRITE_SHARED_NOTONLY"}

Entry == [state : State, bitmap : SUBSET Node, count : 0 .. 255]

\* The registers reg_copy_flag / reg_ctrl_msg / reg_dir_data: "none" when the
\* flag is 0, otherwise the request whose invalidations are being sent, the
\* requester and the nodes whose invalidation is still to be sent.
Copy == [type : {"none", "R_WRITE_MISS", "R_WRITE_SHARED"}, req : Node, left : SUBSET Node]

\* A message out of the directory; agent is the node it concerns.
OutMsg == [type : ToApp \cup ToAgent, req : Node, agent : Node]

NoCopy == [type |-> "none", req |-> 0, left |-> {}]

ToReq(t, n) == [type |-> t, req |-> n, agent |-> n]

\* What one pass of the handler does: the entry written back, the messages
\* sent, the copy register.
Result(e, out, c) == [entry |-> e, out |-> out, copy |-> c]

Refuse(e, t, n) == Result(e, {ToReq(t, n)}, NoCopy)

\* Fault: the wrong refusal.
MCheckFail_fault(e, n) == Refuse(e, "DIR_2_APP_BITMAP_CHECK_FAIL", n)

MCheckFail(e, n) == Refuse(e, "DIR_2_APP_M_CHECK_FAIL", n)

BitmapCheckFail(e, n) == Refuse(e, "DIR_2_APP_BITMAP_CHECK_FAIL", n)

\* Fault: one too far.
AgentNode_fault(e) == IF e.bitmap = {} THEN 0
                      ELSE 1 + CHOOSE a \in e.bitmap : \A b \in e.bitmap : b <= a

\* tmp_agent_node_id: the last node of the bitmap, 0 when it is empty.
AgentNode(e) == IF e.bitmap = {} THEN 0
                ELSE CHOOSE a \in e.bitmap : \A b \in e.bitmap : b <= a

\* replica_count is an ap_uint<8>.
Byte(k) == k % 256

ReadMiss(e, n) ==
  CASE e.state \in {"S_UNSHARED", "S_SHARED"} /\ n \notin e.bitmap ->
         Result([state |-> "S_SHARED", bitmap |-> e.bitmap \cup {n}, count |-> Byte(e.count + 1)],
                {ToReq("DIR_2_APP_READ_MISS_ACKDATA", n)}, NoCopy)
    [] e.state = "S_DIRTY" /\ n \notin e.bitmap ->
         Result([e EXCEPT !.state = "S_TO_SHARED"],
                {[type |-> "DIR_2_AGENT_READ_MISS_DIRTY", req |-> n, agent |-> AgentNode(e)]}, NoCopy)
    [] e.state \in {"S_UNSHARED", "S_SHARED", "S_DIRTY"} /\ n \in e.bitmap -> BitmapCheckFail(e, n)
    [] OTHER -> MCheckFail(e, n)

WriteMiss(e, n) ==
  CASE e.state = "S_UNSHARED" /\ n \notin e.bitmap ->
         Result([state |-> "S_DIRTY", bitmap |-> e.bitmap \cup {n}, count |-> 1],
                {ToReq("DIR_2_APP_WRITE_MISS_ACKDATA", n)}, NoCopy)
    [] e.state = "S_SHARED" /\ n \notin e.bitmap ->
         Result([e EXCEPT !.state = "S_TO_DIRTY"],
                {ToReq("DIR_2_APP_WRITE_MISS_SHAREDDATA", n)},
                [type |-> "R_WRITE_MISS", req |-> n, left |-> e.bitmap])
    [] e.state = "S_DIRTY" /\ n \notin e.bitmap ->
         Result([e EXCEPT !.state = "S_TO_DIRTY"],
                {[type |-> "DIR_2_AGENT_WRITE_MISS_DIRTY", req |-> n, agent |-> AgentNode(e)]}, NoCopy)
    [] e.state \in {"S_UNSHARED", "S_SHARED", "S_DIRTY"} /\ n \in e.bitmap -> BitmapCheckFail(e, n)
    [] OTHER -> MCheckFail(e, n)

WriteShared(e, n) ==
  CASE e.state = "S_SHARED" /\ n \notin e.bitmap -> BitmapCheckFail(e, n)
    [] e.state = "S_SHARED" /\ n \in e.bitmap /\ e.count > 1 ->
         Result([e EXCEPT !.state = "S_TO_DIRTY"], {},
                [type |-> "R_WRITE_SHARED", req |-> n, left |-> e.bitmap])
    [] e.state = "S_SHARED" /\ n \in e.bitmap /\ e.count <= 1 ->
         Result([e EXCEPT !.state = "S_DIRTY", !.count = 1],
                {ToReq("DIR_2_APP_WRITE_SHARED_ONLYACK", n)}, NoCopy)
    [] OTHER -> MCheckFail(e, n)

EvictShared(e, n) ==
  CASE e.state = "S_SHARED" /\ n \notin e.bitmap -> BitmapCheckFail(e, n)
    [] e.state = "S_SHARED" /\ n \in e.bitmap ->
         Result([state |-> IF e.count = 1 THEN "S_UNSHARED" ELSE "S_SHARED",
                 bitmap |-> e.bitmap \ {n}, count |-> Byte(e.count - 1)],
                {ToReq("DIR_2_APP_EVICT_SHARED_ACK", n)}, NoCopy)
    [] OTHER -> MCheckFail(e, n)

\* Fault: the state is not looked at.
EvictDirty_fault(e, n) ==
  IF n \notin e.bitmap THEN BitmapCheckFail(e, n)
  ELSE Result([state |-> "S_UNSHARED", bitmap |-> e.bitmap \ {n}, count |-> Byte(e.count - 1)],
              {ToReq("DIR_2_APP_EVICT_DIRTY_ACK", n)}, NoCopy)

EvictDirty(e, n) ==
  CASE e.state = "S_DIRTY" /\ n \notin e.bitmap -> BitmapCheckFail(e, n)
    [] e.state = "S_DIRTY" /\ n \in e.bitmap ->
         Result([state |-> "S_UNSHARED", bitmap |-> e.bitmap \ {n}, count |-> Byte(e.count - 1)],
                {ToReq("DIR_2_APP_EVICT_DIRTY_ACK", n)}, NoCopy)
    [] OTHER -> MCheckFail(e, n)

HandleRequest(e, t, n) ==
  CASE t = "R_READ_MISS"    -> ReadMiss(e, n)
    [] t = "R_WRITE_MISS"   -> WriteMiss(e, n)
    [] t = "R_WRITE_SHARED" -> WriteShared(e, n)
    [] t = "R_EVICT_SHARED" -> EvictShared(e, n)
    [] t = "R_EVICT_DIRTY"  -> EvictDirty(e, n)

Ignore(e) == Result(e, {}, NoCopy)

\* r is the requester and a the answering node, both carried by the message.
ReadMissDirtyAckdata(e, r, a) ==
  IF e.state # "S_TO_SHARED" THEN Ignore(e)
  ELSE Result([state |-> "S_SHARED", bitmap |-> e.bitmap \cup {r}, count |-> Byte(e.count + 1)],
              {}, NoCopy)

WriteMissDirtyAck(e, r, a) ==
  IF e.state # "S_TO_DIRTY" THEN Ignore(e)
  ELSE Result([state |-> "S_DIRTY", bitmap |-> (e.bitmap \cup {r}) \ {a}, count |-> 1], {}, NoCopy)

\* Fault: the write completes one answer early.
WriteMissSharedAck_fault(e, r, a) ==
  LET b == (e.bitmap \cup {r}) \ {a} IN
  CASE e.state # "S_TO_DIRTY" -> Ignore(e)
    [] e.state = "S_TO_DIRTY" /\ e.count <= 2 ->
         Result([state |-> "S_DIRTY", bitmap |-> b, count |-> 1],
                {ToReq("DIR_2_APP_WRITE_MISS_SHARED_AGGACK_ACK", r)}, NoCopy)
    [] OTHER -> Result([state |-> e.state, bitmap |-> b, count |-> Byte(e.count - 1)], {}, NoCopy)

WriteMissSharedAck(e, r, a) ==
  LET b == (e.bitmap \cup {r}) \ {a} IN
  CASE e.state # "S_TO_DIRTY" -> Ignore(e)
    [] e.state = "S_TO_DIRTY" /\ e.count = 1 ->
         Result([state |-> "S_DIRTY", bitmap |-> b, count |-> e.count],
                {ToReq("DIR_2_APP_WRITE_MISS_SHARED_AGGACK_ACK", r)}, NoCopy)
    [] OTHER -> Result([state |-> e.state, bitmap |-> b, count |-> Byte(e.count - 1)], {}, NoCopy)

WriteSharedNotonlyAck(e, r, a) ==
  LET b == (e.bitmap \cup {r}) \ {a} IN
  CASE e.state # "S_TO_DIRTY" -> Ignore(e)
    [] e.state = "S_TO_DIRTY" /\ e.count = 2 ->
         Result([state |-> "S_DIRTY", bitmap |-> b, count |-> 1],
                {ToReq("DIR_2_APP_WRITE_SHARED_NOTONLY_AGGACK_ACK", r)}, NoCopy)
    [] OTHER -> Result([state |-> e.state, bitmap |-> b, count |-> Byte(e.count - 1)], {}, NoCopy)

HandleAck(e, t, r, a) ==
  CASE t = "AGENT_2_DIR_READ_MISS_DIRTY_ACKDATA"  -> ReadMissDirtyAckdata(e, r, a)
    [] t = "AGENT_2_DIR_WRITE_MISS_DIRTY_ACK"     -> WriteMissDirtyAck(e, r, a)
    [] t = "AGENT_2_DIR_WRITE_MISS_SHARED_ACK"    -> WriteMissSharedAck(e, r, a)
    [] t = "AGENT_2_DIR_WRITE_SHARED_NOTONLY_ACK" -> WriteSharedNotonlyAck(e, r, a)

\* One cycle of the copy loop: the invalidation for the last node left; the
\* flag falls in a cycle of its own when no node is left, and the requester of
\* an R_WRITE_SHARED is skipped.
LastLeft(c) == CHOOSE a \in c.left : \A b \in c.left : b <= a

\* Fault: the loop stops short of node 0.
CopyOut_fault(c) ==
  IF c.left \subseteq {0} \/ (c.type = "R_WRITE_SHARED" /\ LastLeft(c) = c.req) THEN {}
  ELSE {[type |-> IF c.type = "R_WRITE_MISS" THEN "DIR_2_AGENT_WRITE_MISS_SHARED"
                  ELSE "DIR_2_AGENT_WRITE_SHARED_NOTONLY",
         req |-> c.req, agent |-> LastLeft(c)]}

CopyOut(c) ==
  IF c.left = {} \/ (c.type = "R_WRITE_SHARED" /\ LastLeft(c) = c.req) THEN {}
  ELSE {[type |-> IF c.type = "R_WRITE_MISS" THEN "DIR_2_AGENT_WRITE_MISS_SHARED"
                  ELSE "DIR_2_AGENT_WRITE_SHARED_NOTONLY",
         req |-> c.req, agent |-> LastLeft(c)]}

CopyNext(c) == IF c.left = {} THEN NoCopy ELSE [c EXCEPT !.left = @ \ {LastLeft(c)}]

\* The answer that the FPGA of the addressed node gives to the directory
\* (cacheCtrlHLS_from_net.cpp).
AckOf(t) ==
  CASE t = "DIR_2_AGENT_READ_MISS_DIRTY"      -> "AGENT_2_DIR_READ_MISS_DIRTY_ACKDATA"
    [] t = "DIR_2_AGENT_WRITE_MISS_DIRTY"     -> "AGENT_2_DIR_WRITE_MISS_DIRTY_ACK"
    [] t = "DIR_2_AGENT_WRITE_MISS_SHARED"    -> "AGENT_2_DIR_WRITE_MISS_SHARED_ACK"
    [] t = "DIR_2_AGENT_WRITE_SHARED_NOTONLY" -> "AGENT_2_DIR_WRITE_SHARED_NOTONLY_ACK"

\* The answers that a set of outgoing messages will bring back.
Owing(out) == {[type |-> AckOf(m.type), req |-> m.req, agent |-> m.agent] :
               m \in {x \in out : x.type \in ToAgent}}
------------------------------------------------------------------------------
(* What makes an entry e right, given the copy registers c and the set o of  *)
(* the answers that agents still owe.                                        *)

AckMsg == [type : Ack, req : Node, agent : Node]

EntryTyped(e, c, o) == e \in Entry /\ c \in Copy /\ o \subseteq AckMsg

\* The nodes that have not answered yet: those with an answer on its way and
\* those whose invalidation the copy loop has still to send.
OwedBy(o) == {m.agent : m \in o}

ToCopy(c) == c.left \ (IF c.type = "R_WRITE_SHARED" THEN {c.req} ELSE {})

Pending(c, o) == OwedBy(o) \cup ToCopy(c)

\* In a stable state nothing is pending and the count is the number of copies.
StableConsistent(e, c, o) ==
  e.state \in {"S_UNSHARED", "S_SHARED", "S_DIRTY"} =>
    /\ o = {}
    /\ c.type = "none"
    /\ e.count = Cardinality(e.bitmap)
    /\ e.state = "S_UNSHARED" => e.bitmap = {}
    /\ e.state = "S_SHARED" => e.bitmap # {}
    /\ e.state = "S_DIRTY" => \E a \in Node : e.bitmap = {a}

\* The owner a was asked to hand the block over to r and has not answered.
HandingOver(e, c, o, t) ==
  \E a, r \in Node :
    /\ a # r
    /\ o = {[type |-> t, req |-> r, agent |-> a]}
    /\ c.type = "none"
    /\ e.bitmap = {a}
    /\ e.count = 1

\* The sharers are being invalidated for r; extra is what the count holds
\* besides the nodes that have not answered.
Invalidating(e, c, o, reqType, ackType, extra) ==
  \E r \in Node :
    /\ \A m \in o : m.type = ackType /\ m.req = r
    /\ c.type \in {"none", reqType}
    /\ c.type = reqType => c.req = r
    /\ OwedBy(o) \cap ToCopy(c) = {}
    /\ r \notin Pending(c, o)
    /\ Pending(c, o) # {}
    /\ Pending(c, o) = e.bitmap \ {r}
    /\ e.count = Cardinality(Pending(c, o)) + extra

TransientConsistent(e, c, o) ==
  /\ e.state = "S_TO_SHARED" => HandingOver(e, c, o, "AGENT_2_DIR_READ_MISS_DIRTY_ACKDATA")
  /\ e.state = "S_TO_DIRTY" =>
       \/ HandingOver(e, c, o, "AGENT_2_DIR_WRITE_MISS_DIRTY_ACK")
       \/ Invalidating(e, c, o, "R_WRITE_MISS", "AGENT_2_DIR_WRITE_MISS_SHARED_ACK", 0)
       \/ Invalidating(e, c, o, "R_WRITE_SHARED", "AGENT_2_DIR_WRITE_SHARED_NOTONLY_ACK", 1)

EntryConsistent(e, c, o) == StableConsistent(e, c, o) /\ TransientConsistent(e, c, o)

\* A transient entry e stays as it is, or closes into the stable state that was
\* asked for, with the requester among the copies or as the only one.
Closes(e, o, e1) ==
  /\ e.state = "S_TO_SHARED" =>
       \/ e1 = e
       \/ e1.state = "S_SHARED" /\ \E m \in o : e1.bitmap = e.bitmap \cup {m.req}
  /\ e.state = "S_TO_DIRTY" =>
       \/ e1.state = "S_TO_DIRTY"
       \/ e1.state = "S_DIRTY" /\ \E m \in o : e1.bitmap = {m.req}
==============================================================================
