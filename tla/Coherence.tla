------------------------------ MODULE Coherence ------------------------------
(****************************************************************************)
(* The coherence protocol for one global block: the directory of the home   *)
(* FPGA (DirEntry), the FPGA cache controller and the network path of every *)
(* node, and on every host one application thread and the cache agent,      *)
(* which race on the node's cache line (Cache.cpp, CacheAgent.cpp).         *)
(*                                                                          *)
(* Other blocks appear only through what they do to this one: a miss on     *)
(* another block may evict it, and its buffers come from a pool.            *)
(*                                                                          *)
(* Data is reduced to freshness: a copy (home memory, line buffer, data of  *)
(* a message) is TRUE when it holds the value of the last completed store.  *)
(****************************************************************************)
EXTENDS DirEntry, CacheLine, Sequences, SequencesExt

CONSTANTS
  SysNum,                       \* q_num = syst_num_per_node, the system threads of a node
  Readers, Writers, Evictors    \* the nodes whose application reads the block, writes
                                \* it, or misses on other blocks of the same set

ASSUME SysNumAssumption == SysNum \in 1 .. 8

ASSUME WorkAssumption == Readers \cup Writers \cup Evictors \subseteq Node

\* The system threads that c2hCtrlMsgDeliver deals messages to: its counter goes
\* back to queue 0 at q_num - 1, so the last queue gets none.
SysThread == IF SysNum <= 2 THEN {0} ELSE 0 .. SysNum - 2

VARIABLES
  entry, copy,   \* the directory, see DirEntry
  mem,           \* freshness of the home memory
  up,            \* up[n]: FPGA of n -> directory (R_* and AGENT_2_DIR_*)
  down,          \* down[n]: directory -> FPGA of n (DIR_2_*)
  peer,          \* peer[n]: FPGAs of agents -> FPGA of n (AGENT_2_APP_*)
  appQ,          \* receive ring of n's application thread
  sysQ,          \* sysQ[n][k]: receive ring of n's cache agent k
  agent,         \* the message agent k of n is working on and the line it found
  line,          \* n's line for the block in cline_set_vector, atomic (flag, status)
  buf,           \* freshness of that line's buffer
  shad,          \* the copy in shadow_cline_set_vector while it is evicted
  sbuf,          \* freshness of its buffer
  wlock,         \* n's thread holds the lock of the shadow line
  pc, op,        \* application thread: where it is, and the operation
  got,           \* replies received by writeMiss (hasData, copies = 0)
  evType         \* cur_evict_cline_type

dirVars == <<entry, copy, mem>>
netVars == <<up, down, peer>>
hostQ   == <<appQ, sysQ>>
lineVars == <<line, buf, shad, sbuf, wlock>>
threadVars == <<pc, op, got, evType>>
vars == <<dirVars, netVars, hostQ, agent, lineVars, threadVars>>

------------------------------------------------------------------------------
PeerAck == {"AGENT_2_APP_READ_MISS_DIRTY_ACKDATA", "AGENT_2_APP_WRITE_MISS_DIRTY_ACKDATA"}

\* The messages that carry the block (dataMsgFetch.cpp).
WithData == PeerAck \cup
  {"AGENT_2_DIR_READ_MISS_DIRTY_ACKDATA", "DIR_2_APP_READ_MISS_ACKDATA",
   "DIR_2_APP_WRITE_MISS_ACKDATA", "DIR_2_APP_WRITE_MISS_SHAREDDATA", "R_EVICT_DIRTY"}

MsgType == Request \cup Ack \cup ToApp \cup ToAgent \cup PeerAck

Msg == [type : MsgType, req : Node, agent : Node, fresh : BOOLEAN]

\* A message without data has fresh = FALSE.
WithFresh(m, f) == [type |-> m.type, req |-> m.req, agent |-> m.agent,
                    fresh |-> m.type \in WithData /\ f]

M(t, r, a, f) == WithFresh([type |-> t, req |-> r, agent |-> a], f)

\* dataMsgFetch lets a message without data pass the ones that wait for their
\* data; messages with data stay in order among themselves and behind every
\* earlier message without data.
Deliverable(q) ==
  {i \in DOMAIN q : i = 1 \/ (q[i].type \notin WithData
                              /\ \A j \in 1 .. i - 1 : q[j].type \in WithData)}

AgentIdle == [type |-> "none", at |-> "none"]

\* newLine and the agents exclude each other by the set lock.
NoAgentAtWork(n) == \A k \in SysThread : agent[n][k] = AgentIdle

\* What the FPGA reads at agent_cline_addr: the buffer of the node's copy.
AgentData(n) == IF shad[n].st # "PRESERVED" THEN sbuf[n] ELSE buf[n]

Init ==
  /\ entry = [state |-> "S_UNSHARED", bitmap |-> {}, count |-> 0]
  /\ copy = NoCopy
  /\ mem = TRUE
  /\ up = [n \in Node |-> <<>>]
  /\ down = [n \in Node |-> <<>>]
  /\ peer = [n \in Node |-> <<>>]
  /\ appQ = [n \in Node |-> <<>>]
  /\ sysQ = [n \in Node |-> [k \in SysThread |-> <<>>]]
  /\ agent = [n \in Node |-> [k \in SysThread |-> AgentIdle]]
  /\ line = [n \in Node |-> Tag(FALSE, "NONE")]
  /\ buf = [n \in Node |-> FALSE]
  /\ shad = [n \in Node |-> Tag(FALSE, "PRESERVED")]
  /\ sbuf = [n \in Node |-> FALSE]
  /\ wlock = [n \in Node |-> FALSE]
  /\ pc = [n \in Node |-> "idle"]
  /\ op = [n \in Node |-> "none"]
  /\ got = [n \in Node |-> {}]
  /\ evType = [n \in Node |-> "none"]

------------------------------------------------------------------------------
(* Directory and network *)

Dst(m) == IF m.type \in ToAgent THEN m.agent ELSE m.req

\* At most one message leaves the directory in one cycle.
SendDown(out) ==
  down' = [n \in Node |->
             down[n] \o SetToSeq({WithFresh(m, mem) : m \in {x \in out : Dst(x) = n}})]

\* deparser.cpp writes the data of these two messages to dir_gblock_addr of the
\* message, whatever the directory answers.  Cache::generate_message leaves
\* that field of an R_EVICT_DIRTY uninitialised: the data may reach the block
\* or any other address.
HomeMemory(m) ==
  CASE m.type = "AGENT_2_DIR_READ_MISS_DIRTY_ACKDATA" -> {m.fresh}
    [] m.type = "R_EVICT_DIRTY" -> {m.fresh, mem}
    [] OTHER -> {mem}

\* Fault: messages are taken while invalidations are being sent.
DirIdle_fault == TRUE

\* The handler takes a message only while the copy flag is 0.
DirIdle == copy.type = "none"

DirReceive(n) ==
  \E i \in Deliverable(up[n]) :
    LET m == up[n][i]
        res == IF m.type \in Request THEN HandleRequest(entry, m.type, m.req)
               ELSE HandleAck(entry, m.type, m.req, m.agent)
    IN /\ DirIdle
       /\ up' = [up EXCEPT ![n] = RemoveAt(@, i)]
       /\ entry' = res.entry
       /\ copy' = res.copy
       /\ mem' \in HomeMemory(m)
       /\ SendDown(res.out)
       /\ UNCHANGED <<peer, hostQ, agent, lineVars, threadVars>>

DirCopyLoop ==
  /\ copy.type # "none"
  /\ copy' = CopyNext(copy)
  /\ SendDown(CopyOut(copy))
  /\ UNCHANGED <<entry, mem, up, peer, hostQ, agent, lineVars, threadVars>>

\* cacheCtrlHLS_from_net on a message for the agent: it goes to a system thread
\* and the FPGA answers the directory, and the requester, without waiting for
\* the host.  Messages on other blocks advance the dealer's counter
\* too, so that a message of this block may go to any of the threads.
FpgaToAgent(n) ==
  \E i \in Deliverable(down[n]) :
    LET m == down[n][i] IN
    /\ m.type \in ToAgent
    /\ down' = [down EXCEPT ![n] = RemoveAt(@, i)]
    /\ \E k \in SysThread : sysQ' = [sysQ EXCEPT ![n][k] = Append(@, m)]
    /\ up' = [up EXCEPT ![n] = Append(@, M(AckOf(m.type), m.req, n, AgentData(n)))]
    /\ peer' =
         CASE m.type = "DIR_2_AGENT_READ_MISS_DIRTY" ->
                [peer EXCEPT ![m.req] = Append(@, M("AGENT_2_APP_READ_MISS_DIRTY_ACKDATA", m.req, n, AgentData(n)))]
           [] m.type = "DIR_2_AGENT_WRITE_MISS_DIRTY" ->
                [peer EXCEPT ![m.req] = Append(@, M("AGENT_2_APP_WRITE_MISS_DIRTY_ACKDATA", m.req, n, AgentData(n)))]
           [] OTHER -> peer
    /\ UNCHANGED <<dirVars, appQ, agent, lineVars, threadVars>>

\* ... and on any other message: to the application thread, its data to the
\* buffer of the line.
ToAppThread(n, m) ==
  /\ appQ' = [appQ EXCEPT ![n] = Append(@, m)]
  /\ buf' = IF m.type \in WithData THEN [buf EXCEPT ![n] = m.fresh] ELSE buf

FpgaToApp(n) ==
  /\ \/ \E i \in Deliverable(down[n]) :
          /\ down[n][i].type \notin ToAgent
          /\ down' = [down EXCEPT ![n] = RemoveAt(@, i)]
          /\ ToAppThread(n, down[n][i])
          /\ UNCHANGED peer
     \/ /\ peer[n] # <<>>
        /\ peer' = [peer EXCEPT ![n] = Tail(@)]
        /\ ToAppThread(n, Head(peer[n]))
        /\ UNCHANGED down
  /\ UNCHANGED <<dirVars, up, sysQ, agent, line, shad, sbuf, wlock, threadVars>>

------------------------------------------------------------------------------
(* Cache agent, CacheAgent.cpp.  From AgentTake to AgentApply it holds the   *)
(* set lock for reading, which keeps newLine out.                            *)

AgentTake(n, k) ==
  /\ agent[n][k] = AgentIdle
  /\ sysQ[n][k] # <<>>
  /\ sysQ' = [sysQ EXCEPT ![n][k] = Tail(@)]
  /\ LET t == Head(sysQ[n][k]).type IN
     agent' = [agent EXCEPT ![n][k] =
       CASE line[n].st # "NONE" /\ shad[n].st # "PRESERVED" -> [type |-> t, at |-> "assert"]
         [] line[n].st # "NONE" /\ shad[n].st = "PRESERVED" -> [type |-> t, at |-> "line"]
         [] line[n].st = "NONE" /\ shad[n].st # "PRESERVED" -> [type |-> t, at |-> "shad"]
         [] OTHER -> AgentIdle]
  /\ UNCHANGED <<dirVars, netVars, appQ, lineVars, threadVars>>

AgentApply(n, k) ==
  /\ \/ /\ agent[n][k].at = "line"
        /\ \E l \in AgentCas(agent[n][k].type, line[n]) : line' = [line EXCEPT ![n] = l]
        /\ UNCHANGED shad
     \/ /\ agent[n][k].at = "shad"
        /\ \E l \in AgentCas(agent[n][k].type, shad[n]) : shad' = [shad EXCEPT ![n] = l]
        /\ UNCHANGED line
  /\ agent' = [agent EXCEPT ![n][k] = AgentIdle]
  /\ UNCHANGED <<dirVars, netVars, hostQ, buf, sbuf, wlock, threadVars>>

------------------------------------------------------------------------------
(* Application thread: readLine and writeLine *)

Goto(n, l) == pc' = [pc EXCEPT ![n] = l]

Send(n, t, f) == up' = [up EXCEPT ![n] = Append(@, M(t, n, n, f))]

SetLine(n, f, s) == line' = [line EXCEPT ![n] = Tag(f, s)]

\* A call of readLine or writeLine.
Begin(n, o) ==
  /\ pc[n] = "idle"
  /\ n \in IF o = "read" THEN Readers ELSE Writers
  /\ op' = [op EXCEPT ![n] = o]
  /\ Goto(n, "look")
  /\ UNCHANGED <<dirVars, netVars, hostQ, agent, lineVars, got, evType>>

\* No line for the block: newLine, under the set lock for writing.
NewLine(n) ==
  /\ pc[n] = "look"
  /\ line[n].st = "NONE" /\ shad[n].st = "PRESERVED"
  /\ NoAgentAtWork(n)
  /\ SetLine(n, FALSE, "INVALID")
  /\ buf' = [buf EXCEPT ![n] = FALSE]
  /\ UNCHANGED <<dirVars, netVars, hostQ, agent, shad, sbuf, wlock, threadVars>>

\* The CAS that starts a miss, and its request.
StartMiss(n) ==
  /\ pc[n] = "look"
  /\ \/ /\ op[n] = "read" /\ line[n] = Tag(FALSE, "INVALID")
        /\ SetLine(n, FALSE, "TO_SHARED")
        /\ Send(n, "R_READ_MISS", FALSE)
        /\ op' = [op EXCEPT ![n] = "readMiss"]
     \/ /\ op[n] = "write" /\ line[n] = Tag(FALSE, "SHARED")
        /\ SetLine(n, FALSE, "TO_MODIFIED")
        /\ Send(n, "R_WRITE_SHARED", FALSE)
        /\ op' = [op EXCEPT ![n] = "writeShared"]
     \/ /\ op[n] = "write" /\ line[n] = Tag(FALSE, "INVALID")
        /\ SetLine(n, FALSE, "TO_MODIFIED")
        /\ Send(n, "R_WRITE_MISS", FALSE)
        /\ op' = [op EXCEPT ![n] = "writeMiss"]
  /\ got' = [got EXCEPT ![n] = {}]
  /\ Goto(n, "wait")
  /\ UNCHANGED <<dirVars, down, peer, hostQ, agent, buf, shad, sbuf, wlock, evType>>

\* The line is in a state that allows the access; the copy itself is a later
\* step, and nothing keeps the agent from changing the status in between.
Hit(n) ==
  /\ pc[n] = "look"
  /\ \/ op[n] = "read" /\ line[n].st \in {"SHARED", "MODIFIED"}
     \/ op[n] = "write" /\ line[n].st = "MODIFIED"
  /\ Goto(n, "access")
  /\ UNCHANGED <<dirVars, netVars, hostQ, agent, lineVars, op, got, evType>>

Stale(qs) == [n \in Node |-> [i \in DOMAIN qs[n] |-> [qs[n][i] EXCEPT !.fresh = FALSE]]]

\* A store makes every other copy old.
Access(n) ==
  /\ pc[n] = "access"
  /\ IF op[n] = "write"
     THEN /\ buf' = [m \in Node |-> m = n]
          /\ sbuf' = [m \in Node |-> FALSE]
          /\ mem' = FALSE
          /\ up' = Stale(up) /\ down' = Stale(down) /\ peer' = Stale(peer)
     ELSE UNCHANGED <<buf, sbuf, mem, netVars>>
  /\ Goto(n, "idle")
  /\ op' = [op EXCEPT ![n] = "none"]
  /\ UNCHANGED <<entry, copy, hostQ, agent, line, shad, wlock, got, evType>>

\* The receive loops of readMiss, writeMiss and writeShared: for the operation
\* o, having received the messages in g, the place to go to on a message t.
Complete(o, g) ==
  \/ o = "readMiss" /\ g \cap {"AGENT_2_APP_READ_MISS_DIRTY_ACKDATA",
                               "DIR_2_APP_READ_MISS_ACKDATA"} # {}
  \/ o = "writeMiss" /\ \/ g \cap {"AGENT_2_APP_WRITE_MISS_DIRTY_ACKDATA",
                                   "DIR_2_APP_WRITE_MISS_ACKDATA"} # {}
                        \/ g = {"DIR_2_APP_WRITE_MISS_SHAREDDATA",
                                "DIR_2_APP_WRITE_MISS_SHARED_AGGACK_ACK"}
  \/ o = "writeShared" /\ g \cap {"DIR_2_APP_WRITE_SHARED_NOTONLY_AGGACK_ACK",
                                  "DIR_2_APP_WRITE_SHARED_ONLYACK"} # {}

Refusal == {"DIR_2_APP_M_CHECK_FAIL", "DIR_2_APP_BITMAP_CHECK_FAIL"}

\* Fault: the answers of writeMiss are expected in order.
Partial_fault == {"DIR_2_APP_WRITE_MISS_SHAREDDATA"}

Partial == {"DIR_2_APP_WRITE_MISS_SHAREDDATA", "DIR_2_APP_WRITE_MISS_SHARED_AGGACK_ACK"}

AfterReply(o, g, t) ==
  CASE t = "DIR_2_APP_M_CHECK_FAIL" -> "fail"
    [] t = "DIR_2_APP_BITMAP_CHECK_FAIL" -> "spin"
    [] t \notin Refusal /\ Complete(o, g \cup {t}) -> "won"
    [] o = "writeMiss" /\ t \in Partial /\ ~Complete(o, g \cup {t})
       /\ ~(t = "DIR_2_APP_WRITE_MISS_SHAREDDATA" /\ t \in g) -> "wait"
    [] OTHER -> "assert"

Receive(n) ==
  /\ pc[n] = "wait"
  /\ appQ[n] # <<>>
  /\ LET t == Head(appQ[n]).type IN
     /\ Goto(n, AfterReply(op[n], got[n], t))
     /\ got' = [got EXCEPT ![n] = @ \cup {t}]
  /\ appQ' = [appQ EXCEPT ![n] = Tail(@)]
  /\ UNCHANGED <<dirVars, netVars, sysQ, agent, lineVars, op, evType>>

\* After DIR_2_APP_BITMAP_CHECK_FAIL the thread spins until the agent has set
\* the flag of the line.
Spin(n) ==
  /\ pc[n] = "spin"
  /\ line[n].fl
  /\ Goto(n, "fail")
  /\ UNCHANGED <<dirVars, netVars, hostQ, agent, lineVars, op, got, evType>>

Transient(o) == IF o = "readMiss" THEN "TO_SHARED" ELSE "TO_MODIFIED"

Retry(o) == IF o = "readMiss" THEN "read" ELSE "write"

\* Fault: the flag is not looked at.
Settle_fault(n) ==
  /\ pc[n] \in {"fail", "won"}
  /\ line[n].st = Transient(op[n])
  /\ SetLine(n, FALSE,
       CASE pc[n] = "won" -> IF op[n] = "readMiss" THEN "SHARED" ELSE "MODIFIED"
         [] pc[n] = "fail" -> IF op[n] = "writeShared" THEN "SHARED" ELSE "INVALID")
  /\ op' = [op EXCEPT ![n] = Retry(@)]
  /\ got' = [got EXCEPT ![n] = {}]
  /\ Goto(n, "look")
  /\ UNCHANGED <<dirVars, netVars, hostQ, agent, buf, shad, sbuf, wlock, evType>>

\* The CAS loops that end a miss; a flag set by the agent meanwhile takes the
\* line back to INVALID.  What follows is the same after a miss as at the start
\* of the loop of readLine or writeLine: the status is read again, and the
\* thread copies the data or, if the agent was faster, tries once more.
Settle(n) ==
  /\ pc[n] \in {"fail", "won"}
  /\ line[n].st = Transient(op[n])
  /\ SetLine(n, FALSE,
       CASE line[n].fl -> "INVALID"
         [] ~line[n].fl /\ pc[n] = "won" -> IF op[n] = "readMiss" THEN "SHARED" ELSE "MODIFIED"
         [] ~line[n].fl /\ pc[n] = "fail" -> IF op[n] = "writeShared" THEN "SHARED" ELSE "INVALID")
  /\ op' = [op EXCEPT ![n] = Retry(@)]
  /\ got' = [got EXCEPT ![n] = {}]
  /\ Goto(n, "look")
  /\ UNCHANGED <<dirVars, netVars, hostQ, agent, buf, shad, sbuf, wlock, evType>>

------------------------------------------------------------------------------
(* Application thread: eviction, caused by a miss on another block *)

\* newLine takes the slot of this block for another one.
EvictLine(n) ==
  /\ pc[n] = "idle"
  /\ n \in Evictors
  /\ line[n].st \in {"INVALID", "SHARED", "MODIFIED"}
  /\ shad[n].st = "PRESERVED"
  /\ NoAgentAtWork(n)
  /\ SetLine(n, FALSE, "NONE")
  /\ buf' = [buf EXCEPT ![n] = FALSE]
  /\ IF line[n].st = "INVALID" THEN UNCHANGED <<shad, sbuf, pc>>
     ELSE /\ shad' = [shad EXCEPT ![n] = Tag(FALSE, line[n].st)]
          /\ sbuf' = [sbuf EXCEPT ![n] = buf[n]]
          /\ Goto(n, "evStart")
  /\ UNCHANGED <<dirVars, netVars, hostQ, agent, wlock, op, got, evType>>

\* The buffer goes back to the pool and the shadow slot is free.
FreeShadow(n) ==
  /\ shad' = [shad EXCEPT ![n] = Tag(FALSE, "PRESERVED")]
  /\ sbuf' = [sbuf EXCEPT ![n] = FALSE]
  /\ wlock' = [wlock EXCEPT ![n] = FALSE]
  /\ evType' = [evType EXCEPT ![n] = "none"]
  /\ Goto(n, "idle")

\* start_evict up to its CAS: an invalidated line is freed at once.
EvictMark(n) ==
  /\ pc[n] = "evStart"
  /\ IF shad[n].st = "INVALID" THEN FreeShadow(n)
     ELSE /\ shad' = [shad EXCEPT ![n].st = "TO_PRESERVED"]
          /\ evType' = [evType EXCEPT ![n] = IF shad[n].st = "SHARED" THEN "EVICT_SHARED" ELSE "EVICT_DIRTY"]
          /\ Goto(n, "evLock")
          /\ UNCHANGED <<sbuf, wlock>>
  /\ UNCHANGED <<dirVars, netVars, hostQ, agent, line, buf, op, got>>

\* start_evict from lock.wLock() on.
EvictSend(n) ==
  /\ pc[n] = "evLock"
  /\ ~wlock[n]
  /\ wlock' = [wlock EXCEPT ![n] = TRUE]
  /\ Send(n, IF evType[n] = "EVICT_SHARED" THEN "R_EVICT_SHARED" ELSE "R_EVICT_DIRTY", sbuf[n])
  /\ Goto(n, "evWait")
  /\ UNCHANGED <<dirVars, down, peer, hostQ, agent, line, buf, shad, sbuf, op, got, evType>>

\* wait_evict.
EvictReply(n) ==
  /\ pc[n] = "evWait"
  /\ appQ[n] # <<>>
  /\ appQ' = [appQ EXCEPT ![n] = Tail(@)]
  /\ LET t == Head(appQ[n]).type IN
     CASE t \in {"DIR_2_APP_EVICT_DIRTY_ACK", "DIR_2_APP_EVICT_SHARED_ACK"} -> FreeShadow(n)
       [] t = "DIR_2_APP_M_CHECK_FAIL" -> Goto(n, "evCas") /\ UNCHANGED <<shad, sbuf, wlock, evType>>
       [] t = "DIR_2_APP_BITMAP_CHECK_FAIL" -> Goto(n, "evSpin") /\ UNCHANGED <<shad, sbuf, wlock, evType>>
       [] OTHER -> Goto(n, "assert") /\ UNCHANGED <<shad, sbuf, wlock, evType>>
  /\ UNCHANGED <<dirVars, netVars, sysQ, agent, line, buf, op, got>>

\* DIR_2_APP_M_CHECK_FAIL: the status goes back, and start_evict is called
\* again with the line still locked.
EvictUndo(n) ==
  /\ pc[n] = "evCas"
  /\ \/ shad[n] = Tag(FALSE, "TO_PRESERVED") /\
          shad' = [shad EXCEPT ![n] = Tag(FALSE, IF evType[n] = "EVICT_SHARED" THEN "SHARED" ELSE "MODIFIED")]
     \/ shad[n] = Tag(TRUE, "TO_PRESERVED") /\ shad' = [shad EXCEPT ![n] = Tag(FALSE, "INVALID")]
     \/ evType[n] = "EVICT_DIRTY" /\ shad[n] = Tag(FALSE, "TO_SHARED") /\
          shad' = [shad EXCEPT ![n] = Tag(FALSE, "SHARED")]
     \/ evType[n] = "EVICT_DIRTY" /\ shad[n] = Tag(TRUE, "TO_SHARED") /\
          shad' = [shad EXCEPT ![n] = Tag(FALSE, "INVALID")]
  /\ Goto(n, "evStart")
  /\ UNCHANGED <<dirVars, netVars, hostQ, agent, line, buf, sbuf, wlock, op, got, evType>>

\* DIR_2_APP_BITMAP_CHECK_FAIL: wait for the agent's flag, then free.
EvictSpin(n) ==
  /\ pc[n] = "evSpin"
  /\ shad[n].fl
  /\ FreeShadow(n)
  /\ UNCHANGED <<dirVars, netVars, hostQ, agent, line, buf, op, got>>

------------------------------------------------------------------------------
Thread(n) ==
  \/ NewLine(n) \/ StartMiss(n) \/ Hit(n) \/ Access(n)
  \/ Receive(n) \/ Spin(n) \/ Settle(n)
  \/ EvictMark(n) \/ EvictSend(n) \/ EvictReply(n) \/ EvictUndo(n) \/ EvictSpin(n)

AgentStep(n) == \E k \in SysThread : AgentTake(n, k) \/ AgentApply(n, k)

Next ==
  \/ DirCopyLoop
  \/ \E n \in Node :
       \/ DirReceive(n) \/ FpgaToAgent(n) \/ FpgaToApp(n)
       \/ AgentStep(n)
       \/ \E o \in {"read", "write"} : Begin(n, o)
       \/ EvictLine(n)
       \/ Thread(n)

Spec == Init /\ [][Next]_vars

\* The state without the freshness of data, which no guard looks at: two states
\* with the same control take the same steps, up to freshness.  Runs whose
\* properties do not speak of data need to visit only one of them.
Bare(qs) == [n \in DOMAIN qs |-> [i \in DOMAIN qs[n] |->
               [type |-> qs[n][i].type, req |-> qs[n][i].req, agent |-> qs[n][i].agent]]]

ControlView ==
  <<entry, copy, Bare(up), Bare(down), Bare(peer), Bare(appQ), [n \in Node |-> Bare(sysQ[n])],
    agent, line, shad, wlock, threadVars>>

------------------------------------------------------------------------------
ThreadPc == {"idle", "look", "wait", "spin", "fail", "won", "access", "assert",
             "evStart", "evLock", "evWait", "evCas", "evSpin"}

\* A line in the set is never PRESERVED and a shadow line never TO_MODIFIED, and
\* queues hold messages.
TypeOK ==
  /\ entry \in Entry /\ copy \in Copy /\ mem \in BOOLEAN
  /\ up \in [Node -> Seq(Msg)] /\ down \in [Node -> Seq(Msg)] /\ peer \in [Node -> Seq(Msg)]
  /\ appQ \in [Node -> Seq(Msg)] /\ sysQ \in [Node -> [SysThread -> Seq(Msg)]]
  /\ agent \in [Node -> [SysThread -> [type : ToAgent \cup {"none"}, at : {"none", "line", "shad", "assert"}]]]
  /\ line \in [Node -> [fl : BOOLEAN, st : LineStatus]]
  /\ shad \in [Node -> [fl : BOOLEAN, st : ShadStatus]]
  /\ buf \in [Node -> BOOLEAN] /\ sbuf \in [Node -> BOOLEAN] /\ wlock \in [Node -> BOOLEAN]
  /\ pc \in [Node -> ThreadPc]
  /\ op \in [Node -> {"none", "read", "write", "readMiss", "writeMiss", "writeShared"}]
  /\ got \in [Node -> SUBSET MsgType]
  /\ evType \in [Node -> {"none", "EVICT_SHARED", "EVICT_DIRTY"}]

\* The answers still due to the directory: invalidations and forwarded requests
\* not yet delivered, and answers not yet received.
Owed == (UNION {Owing(Range(down[n])) : n \in Node})
        \cup {[type |-> m.type, req |-> m.req, agent |-> m.agent] :
              m \in UNION {{x \in Range(up[n]) : x.type \in Ack} : n \in Node}}

\* Messages for node n's agents that the host has not acted on yet.
AgentMail(n) ==
  {m.type : m \in {x \in Range(down[n]) : x.type \in ToAgent}}
  \cup (UNION {{m.type : m \in Range(sysQ[n][k])} : k \in SysThread})
  \cup {agent[n][k].type : k \in {j \in SysThread : agent[n][j] # AgentIdle}}

\* No assert(false) of the receive loops or of the agent is reached.
NoAssert == \A n \in Node : pc[n] # "assert" /\ \A k \in SysThread : agent[n][k].at # "assert"

Copies(n) == {line[n].st, shad[n].st}

\* The answer that makes n a sharer or the owner has not reached the directory.
Registering(n) == \E m \in Owed : m.req = n

\* A copy that the node may still use is known to the directory, or the answer
\* that registers it is under way, or a message that takes it away is: no copy
\* is forgotten.
NoOrphan ==
  \A n \in Node :
    /\ "SHARED" \in Copies(n) => n \in entry.bitmap \/ AgentMail(n) # {} \/ Registering(n)
    /\ "MODIFIED" \in Copies(n) =>
         \/ AgentMail(n) # {}
         \/ entry.bitmap = {n} /\ entry.state # "S_SHARED"
         \/ Registering(n)

\* Nothing that concerns node n is under way and its thread is between calls.
Settled(n) ==
  /\ pc[n] = "idle"
  /\ up[n] = <<>> /\ down[n] = <<>> /\ peer[n] = <<>> /\ appQ[n] = <<>>
  /\ AgentMail(n) = {}
  /\ n \notin copy.left
  /\ ~Registering(n)

\* Once things have settled for a node, the directory and the node agree on the
\* copy it has: the state of the line, which the thread and the agent change by
\* CAS, in any order, is the one the directory decided on.
Agreement ==
  \A n \in Node : Settled(n) =>
    /\ n \in entry.bitmap <=> Copies(n) \cap {"SHARED", "MODIFIED"} # {}
    /\ entry.state = "S_DIRTY" /\ n \in entry.bitmap <=> "MODIFIED" \in Copies(n)

\* At most one node can write without having been told to stop.
SingleWriter ==
  \A a, b \in Node :
    a # b /\ "MODIFIED" \in Copies(a) /\ "MODIFIED" \in Copies(b)
      => AgentMail(a) \cup AgentMail(b) # {}

\* A thread that waits for the agent's flag after DIR_2_APP_BITMAP_CHECK_FAIL
\* has it already, or the agent's message that sets it is under way.
SpinIsAnswered ==
  \A n \in Node :
    /\ pc[n] = "spin" => line[n].fl \/ AgentMail(n) # {}
    /\ pc[n] = "evSpin" => shad[n].fl \/ AgentMail(n) # {}

\* A store that completed is still held by somebody.
NoLostUpdate ==
  \/ mem
  \/ \E n \in Node : buf[n] \/ sbuf[n]
                     \/ \E q \in {up[n], down[n], peer[n]} : \E i \in DOMAIN q : q[i].fresh

Dir == INSTANCE Directory WITH owed <- Owed

\* The whole protocol implements the directory's specification.
ImplementsDirectory == Dir!DirSpec

\* A thread does not wait for a line lock that it holds itself.
NoSelfLock == \A n \in Node : ~(pc[n] = "evLock" /\ wlock[n])

\* The FPGA pipelines run freely, the network delivers what it was given, and
\* the threads and agents, which only ever spin or work, are scheduled.
Fairness ==
  /\ WF_vars(DirCopyLoop)
  /\ \A n \in Node : /\ WF_vars(DirReceive(n)) /\ WF_vars(FpgaToAgent(n)) /\ WF_vars(FpgaToApp(n))
                     /\ WF_vars(Thread(n))
                     /\ \A k \in SysThread : WF_vars(AgentTake(n, k)) /\ WF_vars(AgentApply(n, k))

FairSpec == Spec /\ Fairness

\* A thread that sent a request and waits in recv_msg, or for the agent's flag,
\* goes round the loop of readLine or writeLine: no request is lost and nobody
\* waits for somebody who waits for him.
RequestAnswered == \A n \in Node : pc[n] \in {"wait", "spin"} ~> pc[n] = "look"

\* A cache agent does not spin for ever on a line (CacheAgent.cpp spins until the
\* line is in a state it expects).
AgentFinishes == \A n \in Node : \A k \in SysThread : agent[n][k] # AgentIdle ~> agent[n][k] = AgentIdle
==============================================================================
