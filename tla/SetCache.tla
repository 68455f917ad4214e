------------------------------ MODULE SetCache -------------------------------
(****************************************************************************)
(* The cache of one node (Cache.cpp): the lines of one set, their shadow    *)
(* lines, the buffers they are given, and the application threads and the   *)
(* cache agent that share them.  Coherence follows one block through the    *)
(* system with one thread per node; this module follows several blocks and  *)
(* several threads through one set.                                         *)
(*                                                                          *)
(* The directory and the network appear as what they grant, refuse and take *)
(* back: home[b] is the copy of b that the directory believes the node has. *)
(* Buffers are followed, their contents are not: Coherence is about data.   *)
(****************************************************************************)
EXTENDS CacheLine, Naturals, Sequences, SequencesExt, FiniteSetsExt

CONSTANTS
  Thread,       \* application threads of the node
  Block,        \* global blocks that map to the set
  Ways,         \* max_cline_set_width_per_node
  Share,        \* buffers that initLine puts on the stack of each thread
  Ops,          \* the calls the threads make, of "read" and "write"
  Losable,      \* the blocks that other nodes ask for
  None          \* nullptr, no block

Slot == 0 .. Ways - 1

\* A LineInfo of cline_set_vector ("set") or shadow_cline_set_vector.
Line == {"set", "shadow"} \X Slot

Buffer == Thread \X (1 .. Share)

ASSUME SetCacheAssumption ==
  /\ Ways \in Nat \ {0} /\ Share \in Nat
  /\ Ops \subseteq {"read", "write"} /\ Losable \subseteq Block
  /\ None \notin Block \cup Thread \cup Line \cup Buffer

VARIABLES
  ln,        \* ln[p]: tag, (flag, status) and data of a line
  readers,   \* readers[p]: the threads that hold p's lock for reading
  writer,    \* writer[p]: the threads (one at most) that hold it for writing
  pool,      \* available_data_stack[t]
  th,        \* th[t]: the thread and its thread_local eviction registers
  ring,      \* receive ring of thread t
  net,       \* requests under way to the directory
  home,      \* home[b]: the copy of b the directory believes the node has
  mail,      \* receive ring of the cache agent
  agent      \* the message the agent works on and the line it found

lineVars == <<ln, readers, writer, pool>>
hostVars == <<lineVars, th>>
envVars == <<net, home>>
agentVars == <<mail, agent>>
vars == <<hostVars, ring, envVars, agentVars>>

FreeLine == [tag |-> None, word |-> Tag(FALSE, "PRESERVED"), data |-> None]

AgentIdle == [type |-> "none", block |-> None, line |-> None]

\* cur_evict_cline and next_evict_cline are the shadow lines cur and next, None
\* when wait_cur_evict_cline_flag or start_next_evict_cline_flag is false; buf is
\* the buffer that a memcpy under way was called with.
NewThread == [pc |-> "idle", op |-> "none", block |-> None, kind |-> "none", line |-> None,
              buf |-> None, succ |-> FALSE, hit |-> FALSE, next |-> None, cur |-> None, evType |-> "none",
              msg |-> None, inWait |-> FALSE]

Init ==
  /\ ln = [p \in Line |-> FreeLine]
  /\ readers = [p \in Line |-> {}]
  /\ writer = [p \in Line |-> {}]
  /\ pool = [t \in Thread |-> [i \in 1 .. Share |-> <<t, i>>]]
  /\ th = [t \in Thread |-> NewThread]
  /\ ring = [t \in Thread |-> <<>>]
  /\ net = {}
  /\ home = [b \in Block |-> "INVALID"]
  /\ mail = <<>>
  /\ agent = AgentIdle

------------------------------------------------------------------------------
(* Directory, network and FPGA *)

Reply(t, b, y) == ring' = [ring EXCEPT ![t] = Append(@, [block |-> b, type |-> y])]

\* The copy a request asks for.
Wanted(y) == CASE y = "R_READ_MISS" -> "SHARED"
               [] y \in {"R_WRITE_MISS", "R_WRITE_SHARED"} -> "MODIFIED"
               [] y \in {"R_EVICT_SHARED", "R_EVICT_DIRTY"} -> "INVALID"

\* The copy a request is made from.
Held(y) == CASE y \in {"R_READ_MISS", "R_WRITE_MISS"} -> "INVALID"
             [] y \in {"R_WRITE_SHARED", "R_EVICT_SHARED"} -> "SHARED"
             [] y = "R_EVICT_DIRTY" -> "MODIFIED"

\* The request fits what the directory knows of the node: it is granted.
Grant(r) ==
  /\ home[r.block] = Held(r.type)
  /\ home' = [home EXCEPT ![r.block] = Wanted(r.type)]
  /\ net' = net \ {r}
  /\ Reply(r.thread, r.block, IF Wanted(r.type) = "INVALID" THEN "EVICT_ACK" ELSE "ACK")
  /\ UNCHANGED <<hostVars, agentVars>>

\* DIR_2_APP_M_CHECK_FAIL: the block is in a transient state, because of a
\* request of another node, or in a state the request does not fit.
CheckFail(r) ==
  /\ r.block \in Losable \/ home[r.block] # Held(r.type)
  /\ net' = net \ {r}
  /\ Reply(r.thread, r.block, "DIR_2_APP_M_CHECK_FAIL")
  /\ UNCHANGED <<hostVars, home, agentVars>>

\* DIR_2_APP_BITMAP_CHECK_FAIL: the state fits, but not the node's bit.
BitmapFail(r) ==
  /\ IF Held(r.type) = "INVALID" THEN home[r.block] # "INVALID" ELSE home[r.block] = "INVALID"
  /\ net' = net \ {r}
  /\ Reply(r.thread, r.block, "DIR_2_APP_BITMAP_CHECK_FAIL")
  /\ UNCHANGED <<hostVars, home, agentVars>>

\* Another node's request takes the copy, or the right to write, away; the FPGA
\* answers for the node and the agent is told.
Take(b) ==
  /\ b \in Losable
  /\ \E x \in {<<"SHARED", "INVALID", "DIR_2_AGENT_WRITE_MISS_SHARED">>,
               <<"MODIFIED", "INVALID", "DIR_2_AGENT_WRITE_MISS_DIRTY">>,
               <<"MODIFIED", "SHARED", "DIR_2_AGENT_READ_MISS_DIRTY">>} :
       /\ home[b] = x[1]
       /\ home' = [home EXCEPT ![b] = x[2]]
       /\ mail' = Append(mail, [type |-> x[3], block |-> b])
  /\ UNCHANGED <<hostVars, ring, net, agent>>

------------------------------------------------------------------------------
(* Cache agent: from AgentTake to AgentApply it holds the set lock for       *)
(* reading, so that newLine waits.                                           *)

\* findLine and findShadowLine.
Found(k, b) == {p \in {k} \X Slot : ln[p].word.st # "PRESERVED" /\ ln[p].tag = b}

AgentTake ==
  /\ agent = AgentIdle
  /\ mail # <<>>
  /\ LET m == Head(mail)
         f == Found("set", m.block)
         s == Found("shadow", m.block)
     IN /\ mail' = Tail(mail)
        /\ agent' = IF f \cup s = {} THEN AgentIdle
                    ELSE [type |-> m.type, block |-> m.block,
                          line |-> IF f # {} /\ s # {} THEN None ELSE CHOOSE p \in f \cup s : TRUE]
  /\ UNCHANGED <<hostVars, ring, envVars>>

AgentApply ==
  /\ agent # AgentIdle
  /\ agent.line # None
  /\ \E w \in AgentCas(agent.type, ln[agent.line].word) : ln' = [ln EXCEPT ![agent.line].word = w]
  /\ agent' = AgentIdle
  /\ UNCHANGED <<readers, writer, pool, th, ring, envVars, mail>>

------------------------------------------------------------------------------
(* Application thread: readLine and writeLine *)

Goto(t, l) == th' = [th EXCEPT ![t].pc = l]

\* A call of readLine or writeLine, and DSM::drain_eviction.
Begin(t) ==
  /\ th[t].pc = "idle"
  /\ \E o \in Ops, b \in Block :
       th' = [th EXCEPT ![t].pc = "start", ![t].op = o, ![t].block = b, ![t].succ = FALSE]
  /\ UNCHANGED <<lineVars, ring, envVars, agentVars>>

DrainEviction(t) ==
  /\ th[t].pc = "idle" /\ th[t].cur # None
  /\ th' = [th EXCEPT ![t].pc = "waitEvict", ![t].succ = TRUE]
  /\ UNCHANGED <<lineVars, ring, envVars, agentVars>>

Request(t, y, p, b) == [thread |-> t, type |-> y, block |-> b, data |-> ln[p].data]

\* The block has a line in the set and a CAS starts a miss.  The set lock, held
\* for reading, keeps newLine out; nothing else that runs at the same time
\* moves a line, so that the search and the CAS are one step.
StartMiss(t) ==
  /\ th[t].pc = "look"
  /\ Found("shadow", th[t].block) = {}
  /\ \E p \in Found("set", th[t].block) :
       \E x \in {<<"read", "INVALID", "TO_SHARED", "R_READ_MISS">>,
                 <<"write", "SHARED", "TO_MODIFIED", "R_WRITE_SHARED">>,
                 <<"write", "INVALID", "TO_MODIFIED", "R_WRITE_MISS">>} :
         /\ th[t].op = x[1] /\ ln[p].word = Tag(FALSE, x[2])
         /\ ln' = [ln EXCEPT ![p].word = Tag(FALSE, x[3])]
         /\ net' = net \cup {Request(t, x[4], p, th[t].block)}
         /\ th' = [th EXCEPT ![t].pc = "recv", ![t].kind = x[4], ![t].line = p, ![t].hit = FALSE]
  /\ UNCHANGED <<readers, writer, pool, ring, home, agentVars>>

\* The line needs no request, or another thread has one under way; or only the
\* shadow set has the block; or none, or (an assertion) both.
Look(t) ==
  LET b == th[t].block
      f == Found("set", b)
      s == Found("shadow", b)
      Idle(p) == ln[p].word.fl \/ ln[p].word.st \notin
                   IF th[t].op = "read" THEN {"INVALID"} ELSE {"INVALID", "SHARED"}
  IN /\ th[t].pc = "look"
     /\ \/ f = {} /\ s = {} /\ Goto(t, "new")
        \/ f # {} /\ s # {} /\ Goto(t, "assert")
        \/ f = {} /\ th[t].cur \in s /\ Goto(t, "waitEvict")
        \/ /\ f = {} \/ s = {}
           /\ \E p \in f \cup (s \ {th[t].cur}) :
                /\ p \in f => Idle(p)
                /\ th' = [th EXCEPT ![t].pc = "check", ![t].line = p, ![t].hit = TRUE]
     /\ UNCHANGED <<lineVars, ring, envVars, agentVars>>

\* readLine locks a line for reading; writeLine for writing, but a shadow line
\* for reading only.
Exclusive(t) == th[t].op = "write" /\ th[t].line[1] = "set"

Usable(o) == IF o = "read" THEN {"SHARED", "MODIFIED"} ELSE {"MODIFIED"}

Lock(t, p) == writer[p] = {} /\ (Exclusive(t) => readers[p] = {})

\* The thread has released the set lock: the line is locked, and its status
\* read again.
Check(t) ==
  LET p == th[t].line IN
  /\ th[t].pc = "check"
  /\ Lock(t, p)
  /\ IF ln[p].word.st \in Usable(th[t].op)
     THEN /\ th' = [th EXCEPT ![t].pc = "load", ![t].succ = TRUE]
          /\ IF Exclusive(t) THEN writer' = [writer EXCEPT ![p] = {t}] /\ UNCHANGED readers
             ELSE readers' = [readers EXCEPT ![p] = @ \cup {t}] /\ UNCHANGED writer
     ELSE Goto(t, "waitEvict") /\ UNCHANGED <<readers, writer>>
  /\ UNCHANGED <<ln, pool, ring, envVars, agentVars>>

\* memcpy is called with the data pointer that the line has now.  newLine does not
\* take the line's lock: it may have given the line another buffer since Check, and
\* may do so while the memcpy goes on.
Load(t) ==
  /\ th[t].pc = "load"
  /\ th' = [th EXCEPT ![t].pc = "copy", ![t].buf = ln[th[t].line].data]
  /\ UNCHANGED <<lineVars, ring, envVars, agentVars>>

\* memcpy between the caller and the buffer it was called with is over, and the
\* lock is released.  A hit does not wait for the reply to an eviction.
CopyData(t) ==
  LET p == th[t].line IN
  /\ th[t].pc = "copy"
  /\ readers' = [readers EXCEPT ![p] = @ \ {t}]
  /\ writer' = [writer EXCEPT ![p] = @ \ {t}]
  /\ th' = [th EXCEPT ![t].pc = IF th[t].hit THEN "idle" ELSE "waitEvict",
                      ![t].hit = FALSE, ![t].line = None, ![t].buf = None]
  /\ UNCHANGED <<ln, pool, ring, envVars, agentVars>>

------------------------------------------------------------------------------
(* newLine, under the set lock for writing *)

Available == {i \in Slot : ln[<<"set", i>>].word.st = "PRESERVED"}

Evictable == {i \in Slot : /\ ln[<<"set", i>>].word.st \in {"INVALID", "SHARED", "MODIFIED"}
                           /\ ln[<<"shadow", i>>].word.st = "PRESERVED"}

\* Fault: newLine does not look whether another thread has made the line.
Exists_fault(b) == FALSE

Exists(b) == Found("set", b) \cup Found("shadow", b) # {}

Pop(t) == pool' = [pool EXCEPT ![t] = Front(@)]

Fresh(t, b) == [tag |-> b, word |-> Tag(FALSE, "INVALID"), data |-> Last(pool[t])]

NewLine(t) ==
  LET b == th[t].block
      p == <<"set", Max(Available)>>
      e == <<"set", Max(Evictable)>>
      s == <<"shadow", Max(Evictable)>>
      room == Available # {} /\ pool[t] # <<>>
  IN /\ th[t].pc = "new"
     /\ agent = AgentIdle
     /\ \/ /\ Exists(b) \/ (~room /\ Evictable = {})
           /\ Goto(t, "waitEvict") /\ UNCHANGED <<ln, pool>>
        \/ /\ ~Exists(b) /\ room
           /\ ln' = [ln EXCEPT ![p] = Fresh(t, b)]
           /\ Pop(t)
           /\ Goto(t, "start")
        \/ /\ ~Exists(b) /\ ~room /\ Evictable # {}
           /\ IF ln[e].word.st = "INVALID"
              THEN /\ ln' = [ln EXCEPT ![e].tag = b]
                   /\ Goto(t, "start") /\ UNCHANGED pool
              ELSE IF pool[t] = <<>>      \* back() of an empty vector
              THEN Goto(t, "underflow") /\ UNCHANGED <<ln, pool>>
              ELSE /\ ln' = [ln EXCEPT ![s] = [ln[e] EXCEPT !.word.fl = FALSE], ![e] = Fresh(t, b)]
                   /\ Pop(t)
                   /\ th' = [th EXCEPT ![t].pc = "start", ![t].next = s]
     /\ UNCHANGED <<readers, writer, ring, envVars, agentVars>>

------------------------------------------------------------------------------
(* readMiss, writeMiss, writeShared and the CAS after them *)

Transient(k) == IF k = "R_READ_MISS" THEN "TO_SHARED" ELSE "TO_MODIFIED"

\* A reply that belongs to the eviction under way is kept for wait_evict.
Stash(t, m) == th[t].cur # None /\ m.block = ln[th[t].cur].tag

Outcome(t, m) ==
  CASE m.block = th[t].block /\ m.type = "ACK" -> "won"
    [] m.block = th[t].block /\ m.type = "DIR_2_APP_M_CHECK_FAIL" -> "fail"
    [] m.block = th[t].block /\ m.type = "DIR_2_APP_BITMAP_CHECK_FAIL" -> "spin"
    [] m.block # th[t].block /\ Stash(t, m) -> "recv"
    [] OTHER -> "assert"

Receive(t) ==
  /\ th[t].pc = "recv"
  /\ ring[t] # <<>>
  /\ ring' = [ring EXCEPT ![t] = Tail(@)]
  /\ LET m == Head(ring[t]) IN
     th' = [th EXCEPT
       ![t].pc = Outcome(t, m),
       ![t].msg = IF m.block # th[t].block /\ Stash(t, m) THEN m ELSE @]
  /\ UNCHANGED <<lineVars, envVars, agentVars>>

Spin(t) ==
  /\ th[t].pc = "spin"
  /\ ln[th[t].line].word.fl
  /\ Goto(t, "fail")
  /\ UNCHANGED <<lineVars, ring, envVars, agentVars>>

Settle(t) ==
  LET p == th[t].line
      k == th[t].kind
      good == th[t].pc = "won" /\ ~ln[p].word.fl
  IN /\ th[t].pc \in {"fail", "won"}
     /\ ln[p].word.st = Transient(k)
     /\ ln' = [ln EXCEPT ![p].word = Tag(FALSE,
          CASE good -> IF k = "R_READ_MISS" THEN "SHARED" ELSE "MODIFIED"
            [] th[t].pc = "fail" /\ ~ln[p].word.fl /\ k = "R_WRITE_SHARED" -> "SHARED"
            [] OTHER -> "INVALID")]
     /\ th' = [th EXCEPT ![t].pc = IF good THEN "check" ELSE "waitEvict", ![t].kind = "none"]
     /\ UNCHANGED <<readers, writer, pool, ring, envVars, agentVars>>

------------------------------------------------------------------------------
(* Eviction *)

\* The end of an iteration of readLine or writeLine.
After(t) == IF th[t].succ THEN "idle" ELSE "start"

\* start_evict, up to its CAS, at the top of the loop or called by wait_evict.
\* A shadow line that the agent has invalidated is freed at once.
StartEvict(t) ==
  LET p == th[t].next
      l == ln[p]
  IN /\ th[t].pc \in {"start", "again"}
     /\ \/ p = None /\ Goto(t, "look") /\ UNCHANGED <<ln, pool, writer>>
        \/ /\ p # None /\ l.word.st = "INVALID"
           /\ pool' = [pool EXCEPT ![t] = Append(@, l.data)]
           /\ ln' = [ln EXCEPT ![p] = FreeLine]
           /\ writer' = [writer EXCEPT ![p] = @ \ {t}]
           /\ th' = [th EXCEPT ![t].pc = IF th[t].pc = "start" THEN "look" ELSE After(t),
                               ![t].next = None, ![t].cur = None]
        \/ /\ p # None /\ l.word.st # "INVALID"
           /\ ln' = [ln EXCEPT ![p].word.st = "TO_PRESERVED"]
           /\ th' = [th EXCEPT ![t].pc = "evictLock", ![t].next = None, ![t].cur = p,
                               ![t].inWait = (th[t].pc = "again"),
                               ![t].evType = IF l.word.st = "SHARED" THEN "R_EVICT_SHARED" ELSE "R_EVICT_DIRTY"]
           /\ UNCHANGED <<pool, writer>>
     /\ UNCHANGED <<readers, ring, envVars, agentVars>>

\* Fault: the request is sent while others use the line.
EvictFree_fault(p) == writer[p] = {}

EvictFree(p) == writer[p] = {} /\ readers[p] = {}

\* start_evict from lock.wLock() on.
SendEvict(t) ==
  LET p == th[t].cur IN
  /\ th[t].pc = "evictLock"
  /\ EvictFree(p)
  /\ writer' = [writer EXCEPT ![p] = {t}]
  /\ net' = net \cup {Request(t, th[t].evType, p, ln[p].tag)}
  /\ Goto(t, IF th[t].inWait THEN "waitEvict" ELSE "look")
  /\ UNCHANGED <<ln, readers, pool, ring, home, agentVars>>

\* Fault: the buffer is not given back.
FreeShadowLeak_fault(t) ==
  LET p == th[t].cur IN
  /\ pool' = pool
  /\ ln' = [ln EXCEPT ![p] = FreeLine]
  /\ writer' = [writer EXCEPT ![p] = @ \ {t}]

\* The buffer goes to the stack of the thread that evicts.
FreeShadow(t) ==
  LET p == th[t].cur IN
  /\ pool' = [pool EXCEPT ![t] = Append(@, ln[p].data)]
  /\ ln' = [ln EXCEPT ![p] = FreeLine]
  /\ writer' = [writer EXCEPT ![p] = @ \ {t}]

\* wait_evict.
WaitEvict(t) ==
  LET m == IF th[t].msg # None THEN th[t].msg ELSE Head(ring[t])
      mine == m.block = ln[th[t].cur].tag
  IN /\ th[t].pc = "waitEvict"
     /\ \/ /\ th[t].cur = None
           /\ Goto(t, After(t)) /\ UNCHANGED <<ln, pool, writer, ring>>
        \/ /\ th[t].cur # None /\ (th[t].msg # None \/ ring[t] # <<>>)
           /\ ring' = IF th[t].msg # None THEN ring ELSE [ring EXCEPT ![t] = Tail(@)]
           /\ IF mine /\ m.type = "EVICT_ACK" THEN FreeShadow(t) ELSE UNCHANGED <<ln, pool, writer>>
           /\ th' = [th EXCEPT
                ![t].msg = None,
                ![t].cur = IF mine /\ m.type = "EVICT_ACK" THEN None ELSE @,
                ![t].pc = CASE mine /\ m.type = "EVICT_ACK" -> After(t)
                            [] mine /\ m.type = "DIR_2_APP_M_CHECK_FAIL" -> "undo"
                            [] mine /\ m.type = "DIR_2_APP_BITMAP_CHECK_FAIL" -> "evictSpin"
                            [] OTHER -> "assert"]
     /\ UNCHANGED <<readers, envVars, agentVars>>

\* DIR_2_APP_M_CHECK_FAIL: the status goes back and start_evict is called again.
UndoEvict(t) ==
  LET p == th[t].cur
      w == ln[p].word
  IN /\ th[t].pc = "undo"
     /\ w.st = "TO_PRESERVED" \/ (w.st = "TO_SHARED" /\ th[t].evType = "R_EVICT_DIRTY")
     /\ ln' = [ln EXCEPT ![p].word = Tag(FALSE,
          CASE w.fl -> "INVALID"
            [] ~w.fl /\ w.st = "TO_PRESERVED" /\ th[t].evType = "R_EVICT_DIRTY" -> "MODIFIED"
            [] OTHER -> "SHARED")]
     /\ th' = [th EXCEPT ![t].pc = "again", ![t].next = p]
     /\ UNCHANGED <<readers, writer, pool, ring, envVars, agentVars>>

\* DIR_2_APP_BITMAP_CHECK_FAIL: wait for the agent's flag, then free.
SpinEvict(t) ==
  /\ th[t].pc = "evictSpin"
  /\ ln[th[t].cur].word.fl
  /\ FreeShadow(t)
  /\ th' = [th EXCEPT ![t].pc = After(t), ![t].cur = None]
  /\ UNCHANGED <<readers, ring, envVars, agentVars>>

------------------------------------------------------------------------------
ThreadStep(t) ==
  \/ StartMiss(t) \/ Look(t) \/ Check(t) \/ Load(t) \/ CopyData(t) \/ NewLine(t)
  \/ Receive(t) \/ Spin(t) \/ Settle(t)
  \/ StartEvict(t) \/ SendEvict(t) \/ WaitEvict(t) \/ UndoEvict(t) \/ SpinEvict(t)

Next ==
  \/ \E r \in net : Grant(r) \/ CheckFail(r) \/ BitmapFail(r)
  \/ \E b \in Block : Take(b)
  \/ AgentTake \/ AgentApply
  \/ \E t \in Thread : Begin(t) \/ DrainEviction(t) \/ ThreadStep(t)

Spec == Init /\ [][Next]_vars

\* Threads differ only in name, and so do the blocks of Losable, and the others.
Names == Permutations(Thread) \cup Permutations(Losable) \cup Permutations(Block \ Losable)

\* The state without what the rest of a behaviour cannot depend on: registers of
\* a thread that are set before they are read, and the names of the buffers, of
\* which only the places count where a buffer is.
Live(t) ==
  [th[t] EXCEPT !.op = IF th[t].pc = "idle" THEN "none" ELSE @,
                !.block = IF th[t].pc = "idle" THEN None ELSE @,
                !.succ = @ /\ th[t].pc # "idle",
                !.line = IF th[t].pc \in {"check", "load", "copy", "recv", "spin", "won", "fail"} THEN @ ELSE None,
                !.hit = @ /\ th[t].pc \in {"check", "load", "copy"},
                !.inWait = @ /\ th[t].pc = "evictLock",
                !.evType = IF th[t].cur = None THEN "none" ELSE @,
                !.buf = None]

Places(d) == <<{p \in Line : ln[p].data = d},
               {x \in Thread \X (1 .. Cardinality(Buffer)) : x[2] \in DOMAIN pool[x[1]] /\ pool[x[1]][x[2]] = d},
               {t \in Thread : th[t].buf = d},
               {[r EXCEPT !.data = None] : r \in {x \in net : x.data = d}}>>

ControlView == <<[p \in Line |-> [ln[p] EXCEPT !.data = None]], readers, writer, {Places(d) : d \in Buffer},
                 [t \in Thread |-> Live(t)], ring, {[r EXCEPT !.data = None] : r \in net}, home, agentVars>>

------------------------------------------------------------------------------
ThreadPc == {"idle", "start", "again", "look", "check", "load", "copy", "new", "recv", "spin", "won", "fail",
             "evictLock", "waitEvict", "undo", "evictSpin", "underflow", "assert"}

MissType == {"R_READ_MISS", "R_WRITE_MISS", "R_WRITE_SHARED"}
EvictType == {"R_EVICT_SHARED", "R_EVICT_DIRTY"}
Answer == [block : Block \cup {None},
           type : {"ACK", "EVICT_ACK", "DIR_2_APP_M_CHECK_FAIL", "DIR_2_APP_BITMAP_CHECK_FAIL"}]

LineInfo == [tag : Block \cup {None}, data : Buffer \cup {None},
             word : [fl : BOOLEAN, st : LineStatus \cup ShadStatus]]

Registers == [pc : ThreadPc, op : {"none", "read", "write"}, block : Block \cup {None},
              kind : MissType \cup {"none"}, line : Line \cup {None}, buf : Buffer \cup {None}, succ : BOOLEAN, hit : BOOLEAN,
              next : Line \cup {None}, cur : Line \cup {None}, evType : EvictType \cup {"none"},
              msg : Answer \cup {None}, inWait : BOOLEAN]

TypeOK ==
  /\ ln \in [Line -> LineInfo]
  /\ readers \in [Line -> SUBSET Thread] /\ writer \in [Line -> SUBSET Thread]
  /\ pool \in [Thread -> Seq(Buffer)]
  /\ th \in [Thread -> Registers]
  /\ ring \in [Thread -> Seq(Answer)]
  /\ net \subseteq [thread : Thread, type : MissType \cup EvictType, block : Block \cup {None},
                    data : Buffer \cup {None}]
  /\ home \in [Block -> {"INVALID", "SHARED", "MODIFIED"}]
  /\ agent.line \in Line \cup {None}

\* Where buffer b is: in a line, or at a place of a thread's stack.
Holders(b) ==
  {<<"line", p>> : p \in {q \in Line : ln[q].data = b}}
  \cup (UNION {{<<"stack", t, i>> : i \in {j \in DOMAIN pool[t] : pool[t][j] = b}} : t \in Thread})

\* Every buffer has exactly one owner, a line or the stack of a thread: evicting
\* and freeing lines neither loses buffers nor hands one out twice.
OneOwner == \A b \in Buffer : \E x \in Holders(b) : Holders(b) = {x}

\* A block has at most one line, of the set or of the shadow set, whatever
\* threads miss on it at the same time.
OneLine == \A b \in Block : \A p, q \in Found("set", b) \cup Found("shadow", b) : p = q

\* When a thread has found a line usable and copies, the line is that of the block
\* of its call.
OwnLine == \A t \in Thread : th[t].pc = "copy" => ln[th[t].line].tag = th[t].block

\* An eviction that is under way has its line, a shadow line, to itself: a thread
\* that found that line usable, and stores to it under a read lock only, is done
\* before the request is sent, and no thread gets to it before the reply.  This
\* protects the line, not the buffer: a memcpy that was called through a set line
\* goes on when newLine moves the buffer to the shadow line, so a thread may be
\* copying to or from the evicted buffer, with the lock of a line that has lost it.
EvictedAlone ==
  \A r \in net : r.type \in EvictType =>
    \E p \in Line :
      /\ p[1] = "shadow" /\ ln[p].tag = r.block /\ ln[p].data = r.data
      /\ \A t \in Thread : th[t].pc \in {"load", "copy"} =>
           /\ th[t].line # p
           /\ th[t].buf = r.data => ln[th[t].line].data # r.data
==============================================================================
