---------------------------- MODULE SetCache_proofs ---------------------------
(****************************************************************************)
(* Proofs about the lines, shadow lines and buffers of a set (module        *)
(* SetCache), for any threads, blocks, ways and buffers.                    *)
(****************************************************************************)
EXTENDS SetCache, SequenceTheorems, FiniteSetTheorems, WellFoundedInduction, TLAPS

------------------------------------------------------------------------------
(* The inductive invariant *)

\* A line that is in use.
Alive(p) == ln[p].word.st # "PRESERVED"

\* A line in use, and no other, has a buffer, and its block to itself.
LinesOK ==
  /\ \A p \in Line : Alive(p) <=> ln[p].data # None
  /\ \A p, q \in Line : Alive(p) /\ Alive(q) /\ ln[p].tag = ln[q].tag => p = q

\* Buffers are nowhere twice, and none is missing.
BuffersOK ==
  /\ \A p, q \in Line : ln[p].data = ln[q].data /\ ln[p].data # None => p = q
  /\ \A t, u \in Thread : \A i \in DOMAIN pool[t], j \in DOMAIN pool[u] : pool[t][i] = pool[u][j] => t = u /\ i = j
  /\ \A p \in Line, t \in Thread : \A i \in DOMAIN pool[t] : ln[p].data # pool[t][i]
  /\ \A b \in Buffer : \/ \E p \in Line : ln[p].data = b
                       \/ \E t \in Thread : \E i \in DOMAIN pool[t] : pool[t][i] = b

\* A line lock is held by one writer or by readers; a free shadow line is not
\* locked for writing.
LocksOK ==
  \A p \in Line :
    /\ writer[p] = {} \/ (readers[p] = {} /\ \E t \in Thread : writer[p] = {t})
    /\ p[1] = "shadow" /\ ~Alive(p) => writer[p] = {}

\* The shadow lines that thread t evicts.
OwnOK(t) ==
  /\ th[t].next # None =>
       /\ th[t].next[1] = "shadow" /\ Alive(th[t].next) /\ th[t].pc \in {"start", "again"}
       /\ th[t].pc = "start" => th[t].next # th[t].cur /\ writer[th[t].next] = {}
  /\ th[t].cur # None =>
       /\ th[t].cur[1] = "shadow" /\ Alive(th[t].cur)
       /\ th[t].pc # "evictLock" => writer[th[t].cur] = {t}
  /\ th[t].pc \in {"evictLock", "undo", "evictSpin", "again"} => th[t].cur # None
  /\ th[t].pc = "again" => th[t].next = th[t].cur
  /\ th[t].pc = "evictLock" => th[t].evType \in EvictType

\* They are nobody else's.
Apart(t, u) == {th[t].next, th[t].cur} \cap {th[u].next, th[u].cur} \subseteq {None}

\* The line that thread t found, and its lock while it copies.
FoundOK(t) ==
  /\ th[t].pc \in {"check", "load", "copy", "recv", "spin", "won", "fail"} => th[t].line # None
  /\ th[t].pc \in {"load", "copy"} =>
       IF Exclusive(t) THEN writer[th[t].line] = {t} ELSE t \in readers[th[t].line]

\* The blocks that thread t has a request or an answer under way for.
Blocks(q) == {q[i].block : i \in DOMAIN q}
Differ(q) == \A i, j \in DOMAIN q : q[i].block = q[j].block => i = j
Asked(t) == {r.block : r \in {q \in net : q.thread = t}}
Kept(t) == IF th[t].msg = None THEN {} ELSE {th[t].msg.block}
Busy(t) == Asked(t) \cup Blocks(ring[t]) \cup Kept(t)

\* Thread t has a shadow line of block b locked.
Evicts(t, b, s) == s[1] = "shadow" /\ Alive(s) /\ ln[s].tag = b /\ writer[s] = {t}

Once(t) ==
  /\ \A r, q \in net : r.thread = t /\ q.thread = t /\ r.block = q.block => r = q
  /\ Differ(ring[t])
  /\ Asked(t) \cap Blocks(ring[t]) = {}
  /\ Asked(t) \cap Kept(t) = {}
  /\ Blocks(ring[t]) \cap Kept(t) = {}

\* Whatever is under way is about the line that t waits for or one that it evicts,
\* and a request to evict names the buffer of the line.
MailOK(t) ==
  /\ \A b \in Busy(t) : (\E s \in Line : Evicts(t, b, s)) \/ (th[t].pc \in {"recv", "assert"} /\ b = th[t].block)
  /\ \A r \in net : r.thread = t /\ r.type \in EvictType =>
       \E s \in Line : Evicts(t, r.block, s) /\ ln[s].data = r.data
  /\ th[t].pc \in {"undo", "evictSpin", "again"} => ln[th[t].cur].tag \notin Busy(t)

ThreadOK(t) == OwnOK(t) /\ FoundOK(t) /\ Once(t) /\ MailOK(t)

SetInv ==
  /\ TypeOK /\ LinesOK /\ BuffersOK /\ LocksOK
  /\ \A t \in Thread : ThreadOK(t)
  /\ \A t, u \in Thread : t # u => Apart(t, u)

------------------------------------------------------------------------------
(* Slots and sequences *)

LEMMA SlotSets ==
  ASSUME NEW S \in SUBSET Slot
  PROVE  IsFiniteSet(S)
<1>1. Ways - 1 \in Int
  BY SetCacheAssumption
<1>2. IsFiniteSet(Slot)
  BY <1>1, FS_Interval DEF Slot
<1> QED BY <1>2, FS_Subset

\* newLine ends up with a slot whenever there is one.
LEMMA MaxSlot ==
  ASSUME NEW S \in SUBSET Slot, S # {}
  PROVE  Max(S) \in S
<1> DEFINE Above(a) == {b \in S : b > a}
           T == {Above(a) : a \in S}
           R == StrictSubsetOrdering(Slot)
<1>1. IsWellFoundedOn(R, FiniteSubsetsOf(Slot))
  BY FS_StrictSubsetOrderingWellFounded
<1>2. T \subseteq FiniteSubsetsOf(Slot) /\ T # {}
  BY SlotSets DEF FiniteSubsetsOf
<1>3. PICK U \in T : \A V \in T : ~ (<<V, U>> \in R)
  <2> HIDE DEF T, R
  <2> QED BY <1>1, <1>2, WFMin
<1>4. PICK a \in S : U = Above(a)
  BY <1>3
<1>5. S \subseteq Int
  BY SetCacheAssumption DEF Slot
<1>6. Above(a) = {}
  <2> SUFFICES ASSUME NEW y \in Above(a) PROVE FALSE
    OBVIOUS
  <2>1. a \in Int /\ y \in Int /\ y > a /\ y \in S
    BY <1>5
  <2>2. Above(y) \subseteq Above(a) /\ Above(y) # Above(a)
    <3>1. \A b \in S : b > y => b > a
      BY <1>5, <2>1
    <3>2. y \in Above(a) /\ y \notin Above(y)
      BY <2>1
    <3> QED BY <3>1, <3>2
  <2>3. <<Above(y), Above(a)>> \in R
    BY <2>2 DEF StrictSubsetOrdering
  <2> QED BY <1>3, <1>4, <2>1, <2>3
<1>7. \A y \in S : a >= y
  BY <1>5, <1>6
<1>8. \E x \in S : \A y \in S : x >= y
  BY <1>7
<1> QED BY <1>8 DEF Max

LEMMA Appended ==
  ASSUME NEW S, NEW q \in Seq(S), NEW e \in S
  PROVE  /\ Append(q, e) \in Seq(S) /\ Len(q) \in Nat
         /\ DOMAIN q = 1 .. Len(q) /\ DOMAIN Append(q, e) = 1 .. Len(q) + 1
         /\ \A i \in 1 .. Len(q) : Append(q, e)[i] = q[i]
         /\ Append(q, e)[Len(q) + 1] = e
<1>1. Append(q, e) \in Seq(S) /\ Len(Append(q, e)) = Len(q) + 1
      /\ (\A i \in 1 .. Len(q) : Append(q, e)[i] = q[i]) /\ Append(q, e)[Len(q) + 1] = e
  BY AppendProperties
<1> QED BY <1>1, LenProperties

LEMMA Tailed ==
  ASSUME NEW S, NEW q \in Seq(S), q # <<>>
  PROVE  /\ Tail(q) \in Seq(S) /\ Len(q) \in Nat \ {0}
         /\ DOMAIN q = 1 .. Len(q) /\ DOMAIN Tail(q) = 1 .. Len(q) - 1
         /\ \A i \in 1 .. Len(q) - 1 : Tail(q)[i] = q[i + 1]
         /\ Head(q) = q[1] /\ q[1] \in S
<1>1. Tail(q) \in Seq(S) /\ Len(Tail(q)) = Len(q) - 1
      /\ (\A i \in 1 .. Len(Tail(q)) : Tail(q)[i] = q[i + 1]) /\ Head(q) \in S
  BY HeadTailProperties
<1>2. DOMAIN Tail(q) = 1 .. Len(Tail(q)) /\ DOMAIN q = 1 .. Len(q) /\ Len(q) \in Nat
  BY <1>1, LenProperties
<1>3. Len(q) # 0
  BY EmptySeq
<1>4. Head(q) = q[1]
  OBVIOUS
<1> QED BY <1>1, <1>2, <1>3, <1>4

LEMMA Popped ==
  ASSUME NEW S, NEW q \in Seq(S), q # <<>>
  PROVE  /\ Front(q) \in Seq(S) /\ Len(q) \in Nat \ {0} /\ Last(q) = q[Len(q)] /\ Last(q) \in S
         /\ DOMAIN q = 1 .. Len(q) /\ DOMAIN Front(q) = 1 .. Len(q) - 1
         /\ \A i \in 1 .. Len(q) - 1 : Front(q)[i] = q[i]
<1>1. Len(q) \in Nat /\ DOMAIN q = 1 .. Len(q) /\ Len(q) # 0
  BY LenProperties, EmptySeq
<1>2. 1 \in 1 .. Len(q) + 1 /\ Len(q) - 1 \in (1 - 1) .. Len(q) /\ \A i \in 1 .. Len(q) : q[i] \in S
  BY <1>1, ElementOfSeq
<1>3. SubSeq(q, 1, Len(q) - 1) \in Seq(S) /\ Len(SubSeq(q, 1, Len(q) - 1)) = Len(q) - 1
      /\ \A i \in 1 .. Len(q) - 1 : SubSeq(q, 1, Len(q) - 1)[i] = q[1 + i - 1]
  BY <1>1, <1>2, SubSeqProperties
<1>4. Front(q) \in Seq(S) /\ Len(Front(q)) = Len(q) - 1 /\ \A i \in 1 .. Len(q) - 1 : Front(q)[i] = q[i]
  BY <1>1, <1>3 DEF Front
<1>5. DOMAIN Front(q) = 1 .. Len(q) - 1
  BY <1>4, LenProperties
<1>6. Last(q) = q[Len(q)] /\ Last(q) \in S
  BY <1>1, <1>2 DEF Last
<1> QED BY <1>1, <1>4, <1>5, <1>6

LEMMA BlocksAppended ==
  ASSUME NEW S, NEW q \in Seq(S), NEW e \in S, Differ(q), e.block \notin Blocks(q)
  PROVE  Differ(Append(q, e)) /\ Blocks(Append(q, e)) = Blocks(q) \cup {e.block}
<1>1. /\ Len(q) \in Nat /\ DOMAIN q = 1 .. Len(q) /\ DOMAIN Append(q, e) = 1 .. Len(q) + 1
      /\ \A i \in 1 .. Len(q) : Append(q, e)[i] = q[i]
      /\ Append(q, e)[Len(q) + 1] = e
  BY Appended
<1>2. \A i \in 1 .. Len(q) : q[i].block # e.block
  BY <1>1 DEF Blocks
<1>3. Differ(Append(q, e))
  <2> SUFFICES ASSUME NEW i \in 1 .. Len(q) + 1, NEW j \in 1 .. Len(q) + 1, Append(q, e)[i].block = Append(q, e)[j].block
               PROVE  i = j
    BY <1>1 DEF Differ
  <2>1. (i \in 1 .. Len(q) \/ i = Len(q) + 1) /\ (j \in 1 .. Len(q) \/ j = Len(q) + 1)
    BY <1>1
  <2> QED BY <1>1, <1>2, <2>1 DEF Differ
<1>4. \A b : b \in Blocks(Append(q, e)) <=> b \in Blocks(q) \cup {e.block}
  <2>1. \A b : b \in Blocks(Append(q, e)) <=> \E i \in 1 .. Len(q) + 1 : b = Append(q, e)[i].block
    BY <1>1 DEF Blocks
  <2>2. \A b : b \in Blocks(q) <=> \E i \in 1 .. Len(q) : b = q[i].block
    BY <1>1 DEF Blocks
  <2>3. \A i : i \in 1 .. Len(q) + 1 <=> i \in 1 .. Len(q) \/ i = Len(q) + 1
    BY <1>1
  <2> QED BY <1>1, <2>1, <2>2, <2>3
<1> QED BY <1>3, <1>4

LEMMA BlocksTailed ==
  ASSUME NEW S, NEW q \in Seq(S), q # <<>>, Differ(q)
  PROVE  /\ Differ(Tail(q)) /\ Blocks(Tail(q)) = Blocks(q) \ {Head(q).block}
         /\ Head(q).block \in Blocks(q)
<1>1. /\ Len(q) \in Nat \ {0} /\ DOMAIN q = 1 .. Len(q) /\ DOMAIN Tail(q) = 1 .. Len(q) - 1
      /\ \A i \in 1 .. Len(q) - 1 : Tail(q)[i] = q[i + 1]
      /\ Head(q) = q[1]
  BY Tailed
<1>2. \A i \in 1 .. Len(q) - 1 : i + 1 \in 1 .. Len(q) /\ i + 1 # 1
  BY <1>1
<1>3. Differ(Tail(q))
  BY <1>1, <1>2 DEF Differ
<1>4. \A b : b \in Blocks(Tail(q)) <=> \E i \in 1 .. Len(q) - 1 : b = q[i + 1].block
  <2>1. \A b : b \in Blocks(Tail(q)) <=> \E i \in 1 .. Len(q) - 1 : b = Tail(q)[i].block
    BY <1>1 DEF Blocks
  <2> QED BY <1>1, <2>1
<1>5. \A b : b \in Blocks(q) <=> \E i \in 1 .. Len(q) : b = q[i].block
  BY <1>1 DEF Blocks
<1>6. \A j \in 1 .. Len(q) : j # 1 => j - 1 \in 1 .. Len(q) - 1 /\ (j - 1) + 1 = j /\ q[j].block # q[1].block
  BY <1>1 DEF Differ
<1>7. 1 \in 1 .. Len(q)
  BY <1>1
<1>8. \A b : b \in Blocks(Tail(q)) <=> b \in Blocks(q) \ {q[1].block}
  BY <1>2, <1>4, <1>5, <1>6
<1> QED BY <1>1, <1>3, <1>5, <1>7, <1>8

------------------------------------------------------------------------------
(* What a step of one thread leaves to the others *)

\* Line p is what it was but for its status word, which keeps it in use or not.
SameLine(p) == (Alive(p)' <=> Alive(p)) /\ ln'[p].tag = ln[p].tag /\ ln'[p].data = ln[p].data

\* A step of t may change lines of the set, take a free shadow line and give back
\* those that it evicts.
LineStep(t) ==
  \A p \in Line : \/ SameLine(p)
                  \/ p[1] = "set"
                  \/ ~Alive(p)
                  \/ p \in {th[t].next, th[t].cur} /\ writer[p] \subseteq {t}

\* It takes free locks, of shadow lines only those of its own eviction, and
\* releases its own.
LockStep(t) ==
  \A p \in Line : /\ \/ writer'[p] = writer[p]
                     \/ writer'[p] = writer[p] \ {t}
                     \/ writer[p] = {} /\ writer'[p] = {t} /\ (p[1] = "set" \/ p = th[t].cur)
                  /\ \A u \in Thread : u # t => (u \in readers'[p] <=> u \in readers[p])

MailStep(t) ==
  /\ \A u \in Thread : u # t => th'[u] = th[u] /\ ring'[u] = ring[u]
  /\ \A r : r.thread # t => (r \in net' <=> r \in net)

\* The lines that it evicts afterwards are those from before, or were free.
OwnStep(t) ==
  \A x \in {th'[t].next, th'[t].cur} : x \in {None, th[t].next, th[t].cur} \/ (x \in Line /\ ~Alive(x))

StepOf(t) == LineStep(t) /\ LockStep(t) /\ MailStep(t) /\ OwnStep(t)

LEMMA RegistersTyped ==
  ASSUME TypeOK, NEW t \in Thread
  PROVE  th[t].next \in Line \cup {None} /\ th[t].cur \in Line \cup {None} /\ th[t].line \in Line \cup {None}
BY DEF TypeOK, Registers

LEMMA AskedSame ==
  ASSUME NEW u \in Thread, \A r : r.thread = u => (r \in net' <=> r \in net)
  PROVE  Asked(u)' = Asked(u)
BY DEF Asked

LEMMA OtherOwn ==
  ASSUME SetInv, NEW t \in Thread, StepOf(t), NEW u \in Thread, u # t
  PROVE  /\ \A x \in {th[u].next, th[u].cur} : x # None => SameLine(x)
         /\ OwnOK(u)'
<1>1. th'[u] = th[u] /\ OwnOK(u) /\ Apart(t, u)
  BY DEF StepOf, MailStep, SetInv, ThreadOK
<1>2. th[u].next \in Line \cup {None} /\ th[u].cur \in Line \cup {None}
  BY RegistersTyped DEF SetInv
<1>3. ASSUME NEW x \in {th[u].next, th[u].cur}, x # None
      PROVE  SameLine(x) /\ x \in Line /\ x[1] = "shadow" /\ Alive(x) /\ x \notin {th[t].next, th[t].cur}
  <2>1. x \in Line /\ x[1] = "shadow" /\ Alive(x)
    BY <1>1, <1>2, <1>3 DEF OwnOK
  <2>2. x \notin {th[t].next, th[t].cur}
    BY <1>1, <1>3 DEF Apart
  <2> QED BY <2>1, <2>2 DEF StepOf, LineStep
<1>4. ASSUME NEW x \in {th[u].next, th[u].cur}, x # None
      PROVE  writer'[x] = writer[x] \/ writer'[x] = writer[x] \ {t}
  BY <1>3, <1>4 DEF StepOf, LockStep
<1>5. th[u].next # None =>
       /\ th[u].next[1] = "shadow" /\ Alive(th[u].next)' /\ th[u].pc \in {"start", "again"}
       /\ th[u].pc = "start" => th[u].next # th[u].cur /\ writer'[th[u].next] = {}
  <2> SUFFICES ASSUME th[u].next # None
               PROVE  /\ th[u].next[1] = "shadow" /\ Alive(th[u].next)' /\ th[u].pc \in {"start", "again"}
                      /\ th[u].pc = "start" => th[u].next # th[u].cur /\ writer'[th[u].next] = {}
    OBVIOUS
  <2>1. PICK x : x = th[u].next
    OBVIOUS
  <2>2. Alive(x)' /\ x[1] = "shadow" /\ (writer'[x] = writer[x] \/ writer'[x] = writer[x] \ {t})
    BY <1>3, <1>4, <2>1 DEF SameLine
  <2>3. Alive(th[u].next)'
    BY <1>1, <2>1, <2>2 DEF Alive
  <2> QED BY <1>1, <2>1, <2>2, <2>3 DEF OwnOK
<1>6. th[u].cur # None =>
       /\ th[u].cur[1] = "shadow" /\ Alive(th[u].cur)'
       /\ th[u].pc # "evictLock" => writer'[th[u].cur] = {u}
  <2> SUFFICES ASSUME th[u].cur # None
               PROVE  /\ th[u].cur[1] = "shadow" /\ Alive(th[u].cur)'
                      /\ th[u].pc # "evictLock" => writer'[th[u].cur] = {u}
    OBVIOUS
  <2>1. PICK x : x = th[u].cur
    OBVIOUS
  <2>2. Alive(x)' /\ x[1] = "shadow" /\ (writer'[x] = writer[x] \/ writer'[x] = writer[x] \ {t})
    BY <1>3, <1>4, <2>1 DEF SameLine
  <2>3. Alive(th[u].cur)'
    BY <1>1, <2>1, <2>2 DEF Alive
  <2> QED BY <1>1, <2>1, <2>2, <2>3 DEF OwnOK
<1>7. OwnOK(u)'
  BY <1>1, <1>5, <1>6 DEF OwnOK
<1> QED BY <1>3, <1>7

LEMMA OtherFound ==
  ASSUME SetInv, NEW t \in Thread, StepOf(t), NEW u \in Thread, u # t
  PROVE  FoundOK(u)'
<1>1. th'[u] = th[u] /\ FoundOK(u)
  BY DEF StepOf, MailStep, SetInv, ThreadOK
<1>2. th[u].line \in Line \cup {None}
  BY RegistersTyped DEF SetInv
<1>3. Exclusive(u)' <=> Exclusive(u)
  BY <1>1 DEF Exclusive
<1>4. ASSUME th[u].pc \in {"load", "copy"}, Exclusive(u) PROVE writer'[th[u].line] = {u}
  <2>1. th[u].line \in Line /\ writer[th[u].line] = {u}
    BY <1>1, <1>2, <1>4 DEF FoundOK
  <2> QED BY <2>1 DEF StepOf, LockStep
<1>5. ASSUME th[u].pc \in {"load", "copy"}, ~Exclusive(u) PROVE u \in readers'[th[u].line]
  <2>1. th[u].line \in Line /\ u \in readers[th[u].line]
    BY <1>1, <1>2, <1>5 DEF FoundOK
  <2> QED BY <2>1 DEF StepOf, LockStep
<1> QED BY <1>1, <1>3, <1>4, <1>5 DEF FoundOK

LEMMA OtherMail ==
  ASSUME SetInv, NEW t \in Thread, StepOf(t), NEW u \in Thread, u # t
  PROVE  Once(u)' /\ MailOK(u)'
<1>1. th'[u] = th[u] /\ ring'[u] = ring[u] /\ Once(u) /\ MailOK(u) /\ OwnOK(u)
  BY DEF StepOf, MailStep, SetInv, ThreadOK
<1>2. \A r : r.thread = u => (r \in net' <=> r \in net)
  BY DEF StepOf, MailStep
<1>3. Asked(u)' = Asked(u)
  BY <1>2, AskedSame
<1>4. Kept(u)' = Kept(u) /\ Blocks(ring[u])' = Blocks(ring[u]) /\ Busy(u)' = Busy(u) /\ (Differ(ring[u])' <=> Differ(ring[u]))
  BY <1>1, <1>3 DEF Kept, Busy, Blocks, Differ
<1>5. Once(u)'
  BY <1>1, <1>2, <1>3, <1>4 DEF Once
<1>6. ASSUME NEW b, NEW s \in Line, Evicts(u, b, s) PROVE Evicts(u, b, s)' /\ ln'[s].data = ln[s].data
  <2>1. s[1] = "shadow" /\ Alive(s) /\ ln[s].tag = b /\ writer[s] = {u}
    BY <1>6 DEF Evicts
  <2>2. SameLine(s)
    BY <2>1 DEF StepOf, LineStep
  <2>3. writer'[s] = {u}
    BY <2>1 DEF StepOf, LockStep
  <2> QED BY <2>1, <2>2, <2>3 DEF SameLine, Evicts
<1>7. ASSUME th[u].pc \in {"undo", "evictSpin", "again"} PROVE ln'[th[u].cur].tag = ln[th[u].cur].tag
  BY <1>1, <1>7, OtherOwn DEF OwnOK, SameLine
<1>8. \A b \in Busy(u)' : (\E s \in Line : Evicts(u, b, s)') \/ (th[u].pc \in {"recv", "assert"} /\ b = th[u].block)
  BY <1>1, <1>4, <1>6 DEF MailOK
<1>9. \A r \in net' : r.thread = u /\ r.type \in EvictType =>
       \E s \in Line : Evicts(u, r.block, s)' /\ ln'[s].data = r.data
  BY <1>1, <1>2, <1>6 DEF MailOK
<1>10. MailOK(u)'
  BY <1>1, <1>4, <1>7, <1>8, <1>9 DEF MailOK
<1> QED BY <1>5, <1>10

\* What is left to show of a step of t.
LEMMA StepKeeps ==
  ASSUME SetInv, NEW t \in Thread, StepOf(t), TypeOK', LinesOK', BuffersOK', LocksOK', ThreadOK(t)'
  PROVE  SetInv'
<1>1. \A u \in Thread : ThreadOK(u)'
  BY OtherOwn, OtherFound, OtherMail DEF ThreadOK
<1>2. ASSUME NEW u \in Thread, u # t PROVE Apart(t, u)'
  <2>1. th'[u] = th[u] /\ Apart(t, u) /\ OwnOK(u)
    BY <1>2 DEF StepOf, MailStep, SetInv, ThreadOK
  <2>2. \A x \in {th[u].next, th[u].cur} : x # None => Alive(x) /\ x \notin {th[t].next, th[t].cur}
    <3>1. \A x \in {th[u].next, th[u].cur} : x # None => Alive(x)
      BY <2>1 DEF OwnOK
    <3> QED BY <2>1, <3>1 DEF Apart
  <2> QED BY <2>1, <2>2 DEF StepOf, OwnStep, Apart
<1>3. \A u, w \in Thread : u # w => Apart(u, w)'
  <2> SUFFICES ASSUME NEW u \in Thread, NEW w \in Thread, u # w PROVE Apart(u, w)'
    OBVIOUS
  <2>1. CASE u = t
    BY <1>2, <2>1
  <2>2. CASE w = t
    <3>1. Apart(t, u)'
      BY <1>2, <2>2
    <3> QED BY <2>2, <3>1 DEF Apart
  <2>3. CASE u # t /\ w # t
    BY <2>3 DEF SetInv, Apart, StepOf, MailStep
  <2> QED BY <2>1, <2>2, <2>3
<1> QED BY <1>1, <1>3 DEF SetInv

------------------------------------------------------------------------------
(* Steps that leave lines, buffers or messages alone *)

LinesSame == \A p \in Line : SameLine(p)

LEMMA Unchanged ==
  ASSUME ln' = ln
  PROVE  LinesSame
BY DEF LinesSame, SameLine, Alive

LEMMA WordStep ==
  ASSUME TypeOK, NEW p \in Line, NEW w \in [fl : BOOLEAN, st : LineStatus \cup ShadStatus],
         ln' = [ln EXCEPT ![p].word = w], (w.st = "PRESERVED") <=> ~Alive(p)
  PROVE  LinesSame /\ ln' \in [Line -> LineInfo]
<1>1. ln \in [Line -> LineInfo]
  BY DEF TypeOK
<1>2. /\ \A q \in Line : q # p => ln'[q] = ln[q]
      /\ ln'[p].word = w /\ ln'[p].tag = ln[p].tag /\ ln'[p].data = ln[p].data
  BY <1>1 DEF LineInfo
<1>3. LinesSame
  BY <1>2 DEF LinesSame, SameLine, Alive
<1>4. ln' \in [Line -> LineInfo]
  BY <1>1 DEF LineInfo
<1> QED BY <1>3, <1>4

LEMMA LinesKept ==
  ASSUME SetInv, LinesSame, pool' = pool
  PROVE  LinesOK' /\ BuffersOK'
<1>1. LinesOK /\ BuffersOK /\ \A p \in Line : SameLine(p)
  BY DEF SetInv, LinesSame
<1>2. LinesOK'
  BY <1>1 DEF LinesOK, SameLine
<1>3. BuffersOK'
  BY <1>1 DEF BuffersOK, SameLine
<1> QED BY <1>2, <1>3

LEMMA LocksKept ==
  ASSUME SetInv, LinesSame, UNCHANGED <<readers, writer>>
  PROVE  LocksOK'
BY DEF SetInv, LocksOK, LinesSame, SameLine

\* What t has under way stays right, but for a line x that it has given back.
Holds(t, x) == \A s \in Line : s # x /\ s[1] = "shadow" /\ Alive(s) /\ writer[s] = {t} => SameLine(s) /\ writer'[s] = {t}

LEMMA EvictsKept ==
  ASSUME NEW t \in Thread, NEW x, Holds(t, x), NEW b, NEW s \in Line, Evicts(t, b, s), s # x
  PROVE  Evicts(t, b, s)' /\ ln'[s].data = ln[s].data
<1>1. s[1] = "shadow" /\ Alive(s) /\ ln[s].tag = b /\ writer[s] = {t}
  BY DEF Evicts
<1>2. SameLine(s) /\ writer'[s] = {t}
  BY <1>1 DEF Holds
<1> QED BY <1>1, <1>2 DEF SameLine, Evicts

LEMMA MailKept ==
  ASSUME SetInv, NEW t \in Thread, NEW x, Holds(t, x), x # None => ln[x].tag \notin Busy(t)',
         Busy(t)' \subseteq Busy(t), \A r \in net' : r.thread = t => r \in net,
         th[t].pc \notin {"recv", "assert"},
         th'[t].pc \in {"undo", "evictSpin", "again"} => ln'[th'[t].cur].tag \notin Busy(t)',
         None \notin Line
  PROVE  MailOK(t)'
<1>1. MailOK(t)
  BY DEF SetInv, ThreadOK
<1>2. ASSUME NEW b \in Busy(t)', NEW s \in Line, Evicts(t, b, s)
      PROVE  Evicts(t, b, s)' /\ ln'[s].data = ln[s].data
  <2>1. s # x
    BY <1>2 DEF Evicts
  <2> QED BY <1>2, <2>1, EvictsKept
<1>3. \A b \in Busy(t)' : \E s \in Line : Evicts(t, b, s)'
  <2> SUFFICES ASSUME NEW b \in Busy(t)' PROVE \E s \in Line : Evicts(t, b, s)'
    OBVIOUS
  <2>1. \E s \in Line : Evicts(t, b, s)
    BY <1>1 DEF MailOK
  <2> QED BY <1>2, <2>1
<1>4. \A r \in net' : r.thread = t /\ r.type \in EvictType =>
        \E s \in Line : Evicts(t, r.block, s)' /\ ln'[s].data = r.data
  <2> SUFFICES ASSUME NEW r \in net', r.thread = t, r.type \in EvictType
               PROVE  \E s \in Line : Evicts(t, r.block, s)' /\ ln'[s].data = r.data
    OBVIOUS
  <2>1. PICK s \in Line : Evicts(t, r.block, s) /\ ln[s].data = r.data
    BY <1>1 DEF MailOK
  <2>2. r.block \in Busy(t)'
    BY DEF Busy, Asked
  <2> QED BY <1>2, <2>1, <2>2
<1> QED BY <1>3, <1>4 DEF MailOK

\* The same for a step that neither sends nor receives.
LEMMA MailSame ==
  ASSUME SetInv, NEW t \in Thread, Holds(t, None), UNCHANGED <<ring, net>>, th'[t].msg = th[t].msg,
         th[t].pc \notin {"recv", "assert"},
         th'[t].pc \in {"undo", "evictSpin", "again"} => ln'[th'[t].cur].tag \notin Busy(t)
  PROVE  Once(t)' /\ MailOK(t)'
<1>1. Asked(t)' = Asked(t) /\ Kept(t)' = Kept(t) /\ Blocks(ring[t])' = Blocks(ring[t]) /\ (Differ(ring[t])' <=> Differ(ring[t]))
  BY DEF Asked, Kept, Blocks, Differ
<1>2. Busy(t)' = Busy(t)
  BY <1>1 DEF Busy
<1>3. Once(t)'
  BY <1>1 DEF SetInv, ThreadOK, Once
<1>4. MailOK(t)'
  BY <1>2, MailKept, SetCacheAssumption
<1> QED BY <1>3, <1>4

\* Steps that change nothing but the registers of t and status words.
Inner(t) ==
  /\ LinesSame
  /\ UNCHANGED <<readers, writer, pool>>

LEMMA InnerHolds ==
  ASSUME NEW t \in Thread, Inner(t)
  PROVE  Holds(t, None) /\ LineStep(t) /\ LockStep(t)
BY DEF Inner, Holds, LinesSame, LineStep, LockStep

LEMMA InnerKeeps ==
  ASSUME SetInv, NEW t \in Thread, Inner(t), MailStep(t), OwnStep(t), TypeOK', ThreadOK(t)'
  PROVE  SetInv'
<1>1. LinesOK' /\ BuffersOK' /\ LocksOK'
  BY LinesKept, LocksKept DEF Inner
<1>2. StepOf(t)
  BY InnerHolds DEF StepOf
<1> QED BY <1>1, <1>2, StepKeeps

------------------------------------------------------------------------------
(* Steps of the directory and of the agent *)

\* A thread that has not moved.
LEMMA ThreadSame ==
  ASSUME SetInv, NEW t \in Thread, Inner(t), th'[t] = th[t]
  PROVE  OwnOK(t)' /\ FoundOK(t)' /\ (th[t].pc \in {"undo", "evictSpin", "again"} => ln'[th[t].cur].tag = ln[th[t].cur].tag)
<1>1. OwnOK(t) /\ FoundOK(t) /\ th[t].next \in Line \cup {None} /\ th[t].cur \in Line \cup {None}
  BY RegistersTyped DEF SetInv, ThreadOK
<1>2. th[t].next # None => (Alive(th[t].next)' <=> Alive(th[t].next))
  <2>1. PICK x : x = th[t].next
    OBVIOUS
  <2>2. x # None => (Alive(x)' <=> Alive(x))
    BY <1>1, <2>1 DEF Inner, LinesSame, SameLine
  <2> QED BY <2>1, <2>2 DEF Alive
<1>3. th[t].cur # None => (Alive(th[t].cur)' <=> Alive(th[t].cur)) /\ ln'[th[t].cur].tag = ln[th[t].cur].tag
  <2>1. PICK x : x = th[t].cur
    OBVIOUS
  <2>2. x # None => (Alive(x)' <=> Alive(x)) /\ ln'[x].tag = ln[x].tag
    BY <1>1, <2>1 DEF Inner, LinesSame, SameLine
  <2> QED BY <2>1, <2>2 DEF Alive
<1>4. OwnOK(t)'
  BY <1>1, <1>2, <1>3 DEF OwnOK, Inner, Alive
<1>5. FoundOK(t)'
  BY <1>1 DEF FoundOK, Inner, Exclusive
<1> QED BY <1>1, <1>3, <1>4, <1>5 DEF OwnOK

LEMMA IdleKeeps ==
  ASSUME SetInv, LinesSame, UNCHANGED <<readers, writer, pool, th, ring, net>>, TypeOK'
  PROVE  SetInv'
<1>1. LinesOK' /\ BuffersOK' /\ LocksOK'
  BY LinesKept, LocksKept
<1>2. ASSUME NEW t \in Thread PROVE ThreadOK(t)'
  <2>1. Inner(t)
    BY DEF Inner
  <2>2. OwnOK(t)' /\ FoundOK(t)' /\ (th[t].pc \in {"undo", "evictSpin", "again"} => ln'[th[t].cur].tag = ln[th[t].cur].tag)
    BY <2>1, ThreadSame
  <2>3. Asked(t)' = Asked(t) /\ Kept(t)' = Kept(t) /\ Blocks(ring[t])' = Blocks(ring[t]) /\ (Differ(ring[t])' <=> Differ(ring[t]))
    BY DEF Asked, Kept, Blocks, Differ
  <2>4. Once(t)' /\ Busy(t)' = Busy(t)
    BY <2>3 DEF SetInv, ThreadOK, Once, Busy
  <2>5. \A s \in Line : \A b : Evicts(t, b, s) => Evicts(t, b, s)' /\ ln'[s].data = ln[s].data
    BY DEF Evicts, LinesSame, SameLine
  <2>6. MailOK(t)'
    BY <2>2, <2>4, <2>5 DEF SetInv, ThreadOK, MailOK
  <2> QED BY <2>2, <2>4, <2>6 DEF ThreadOK
<1>3. \A t, u \in Thread : t # u => Apart(t, u)'
  BY DEF SetInv, Apart
<1> QED BY <1>1, <1>2, <1>3 DEF SetInv

\* The directory answers request r.
Answers(r, y) ==
  /\ r \in net /\ net' = net \ {r}
  /\ ring' = [ring EXCEPT ![r.thread] = Append(@, [block |-> r.block, type |-> y])]
  /\ UNCHANGED <<ln, readers, writer, pool, th>>

LEMMA StepAnswer ==
  ASSUME SetInv, NEW r, NEW y, Answers(r, y), y \in {"ACK", "EVICT_ACK", "DIR_2_APP_M_CHECK_FAIL", "DIR_2_APP_BITMAP_CHECK_FAIL"},
         home' \in [Block -> {"INVALID", "SHARED", "MODIFIED"}], agent' = agent
  PROVE  SetInv'
<1>1. PICK t \in Thread : t = r.thread /\ r.block \in Block \cup {None} /\ r \in net
  BY DEF SetInv, TypeOK, Answers
<1>2. PICK m \in Answer : m = [block |-> r.block, type |-> y]
  BY <1>1 DEF Answer
<1>3. /\ ring' = [ring EXCEPT ![t] = Append(@, m)] /\ m.block = r.block /\ net' = net \ {r}
      /\ UNCHANGED <<ln, readers, writer, pool, th>>
  BY <1>1, <1>2 DEF Answers
<1>4. ring \in [Thread -> Seq(Answer)] /\ ring[t] \in Seq(Answer) /\ TypeOK
  BY DEF SetInv, TypeOK
<1>5. ring'[t] = Append(ring[t], m) /\ (\A u \in Thread : u # t => ring'[u] = ring[u]) /\ ring'[t] \in Seq(Answer)
  BY <1>3, <1>4, Appended
<1>6. TypeOK'
  <2>1. ring' \in [Thread -> Seq(Answer)]
    BY <1>3, <1>4, <1>5
  <2>2. net' \subseteq net
    BY <1>3
  <2> QED BY <1>3, <1>4, <2>1, <2>2 DEF TypeOK
<1>7. Inner(t) /\ MailStep(t) /\ OwnStep(t)
  BY <1>1, <1>3, <1>5, Unchanged DEF Inner, MailStep, OwnStep
<1>8. Once(t) /\ MailOK(t)
  BY DEF SetInv, ThreadOK
<1>9. OwnOK(t)' /\ FoundOK(t)'
  BY <1>3, <1>7, ThreadSame
<1>10. r.block \in Asked(t) /\ Asked(t)' = Asked(t) \ {r.block}
  <2>1. \A q \in net : q.thread = t /\ q.block = r.block => q = r
    BY <1>1, <1>8 DEF Once
  <2>2. \A b : b \in Asked(t)' <=> \E q \in net : q # r /\ q.thread = t /\ b = q.block
    BY <1>3 DEF Asked
  <2>3. \A b : b \in Asked(t) <=> \E q \in net : q.thread = t /\ b = q.block
    BY DEF Asked
  <2>4. \A b : b \in Asked(t)' <=> b \in Asked(t) \ {r.block}
    BY <1>1, <2>1, <2>2, <2>3
  <2> QED BY <1>1, <2>3, <2>4
<1>11. m.block \notin Blocks(ring[t]) /\ Differ(ring[t]) /\ m.block \notin Kept(t)
  BY <1>3, <1>8, <1>10 DEF Once
<1>12. Differ(ring'[t]) /\ Blocks(ring'[t]) = Blocks(ring[t]) \cup {r.block}
  BY <1>3, <1>4, <1>5, <1>11, BlocksAppended
<1>13. Kept(t)' = Kept(t) /\ Blocks(ring[t])' = Blocks(ring'[t]) /\ (Differ(ring[t])' <=> Differ(ring'[t]))
  BY <1>3 DEF Kept, Blocks, Differ
<1>14. Once(t)'
  BY <1>3, <1>8, <1>10, <1>11, <1>12, <1>13 DEF Once
<1>15. Busy(t)' = Busy(t)
  BY <1>10, <1>12, <1>13 DEF Busy
<1>16. \A s \in Line : \A b : Evicts(t, b, s)' <=> Evicts(t, b, s)
  BY <1>3 DEF Evicts, Alive
<1>17. MailOK(t)'
  BY <1>3, <1>8, <1>15, <1>16 DEF MailOK
<1> QED BY <1>6, <1>7, <1>9, <1>14, <1>17, InnerKeeps DEF ThreadOK

LEMMA StepDirectory ==
  ASSUME SetInv, NEW r \in net, Grant(r) \/ CheckFail(r) \/ BitmapFail(r)
  PROVE  SetInv'
<1>1. r.type \in MissType \cup EvictType /\ r.block \in Block \cup {None} /\ home \in [Block -> {"INVALID", "SHARED", "MODIFIED"}]
  BY DEF SetInv, TypeOK
<1>2. CASE Grant(r)
  <2>1. Wanted(r.type) \in {"INVALID", "SHARED", "MODIFIED"}
    BY <1>1 DEF Wanted, MissType, EvictType
  <2>2. home' \in [Block -> {"INVALID", "SHARED", "MODIFIED"}]
    BY <1>1, <1>2, <2>1 DEF Grant
  <2>3. \E y \in {"EVICT_ACK", "ACK"} : Answers(r, y)
    BY <1>2 DEF Grant, Answers, Reply, hostVars, lineVars
  <2> QED BY <1>2, <2>2, <2>3, StepAnswer DEF Grant, agentVars
<1>3. CASE CheckFail(r)
  <2>1. Answers(r, "DIR_2_APP_M_CHECK_FAIL")
    BY <1>3 DEF CheckFail, Answers, Reply, hostVars, lineVars
  <2> QED BY <1>1, <1>3, <2>1, StepAnswer DEF CheckFail, agentVars
<1>4. CASE BitmapFail(r)
  <2>1. Answers(r, "DIR_2_APP_BITMAP_CHECK_FAIL")
    BY <1>4 DEF BitmapFail, Answers, Reply, hostVars, lineVars
  <2> QED BY <1>1, <1>4, <2>1, StepAnswer DEF BitmapFail, agentVars
<1> QED BY <1>2, <1>3, <1>4

LEMMA StepTake ==
  ASSUME SetInv, NEW b \in Block, Take(b)
  PROVE  SetInv'
<1>1. UNCHANGED <<ln, readers, writer, pool, th, ring, net, agent>>
  BY DEF Take, hostVars, lineVars
<1>2. home' \in [Block -> {"INVALID", "SHARED", "MODIFIED"}]
  <2>1. PICK x \in {<<"SHARED", "INVALID", "DIR_2_AGENT_WRITE_MISS_SHARED">>,
                    <<"MODIFIED", "INVALID", "DIR_2_AGENT_WRITE_MISS_DIRTY">>,
                    <<"MODIFIED", "SHARED", "DIR_2_AGENT_READ_MISS_DIRTY">>} : home' = [home EXCEPT ![b] = x[2]]
    BY DEF Take
  <2>2. x[2] \in {"INVALID", "SHARED", "MODIFIED"}
    OBVIOUS
  <2> QED BY <2>1, <2>2 DEF SetInv, TypeOK
<1>3. TypeOK'
  BY <1>1, <1>2 DEF SetInv, TypeOK
<1> QED BY <1>1, <1>3, Unchanged, IdleKeeps

LEMMA FoundIs ==
  ASSUME NEW k \in {"set", "shadow"}, NEW b
  PROVE  Found(k, b) = {p \in Line : p[1] = k /\ Alive(p) /\ ln[p].tag = b}
BY DEF Found, Line, Alive

LEMMA StepAgentTake ==
  ASSUME SetInv, AgentTake
  PROVE  SetInv'
<1>1. UNCHANGED <<ln, readers, writer, pool, th, ring, net, home>>
  BY DEF AgentTake, hostVars, lineVars, envVars
<1>2. agent'.line \in Line \cup {None}
  <2> DEFINE m == Head(mail)
             F == Found("set", m.block) \cup Found("shadow", m.block)
  <2>1. F \subseteq Line
    BY FoundIs
  <2>2. \/ agent' = AgentIdle
        \/ F # {} /\ agent'.line = None
        \/ F # {} /\ agent'.line = CHOOSE p \in F : TRUE
    BY DEF AgentTake
  <2>3. AgentIdle.line = None
    BY DEF AgentIdle
  <2> QED BY <2>1, <2>2, <2>3
<1>3. TypeOK'
  BY <1>1, <1>2 DEF SetInv, TypeOK
<1> QED BY <1>1, <1>3, Unchanged, IdleKeeps

\* The agent's CAS neither frees a line nor brings one into use.
LEMMA CasKeeps ==
  ASSUME NEW y, NEW l \in [fl : BOOLEAN, st : LineStatus \cup ShadStatus], NEW w \in AgentCas(y, l)
  PROVE  w \in [fl : BOOLEAN, st : LineStatus \cup ShadStatus] /\ (w.st = "PRESERVED" <=> l.st = "PRESERVED")
<1>1. CASE l.st = "PRESERVED"
  <2>1. AgentCas(y, l) = {l}
    <3>1. l # Tag(FALSE, "SHARED") /\ l # Tag(FALSE, "MODIFIED") /\ l # Tag(FALSE, "TO_PRESERVED") /\ ~Moving(l)
      BY <1>1 DEF Tag, Moving
    <3> QED BY <1>1, <3>1 DEF AgentCas
  <2> QED BY <1>1, <2>1
<1>2. CASE l.st # "PRESERVED"
  <2>1. w \in {Tag(FALSE, "INVALID"), Tag(FALSE, "SHARED"), Tag(FALSE, "TO_SHARED"), Tag(TRUE, l.st)}
    <3>1. CASE y # "DIR_2_AGENT_READ_MISS_DIRTY"
      BY <1>2, <3>1 DEF AgentCas
    <3>2. CASE y = "DIR_2_AGENT_READ_MISS_DIRTY"
      BY <1>2, <3>2 DEF AgentCas
    <3> QED BY <3>1, <3>2
  <2>2. l.st \in LineStatus \cup ShadStatus
    OBVIOUS
  <2>3. \A f \in BOOLEAN : \A x \in LineStatus \cup ShadStatus :
          /\ Tag(f, x) \in [fl : BOOLEAN, st : LineStatus \cup ShadStatus]
          /\ Tag(f, x).st = x
    BY DEF Tag
  <2>4. {"INVALID", "SHARED", "TO_SHARED"} \subseteq LineStatus \cup ShadStatus
    BY DEF LineStatus
  <2>5. PICK f \in BOOLEAN, x \in LineStatus \cup ShadStatus : w = Tag(f, x) /\ x # "PRESERVED"
    BY <1>2, <2>1, <2>2, <2>4
  <2> QED BY <1>2, <2>3, <2>5
<1> QED BY <1>1, <1>2

LEMMA StepAgentApply ==
  ASSUME SetInv, AgentApply
  PROVE  SetInv'
<1>1. UNCHANGED <<readers, writer, pool, th, ring, net, home>> /\ agent' = AgentIdle
  BY DEF AgentApply, envVars
<1>2. PICK p \in Line : p = agent.line
  BY DEF SetInv, TypeOK, AgentApply
<1>3. PICK w \in AgentCas(agent.type, ln[p].word) : ln' = [ln EXCEPT ![p].word = w]
  BY <1>2 DEF AgentApply
<1>4. ln[p].word \in [fl : BOOLEAN, st : LineStatus \cup ShadStatus]
  BY DEF SetInv, TypeOK, LineInfo
<1>5. w \in [fl : BOOLEAN, st : LineStatus \cup ShadStatus] /\ (w.st = "PRESERVED" <=> ~Alive(p))
  BY <1>4, CasKeeps DEF Alive
<1>6. LinesSame /\ ln' \in [Line -> LineInfo]
  BY <1>3, <1>5, WordStep DEF SetInv
<1>7. TypeOK'
  BY <1>1, <1>6 DEF SetInv, TypeOK, AgentIdle
<1> QED BY <1>1, <1>6, <1>7, IdleKeeps

------------------------------------------------------------------------------
(* Steps of a thread outside of its eviction *)

\* The eviction registers of t, and the other threads, stay as they are.
Plain(t) ==
  /\ \A u \in Thread : u # t => th'[u] = th[u]
  /\ th' \in [Thread -> Registers]
  /\ th'[t].next = th[t].next /\ th'[t].cur = th[t].cur
  /\ th[t].pc # "evictLock" /\ (th[t].pc \in {"start", "again"} => th[t].next = None)
  /\ th'[t].pc \notin {"evictLock", "undo", "evictSpin", "again"}

LEMMA PlainOwn ==
  ASSUME SetInv, NEW t \in Thread, Plain(t), Holds(t, None)
  PROVE  OwnOK(t)' /\ OwnStep(t)
<1>1. OwnOK(t) /\ th[t].cur \in Line \cup {None} /\ None \notin Line
  BY RegistersTyped, SetCacheAssumption DEF SetInv, ThreadOK
<1>2. th[t].next = None
  BY <1>1 DEF OwnOK, Plain
<1>3. th[t].cur # None => Alive(th[t].cur)' /\ writer'[th[t].cur] = {t} /\ th[t].cur[1] = "shadow"
  <2> SUFFICES ASSUME th[t].cur # None PROVE Alive(th[t].cur)' /\ writer'[th[t].cur] = {t} /\ th[t].cur[1] = "shadow"
    OBVIOUS
  <2>1. PICK x \in Line : x = th[t].cur
    BY <1>1
  <2>2. x # None /\ x[1] = "shadow" /\ Alive(x) /\ writer[x] = {t}
    BY <1>1, <2>1 DEF OwnOK, Plain
  <2>3. Alive(x)' /\ writer'[x] = {t}
    BY <2>2 DEF Holds, SameLine
  <2>4. th'[t].cur = x
    BY <2>1 DEF Plain
  <2> QED BY <2>1, <2>2, <2>3, <2>4 DEF Alive
<1>4. OwnOK(t)'
  BY <1>2, <1>3 DEF OwnOK, Plain, Alive
<1> QED BY <1>4 DEF OwnStep, Plain

LEMMA PlainKeeps ==
  ASSUME SetInv, NEW t \in Thread, Plain(t), Inner(t), UNCHANGED <<ring, net, home, agent>>,
         ln' \in [Line -> LineInfo], th'[t].msg = th[t].msg, th[t].pc # "recv", th[t].pc # "assert",
         th'[t].pc \notin {"load", "copy"},
         th'[t].pc \in {"check", "recv", "spin", "won", "fail"} => th'[t].line # None
  PROVE  SetInv'
<1>1. Holds(t, None)
  BY InnerHolds
<1>2. TypeOK'
  BY DEF SetInv, TypeOK, Plain, Inner
<1>3. OwnOK(t)' /\ OwnStep(t)
  BY <1>1, PlainOwn
<1>4. FoundOK(t)'
  BY DEF FoundOK
<1>5. Once(t)' /\ MailOK(t)'
  BY <1>1, MailSame DEF Plain
<1>6. MailStep(t)
  BY DEF MailStep, Plain
<1> QED BY <1>2, <1>3, <1>4, <1>5, <1>6, InnerKeeps DEF ThreadOK

\* A step of t that changes nothing but its registers.
LEMMA GotoKeeps ==
  ASSUME SetInv, NEW t \in Thread, NEW l \in ThreadPc, Goto(t, l),
         UNCHANGED <<ln, readers, writer, pool, ring, net, home, agent>>,
         th[t].pc \notin {"evictLock", "recv", "assert"}, th[t].pc \in {"start", "again"} => th[t].next = None,
         l \notin {"evictLock", "undo", "evictSpin", "again", "load", "copy", "check", "recv", "spin", "won", "fail"}
  PROVE  SetInv'
<1>1. th \in [Thread -> Registers] /\ ln \in [Line -> LineInfo]
  BY DEF SetInv, TypeOK
<1>2. th'[t] = [th[t] EXCEPT !.pc = l] /\ (\A u \in Thread : u # t => th'[u] = th[u]) /\ th' \in [Thread -> Registers]
  BY <1>1 DEF Goto, Registers
<1>3. th'[t].pc = l /\ th'[t].next = th[t].next /\ th'[t].cur = th[t].cur /\ th'[t].msg = th[t].msg
  BY <1>1, <1>2 DEF Registers
<1>4. Plain(t)
  BY <1>2, <1>3 DEF Plain
<1>5. Inner(t)
  BY Unchanged DEF Inner
<1> QED BY <1>1, <1>3, <1>4, <1>5, PlainKeeps

LEMMA NewRegisters ==
  ASSUME th \in [Thread -> Registers], NEW t \in Thread, NEW R \in Registers, th' = [th EXCEPT ![t] = R]
  PROVE  th'[t] = R /\ (\A u \in Thread : u # t => th'[u] = th[u]) /\ th' \in [Thread -> Registers]
OBVIOUS

LEMMA StepBegin ==
  ASSUME SetInv, NEW t \in Thread, Begin(t)
  PROVE  SetInv'
<1>1. th \in [Thread -> Registers] /\ ln \in [Line -> LineInfo]
  BY DEF SetInv, TypeOK
<1>2. UNCHANGED <<ln, readers, writer, pool, ring, net, home, agent>> /\ th[t].pc = "idle"
  BY DEF Begin, lineVars, envVars, agentVars
<1>3. PICK o \in Ops, b \in Block :
        th' = [th EXCEPT ![t].pc = "start", ![t].op = o, ![t].block = b, ![t].succ = FALSE]
  BY DEF Begin
<1>4. o \in {"read", "write"}
  BY SetCacheAssumption
<1>5. /\ th'[t] = [th[t] EXCEPT !.pc = "start", !.op = o, !.block = b, !.succ = FALSE]
      /\ \A u \in Thread : u # t => th'[u] = th[u]
      /\ th' \in [Thread -> Registers]
  <2>1. th' = [th EXCEPT ![t] = [th[t] EXCEPT !.pc = "start", !.op = o, !.block = b, !.succ = FALSE]]
    BY <1>1, <1>3, <1>4
  <2>2. th[t] \in Registers /\ {"start", "waitEvict", "check", "fail"} \subseteq ThreadPc
    BY <1>1 DEF ThreadPc
  <2>3. [th[t] EXCEPT !.pc = "start", !.op = o, !.block = b, !.succ = FALSE] \in Registers
    BY <1>1, <1>3, <1>4, <2>2, ZenonT(60) DEF Registers
  <2> QED BY <1>1, <2>1, <2>3, NewRegisters
<1>6. th'[t].pc = "start" /\ th'[t].next = th[t].next /\ th'[t].cur = th[t].cur /\ th'[t].msg = th[t].msg
  BY <1>1, <1>5 DEF Registers
<1>7. Plain(t)
  BY <1>2, <1>5, <1>6 DEF Plain
<1>8. Inner(t)
  BY <1>2, Unchanged DEF Inner
<1> QED BY <1>1, <1>2, <1>6, <1>7, <1>8, PlainKeeps

LEMMA StepDrain ==
  ASSUME SetInv, NEW t \in Thread, DrainEviction(t)
  PROVE  SetInv'
<1>1. th \in [Thread -> Registers] /\ ln \in [Line -> LineInfo]
  BY DEF SetInv, TypeOK
<1>2. UNCHANGED <<ln, readers, writer, pool, ring, net, home, agent>> /\ th[t].pc = "idle"
  BY DEF DrainEviction, lineVars, envVars, agentVars
<1>3. /\ th'[t] = [th[t] EXCEPT !.pc = "waitEvict", !.succ = TRUE]
      /\ \A u \in Thread : u # t => th'[u] = th[u]
      /\ th' \in [Thread -> Registers]
  <2>1. th' = [th EXCEPT ![t] = [th[t] EXCEPT !.pc = "waitEvict", !.succ = TRUE]]
    BY <1>1 DEF DrainEviction
  <2>2. th[t] \in Registers /\ {"start", "waitEvict", "check", "fail"} \subseteq ThreadPc
    BY <1>1 DEF ThreadPc
  <2>3. [th[t] EXCEPT !.pc = "waitEvict", !.succ = TRUE] \in Registers
    BY <1>1, <2>2 DEF Registers
  <2> QED BY <1>1, <2>1, <2>3, NewRegisters
<1>4. th'[t].pc = "waitEvict" /\ th'[t].next = th[t].next /\ th'[t].cur = th[t].cur /\ th'[t].msg = th[t].msg
  BY <1>1, <1>3 DEF Registers
<1>5. Plain(t)
  BY <1>2, <1>3, <1>4 DEF Plain
<1>6. Inner(t)
  BY <1>2, Unchanged DEF Inner
<1> QED BY <1>1, <1>2, <1>4, <1>5, <1>6, PlainKeeps

LEMMA StepLook ==
  ASSUME SetInv, NEW t \in Thread, Look(t)
  PROVE  SetInv'
<1>1. th \in [Thread -> Registers] /\ ln \in [Line -> LineInfo]
  BY DEF SetInv, TypeOK
<1>2. UNCHANGED <<ln, readers, writer, pool, ring, net, home, agent>> /\ th[t].pc = "look"
  BY DEF Look, lineVars, envVars, agentVars
<1>3. CASE \E l \in {"new", "assert", "waitEvict"} : Goto(t, l)
  BY <1>2, <1>3, GotoKeeps DEF ThreadPc
<1>4. CASE \E p \in Found("set", th[t].block) \cup Found("shadow", th[t].block) :
              th' = [th EXCEPT ![t].pc = "check", ![t].line = p, ![t].hit = TRUE]
  <2>1. PICK p \in Line : th' = [th EXCEPT ![t].pc = "check", ![t].line = p, ![t].hit = TRUE]
    <3>1. Found("set", th[t].block) \cup Found("shadow", th[t].block) \subseteq Line
      BY FoundIs
    <3> QED BY <1>4, <3>1
  <2>2. /\ th'[t] = [th[t] EXCEPT !.pc = "check", !.line = p, !.hit = TRUE]
        /\ \A u \in Thread : u # t => th'[u] = th[u]
        /\ th' \in [Thread -> Registers]
    <3>1. th' = [th EXCEPT ![t] = [th[t] EXCEPT !.pc = "check", !.line = p, !.hit = TRUE]]
      BY <1>1, <2>1
    <3>2. th[t] \in Registers /\ {"start", "waitEvict", "check", "fail"} \subseteq ThreadPc
      BY <1>1 DEF ThreadPc
    <3>3. [th[t] EXCEPT !.pc = "check", !.line = p, !.hit = TRUE] \in Registers
      BY <1>1, <2>1, <3>2 DEF Registers
    <3> QED BY <1>1, <3>1, <3>3, NewRegisters
  <2>3. th'[t].pc = "check" /\ th'[t].line = p /\ th'[t].next = th[t].next /\ th'[t].cur = th[t].cur /\ th'[t].msg = th[t].msg
    BY <1>1, <2>2 DEF Registers
  <2>4. Plain(t)
    BY <1>2, <2>2, <2>3 DEF Plain
  <2>5. Inner(t)
    BY <1>2, Unchanged DEF Inner
  <2>6. p # None
    BY SetCacheAssumption
  <2> QED BY <1>1, <1>2, <2>3, <2>4, <2>5, <2>6, PlainKeeps
<1> QED BY <1>3, <1>4 DEF Look

LEMMA StepSpin ==
  ASSUME SetInv, NEW t \in Thread, Spin(t)
  PROVE  SetInv'
<1>1. th \in [Thread -> Registers] /\ ln \in [Line -> LineInfo]
  BY DEF SetInv, TypeOK
<1>2. UNCHANGED <<ln, readers, writer, pool, ring, net, home, agent>> /\ th[t].pc = "spin" /\ Goto(t, "fail")
  BY DEF Spin, lineVars, envVars, agentVars
<1>3. /\ th'[t] = [th[t] EXCEPT !.pc = "fail"]
      /\ \A u \in Thread : u # t => th'[u] = th[u]
      /\ th' \in [Thread -> Registers]
  <2>1. th' = [th EXCEPT ![t] = [th[t] EXCEPT !.pc = "fail"]]
    BY <1>1, <1>2 DEF Goto
  <2>2. th[t] \in Registers /\ {"start", "waitEvict", "check", "fail"} \subseteq ThreadPc
    BY <1>1 DEF ThreadPc
  <2>3. [th[t] EXCEPT !.pc = "fail"] \in Registers
    BY <1>1, <1>2, <2>2 DEF Registers
  <2> QED BY <1>1, <2>1, <2>3, NewRegisters
<1>4. th'[t].pc = "fail" /\ th'[t].line = th[t].line /\ th'[t].next = th[t].next /\ th'[t].cur = th[t].cur /\ th'[t].msg = th[t].msg
  BY <1>1, <1>3 DEF Registers
<1>5. Plain(t)
  BY <1>2, <1>3, <1>4 DEF Plain
<1>6. Inner(t)
  BY <1>2, Unchanged DEF Inner
<1>7. th[t].line # None
  BY <1>2 DEF SetInv, ThreadOK, FoundOK
<1> QED BY <1>1, <1>2, <1>4, <1>5, <1>6, <1>7, PlainKeeps

LEMMA StepSettle ==
  ASSUME SetInv, NEW t \in Thread, Settle(t)
  PROVE  SetInv'
<1>1. th \in [Thread -> Registers] /\ ln \in [Line -> LineInfo] /\ TypeOK
  BY DEF SetInv, TypeOK
<1>2. UNCHANGED <<readers, writer, pool, ring, net, home, agent>> /\ th[t].pc \in {"fail", "won"}
  BY DEF Settle, envVars, agentVars
<1>3. PICK p \in Line : p = th[t].line
  BY <1>2, RegistersTyped DEF SetInv, ThreadOK, FoundOK
<1>4. PICK st \in {"SHARED", "MODIFIED", "INVALID"} : ln' = [ln EXCEPT ![p].word = Tag(FALSE, st)]
  BY <1>3 DEF Settle
<1>5. Tag(FALSE, st) \in [fl : BOOLEAN, st : LineStatus \cup ShadStatus] /\ Tag(FALSE, st).st = st
  BY DEF Tag, LineStatus
<1>6. Alive(p)
  BY <1>3 DEF Settle, Transient, Alive
<1>7. LinesSame /\ ln' \in [Line -> LineInfo]
  BY <1>1, <1>4, <1>5, <1>6, WordStep
<1>8. PICK l \in {"check", "waitEvict"} : th' = [th EXCEPT ![t].pc = l, ![t].kind = "none"]
  BY DEF Settle
<1>9. /\ th'[t] = [th[t] EXCEPT !.pc = l, !.kind = "none"]
      /\ \A u \in Thread : u # t => th'[u] = th[u]
      /\ th' \in [Thread -> Registers]
  <2>1. th' = [th EXCEPT ![t] = [th[t] EXCEPT !.pc = l, !.kind = "none"]]
    BY <1>1, <1>8
  <2>2. th[t] \in Registers /\ {"start", "waitEvict", "check", "fail"} \subseteq ThreadPc
    BY <1>1 DEF ThreadPc
  <2>3. [th[t] EXCEPT !.pc = l, !.kind = "none"] \in Registers
    BY <1>1, <1>8, <2>2 DEF Registers
  <2> QED BY <1>1, <2>1, <2>3, NewRegisters
<1>10. th'[t].pc = l /\ th'[t].line = p /\ th'[t].next = th[t].next /\ th'[t].cur = th[t].cur /\ th'[t].msg = th[t].msg
  BY <1>1, <1>3, <1>9 DEF Registers
<1>11. Plain(t)
  BY <1>2, <1>9, <1>10 DEF Plain
<1>12. Inner(t)
  BY <1>2, <1>7 DEF Inner
<1>13. p # None
  BY SetCacheAssumption
<1> QED BY <1>2, <1>7, <1>10, <1>11, <1>12, <1>13, PlainKeeps

LEMMA RequestIs ==
  ASSUME NEW t, NEW y, NEW p, NEW b
  PROVE  LET r == Request(t, y, p, b) IN r.thread = t /\ r.type = y /\ r.block = b /\ r.data = ln[p].data
BY DEF Request

\* A request of t for a block that nothing is under way for.
LEMMA AskedMore ==
  ASSUME SetInv, NEW t \in Thread, NEW r, r.thread = t, net' = net \cup {r}, r.block \notin Busy(t),
         ring' = ring, th'[t].msg = th[t].msg
  PROVE  Once(t)' /\ Busy(t)' = Busy(t) \cup {r.block}
<1>1. Once(t) /\ r.block \notin Asked(t) /\ r.block \notin Blocks(ring[t]) /\ r.block \notin Kept(t)
  BY DEF SetInv, ThreadOK, Busy
<1>2. Kept(t)' = Kept(t) /\ Blocks(ring[t])' = Blocks(ring[t]) /\ (Differ(ring[t])' <=> Differ(ring[t]))
  BY DEF Kept, Blocks, Differ
<1>3. Asked(t)' = Asked(t) \cup {r.block}
  <2>1. \A b : b \in Asked(t)' <=> \E q \in net' : q.thread = t /\ b = q.block
    BY DEF Asked
  <2>2. \A b : b \in Asked(t) <=> \E q \in net : q.thread = t /\ b = q.block
    BY DEF Asked
  <2>3. \A b : b \in Asked(t)' <=> b \in Asked(t) \cup {r.block}
    BY <2>1, <2>2
  <2> QED BY <2>3
<1>4. \A q \in net : q.thread = t => q.block # r.block
  BY <1>1 DEF Asked
<1>5. \A q1, q2 \in net' : q1.thread = t /\ q2.thread = t /\ q1.block = q2.block => q1 = q2
  BY <1>1, <1>4 DEF Once
<1>6. Once(t)'
  BY <1>1, <1>2, <1>3, <1>5 DEF Once
<1> QED BY <1>2, <1>3, <1>6 DEF Busy

LEMMA StepStartMiss ==
  ASSUME SetInv, NEW t \in Thread, StartMiss(t)
  PROVE  SetInv'
<1>1. th \in [Thread -> Registers] /\ ln \in [Line -> LineInfo] /\ TypeOK /\ th[t] \in Registers
  BY DEF SetInv, TypeOK
<1>2. UNCHANGED <<readers, writer, pool, ring, home, agent>> /\ th[t].pc = "look" /\ Found("shadow", th[t].block) = {}
  BY DEF StartMiss, agentVars
<1>3. PICK p \in Line, x \in {<<"read", "INVALID", "TO_SHARED", "R_READ_MISS">>,
                 <<"write", "SHARED", "TO_MODIFIED", "R_WRITE_SHARED">>,
                 <<"write", "INVALID", "TO_MODIFIED", "R_WRITE_MISS">>} :
         /\ Alive(p)
         /\ ln' = [ln EXCEPT ![p].word = Tag(FALSE, x[3])]
         /\ net' = net \cup {Request(t, x[4], p, th[t].block)}
         /\ th' = [th EXCEPT ![t].pc = "recv", ![t].kind = x[4], ![t].line = p, ![t].hit = FALSE]
  <2>1. \A p \in Found("set", th[t].block) : p \in Line /\ Alive(p)
    BY FoundIs
  <2> QED BY <2>1 DEF StartMiss
<1>4. PICK y \in MissType, st \in {"TO_SHARED", "TO_MODIFIED"} : y = x[4] /\ st = x[3]
  BY DEF MissType
<1>5. Tag(FALSE, st) \in [fl : BOOLEAN, st : LineStatus \cup ShadStatus] /\ Tag(FALSE, st).st = st
  BY DEF Tag, LineStatus
<1>6. LinesSame /\ ln' \in [Line -> LineInfo]
  BY <1>1, <1>3, <1>4, <1>5, WordStep
<1>7. /\ th'[t] = [th[t] EXCEPT !.pc = "recv", !.kind = y, !.line = p, !.hit = FALSE]
      /\ \A u \in Thread : u # t => th'[u] = th[u]
      /\ th' \in [Thread -> Registers]
  <2>1. th' = [th EXCEPT ![t] = [th[t] EXCEPT !.pc = "recv", !.kind = y, !.line = p, !.hit = FALSE]]
    BY <1>3, <1>4
  <2>2. "recv" \in ThreadPc
    BY DEF ThreadPc
  <2>3. [th[t] EXCEPT !.pc = "recv", !.kind = y, !.line = p, !.hit = FALSE] \in Registers
    BY <1>1, <2>2 DEF Registers
  <2> QED BY <1>1, <2>1, <2>3, NewRegisters
<1>8. /\ th'[t].pc = "recv" /\ th'[t].line = p /\ th'[t].next = th[t].next /\ th'[t].cur = th[t].cur
      /\ th'[t].msg = th[t].msg /\ th'[t].block = th[t].block
  BY <1>1, <1>7 DEF Registers
<1>9. Plain(t) /\ p # None
  BY <1>2, <1>7, <1>8, SetCacheAssumption DEF Plain
<1>10. Inner(t)
  BY <1>2, <1>6 DEF Inner
<1>11. PICK r : r = Request(t, y, p, th[t].block)
  OBVIOUS
<1>12. r.thread = t /\ r.type = y /\ r.block = th[t].block /\ r.data = ln[p].data /\ net' = net \cup {r}
  BY <1>3, <1>4, <1>11, RequestIs
<1>13. th[t].block \in Block \cup {None} /\ ln[p].data \in Buffer \cup {None}
  BY <1>1 DEF Registers, LineInfo
<1>14. r \in [thread : Thread, type : MissType \cup EvictType, block : Block \cup {None}, data : Buffer \cup {None}]
  BY <1>11, <1>13 DEF Request
<1>15. TypeOK'
  BY <1>1, <1>2, <1>6, <1>7, <1>12, <1>14 DEF TypeOK
<1>16. MailOK(t)
  BY DEF SetInv, ThreadOK
<1>17. r.block \notin Busy(t)
  <2>1. ASSUME NEW s \in Line PROVE ~Evicts(t, th[t].block, s)
    BY <1>2, FoundIs DEF Evicts
  <2> QED BY <1>2, <1>12, <1>16, <2>1 DEF MailOK
<1>18. Once(t)' /\ Busy(t)' = Busy(t) \cup {th[t].block}
  BY <1>2, <1>8, <1>12, <1>17, AskedMore
<1>19. Holds(t, None)
  BY <1>10, InnerHolds
<1>20. \A s \in Line : \A b : Evicts(t, b, s) => Evicts(t, b, s)' /\ ln'[s].data = ln[s].data
  BY <1>19, EvictsKept, SetCacheAssumption
<1>21. \A b \in Busy(t)' : (\E s \in Line : Evicts(t, b, s)') \/ (th'[t].pc \in {"recv", "assert"} /\ b = th'[t].block)
  BY <1>2, <1>8, <1>16, <1>18, <1>20 DEF MailOK
<1>22. \A q \in net' : q.thread = t /\ q.type \in EvictType => q \in net
  BY <1>12 DEF MissType, EvictType
<1>23. MailOK(t)'
  <2>1. \A q \in net' : q.thread = t /\ q.type \in EvictType =>
       \E s \in Line : Evicts(t, q.block, s)' /\ ln'[s].data = q.data
    BY <1>16, <1>20, <1>22 DEF MailOK
  <2> QED BY <1>8, <1>21, <2>1 DEF MailOK
<1>24. OwnOK(t)' /\ OwnStep(t)
  BY <1>9, <1>19, PlainOwn
<1>25. FoundOK(t)'
  BY <1>8, <1>9 DEF FoundOK
<1>26. MailStep(t)
  BY <1>2, <1>7, <1>12 DEF MailStep
<1> QED BY <1>10, <1>15, <1>18, <1>23, <1>24, <1>25, <1>26, InnerKeeps DEF ThreadOK

\* The head of a ring is taken out.
LEMMA RingTail ==
  ASSUME SetInv, NEW t \in Thread, ring[t] # <<>>, ring' = [ring EXCEPT ![t] = Tail(@)]
  PROVE  /\ Head(ring[t]) \in Answer /\ Head(ring[t]).block \in Blocks(ring[t])
         /\ ring' \in [Thread -> Seq(Answer)] /\ \A u \in Thread : u # t => ring'[u] = ring[u]
         /\ Blocks(ring[t])' = Blocks(ring[t]) \ {Head(ring[t]).block} /\ Differ(ring[t])'
<1>1. ring \in [Thread -> Seq(Answer)] /\ ring[t] \in Seq(Answer) /\ Differ(ring[t])
  BY DEF SetInv, TypeOK, ThreadOK, Once
<1>2. Tail(ring[t]) \in Seq(Answer) /\ Head(ring[t]) \in Answer
  BY <1>1, Tailed
<1>3. ring'[t] = Tail(ring[t]) /\ (\A u \in Thread : u # t => ring'[u] = ring[u]) /\ ring' \in [Thread -> Seq(Answer)]
  BY <1>1, <1>2
<1>4. /\ Differ(Tail(ring[t])) /\ Blocks(Tail(ring[t])) = Blocks(ring[t]) \ {Head(ring[t]).block}
      /\ Head(ring[t]).block \in Blocks(ring[t])
  BY <1>1, BlocksTailed
<1>5. Blocks(ring[t])' = Blocks(Tail(ring[t])) /\ (Differ(ring[t])' <=> Differ(Tail(ring[t])))
  BY <1>3 DEF Blocks, Differ
<1> QED BY <1>2, <1>3, <1>4, <1>5

LEMMA StepReceive ==
  ASSUME SetInv, NEW t \in Thread, Receive(t)
  PROVE  SetInv'
<1>1. th \in [Thread -> Registers] /\ TypeOK /\ th[t] \in Registers /\ Once(t) /\ MailOK(t)
  BY DEF SetInv, TypeOK, ThreadOK
<1>2. UNCHANGED <<ln, readers, writer, pool, net, home, agent>> /\ th[t].pc = "recv"
  BY DEF Receive, lineVars, envVars, agentVars
<1>3. PICK m : m = Head(ring[t])
  OBVIOUS
<1>4. /\ m \in Answer /\ m.block \in Blocks(ring[t])
      /\ ring' \in [Thread -> Seq(Answer)] /\ \A u \in Thread : u # t => ring'[u] = ring[u]
      /\ Blocks(ring[t])' = Blocks(ring[t]) \ {m.block} /\ Differ(ring[t])'
  BY <1>3, RingTail DEF Receive
<1>5. PICK k : k = IF m.block # th[t].block /\ Stash(t, m) THEN m ELSE th[t].msg
  OBVIOUS
<1>6. k \in Answer \cup {None} /\ (k = m \/ k = th[t].msg)
  BY <1>1, <1>4, <1>5 DEF Registers
<1>7. PICK l : l = Outcome(t, m)
  OBVIOUS
<1>8. l \in {"won", "fail", "spin", "recv", "assert"} /\ (l \in {"recv", "assert"} \/ (m.block = th[t].block /\ k = th[t].msg))
  <2>1. CASE m.block = th[t].block
    BY <1>5, <1>7, <2>1 DEF Outcome
  <2>2. CASE m.block # th[t].block /\ Stash(t, m)
    BY <1>7, <2>2 DEF Outcome
  <2>3. CASE m.block # th[t].block /\ ~Stash(t, m)
    BY <1>7, <2>3 DEF Outcome
  <2> QED BY <2>1, <2>2, <2>3
<1>9. /\ th'[t] = [th[t] EXCEPT !.pc = l, !.msg = k]
      /\ \A u \in Thread : u # t => th'[u] = th[u]
      /\ th' \in [Thread -> Registers]
  <2>1. th' = [th EXCEPT ![t] = [th[t] EXCEPT !.pc = l, !.msg = k]]
    BY <1>3, <1>5, <1>7 DEF Receive
  <2>2. l \in ThreadPc
    BY <1>8 DEF ThreadPc
  <2>3. [th[t] EXCEPT !.pc = l, !.msg = k] \in Registers
    BY <1>1, <1>6, <2>2 DEF Registers
  <2> QED BY <1>1, <2>1, <2>3, NewRegisters
<1>10. /\ th'[t].pc = l /\ th'[t].line = th[t].line /\ th'[t].next = th[t].next /\ th'[t].cur = th[t].cur
       /\ th'[t].msg = k /\ th'[t].block = th[t].block
  BY <1>1, <1>9 DEF Registers
<1>11. Plain(t) /\ th[t].line # None
  BY <1>1, <1>2, <1>8, <1>9, <1>10 DEF Plain, SetInv, ThreadOK, FoundOK
<1>12. Inner(t) /\ LinesSame
  BY <1>2, Unchanged DEF Inner
<1>13. TypeOK'
  BY <1>1, <1>2, <1>4, <1>9 DEF TypeOK
<1>14. Asked(t)' = Asked(t) /\ (Kept(t)' = Kept(t) \/ Kept(t)' \subseteq {m.block}) /\ (k = th[t].msg => Kept(t)' = Kept(t))
  BY <1>2, <1>6, <1>10 DEF Asked, Kept
<1>15. m.block \notin Asked(t) /\ m.block \notin Kept(t)
  BY <1>1, <1>4 DEF Once
<1>16. Once(t)'
  BY <1>1, <1>2, <1>4, <1>14, <1>15 DEF Once
<1>17. \A b \in Busy(t)' : b \in Busy(t) /\ (b = m.block => k # th[t].msg)
  BY <1>4, <1>14, <1>15 DEF Busy
<1>18. \A s \in Line : \A b : Evicts(t, b, s)' <=> Evicts(t, b, s)
  BY <1>2 DEF Evicts, Alive
<1>19. \A b \in Busy(t)' : (\E s \in Line : Evicts(t, b, s)') \/ (th'[t].pc \in {"recv", "assert"} /\ b = th'[t].block)
  <2> SUFFICES ASSUME NEW b \in Busy(t)'
               PROVE  (\E s \in Line : Evicts(t, b, s)') \/ (l \in {"recv", "assert"} /\ b = th[t].block)
    BY <1>10
  <2>1. (\E s \in Line : Evicts(t, b, s)) \/ b = th[t].block
    BY <1>1, <1>17 DEF MailOK
  <2> QED BY <1>8, <1>17, <1>18, <2>1
<1>20. MailOK(t)'
  BY <1>1, <1>2, <1>8, <1>10, <1>18, <1>19 DEF MailOK
<1>21. Holds(t, None)
  BY <1>12, InnerHolds
<1>22. OwnOK(t)' /\ OwnStep(t)
  BY <1>11, <1>21, PlainOwn
<1>23. FoundOK(t)'
  BY <1>8, <1>10, <1>11 DEF FoundOK
<1>24. MailStep(t)
  BY <1>2, <1>4, <1>9 DEF MailStep
<1> QED BY <1>12, <1>13, <1>16, <1>20, <1>22, <1>23, <1>24, InnerKeeps DEF ThreadOK

\* A step of t that takes or releases the lock of a line and neither sends nor
\* receives.
LEMMA LockKeeps ==
  ASSUME SetInv, NEW t \in Thread, Plain(t), UNCHANGED <<ln, pool, ring, net, home, agent>>, LockStep(t),
         readers' \in [Line -> SUBSET Thread], writer' \in [Line -> SUBSET Thread], LocksOK', Holds(t, None),
         th'[t].msg = th[t].msg, th[t].pc # "recv", th[t].pc # "assert", FoundOK(t)'
  PROVE  SetInv'
<1>1. LinesSame
  BY Unchanged
<1>2. LinesOK' /\ BuffersOK'
  BY <1>1, LinesKept
<1>3. TypeOK'
  BY DEF SetInv, TypeOK, Plain
<1>4. OwnOK(t)' /\ OwnStep(t)
  BY PlainOwn
<1>5. Once(t)' /\ MailOK(t)'
  BY MailSame DEF Plain
<1>6. MailStep(t) /\ LineStep(t)
  BY <1>1 DEF MailStep, Plain, LineStep, LinesSame
<1> QED BY <1>2, <1>3, <1>4, <1>5, <1>6, StepKeeps DEF ThreadOK, StepOf

LEMMA StepCheck ==
  ASSUME SetInv, NEW t \in Thread, Check(t)
  PROVE  SetInv'
<1>1. th \in [Thread -> Registers] /\ TypeOK /\ th[t] \in Registers /\ FoundOK(t) /\ LocksOK
  BY DEF SetInv, TypeOK, ThreadOK
<1>2. UNCHANGED <<ln, pool, ring, net, home, agent>> /\ th[t].pc = "check"
  BY DEF Check, envVars, agentVars
<1>3. PICK p \in Line : p = th[t].line
  BY <1>1, <1>2, RegistersTyped DEF FoundOK
<1>4. Lock(t, p) /\ readers \in [Line -> SUBSET Thread] /\ writer \in [Line -> SUBSET Thread]
  BY <1>1, <1>3 DEF Check, TypeOK
<1>5. CASE ln[p].word.st \notin Usable(th[t].op)
  <2>1. Goto(t, "waitEvict") /\ UNCHANGED <<readers, writer>>
    BY <1>3, <1>5 DEF Check
  <2> QED BY <1>2, <2>1, GotoKeeps DEF ThreadPc
<1>6. CASE ln[p].word.st \in Usable(th[t].op)
  <2>1. /\ th' = [th EXCEPT ![t].pc = "load", ![t].succ = TRUE]
        /\ IF Exclusive(t) THEN writer' = [writer EXCEPT ![p] = {t}] /\ UNCHANGED readers
           ELSE readers' = [readers EXCEPT ![p] = @ \cup {t}] /\ UNCHANGED writer
    BY <1>3, <1>6 DEF Check
  <2>2. /\ th'[t] = [th[t] EXCEPT !.pc = "load", !.succ = TRUE]
        /\ \A u \in Thread : u # t => th'[u] = th[u]
        /\ th' \in [Thread -> Registers]
    <3>1. th' = [th EXCEPT ![t] = [th[t] EXCEPT !.pc = "load", !.succ = TRUE]]
      BY <2>1
    <3>2. "load" \in ThreadPc
      BY DEF ThreadPc
    <3>3. [th[t] EXCEPT !.pc = "load", !.succ = TRUE] \in Registers
      BY <1>1, <3>2 DEF Registers
    <3> QED BY <1>1, <3>1, <3>3, NewRegisters
  <2>3. /\ th'[t].pc = "load" /\ th'[t].line = p /\ th'[t].op = th[t].op /\ th'[t].next = th[t].next
        /\ th'[t].cur = th[t].cur /\ th'[t].msg = th[t].msg
    BY <1>1, <1>3, <2>2 DEF Registers
  <2>4. Plain(t)
    BY <1>2, <2>2, <2>3 DEF Plain
  <2>5. (Exclusive(t)' <=> Exclusive(t)) /\ (Exclusive(t) => p[1] = "set") /\ p # None
    BY <1>3, <2>3, SetCacheAssumption DEF Exclusive
  <2>6. CASE Exclusive(t)
    <3>1. /\ writer[p] = {} /\ readers[p] = {} /\ writer'[p] = {t} /\ readers' = readers
          /\ \A q \in Line : q # p => writer'[q] = writer[q]
          /\ writer' \in [Line -> SUBSET Thread]
      BY <1>4, <2>1, <2>6 DEF Lock
    <3>2. LockStep(t) /\ Holds(t, None)
      BY <1>2, <2>5, <2>6, <3>1, Unchanged DEF LockStep, Holds, LinesSame
    <3>3. LocksOK'
      BY <1>1, <1>2, <2>5, <2>6, <3>1 DEF LocksOK, Alive
    <3>4. FoundOK(t)'
      BY <2>3, <2>5, <2>6, <3>1 DEF FoundOK
    <3> QED BY <1>2, <1>4, <2>3, <2>4, <3>1, <3>2, <3>3, <3>4, LockKeeps
  <2>7. CASE ~Exclusive(t)
    <3>1. /\ writer[p] = {} /\ readers'[p] = readers[p] \cup {t} /\ writer' = writer
          /\ \A q \in Line : q # p => readers'[q] = readers[q]
          /\ readers' \in [Line -> SUBSET Thread]
      BY <1>4, <2>1, <2>7 DEF Lock
    <3>2. LockStep(t) /\ Holds(t, None)
      BY <1>2, <3>1, Unchanged DEF LockStep, Holds, LinesSame
    <3>3. LocksOK'
      BY <1>1, <1>2, <3>1 DEF LocksOK, Alive
    <3>4. FoundOK(t)'
      BY <2>3, <2>5, <2>7, <3>1 DEF FoundOK
    <3> QED BY <1>2, <1>4, <2>3, <2>4, <3>1, <3>2, <3>3, <3>4, LockKeeps
  <2> QED BY <2>6, <2>7
<1> QED BY <1>5, <1>6

LEMMA StepLoad ==
  ASSUME SetInv, NEW t \in Thread, Load(t)
  PROVE  SetInv'
<1>1. th \in [Thread -> Registers] /\ TypeOK /\ th[t] \in Registers /\ FoundOK(t) /\ LocksOK
  BY DEF SetInv, TypeOK, ThreadOK
<1>2. UNCHANGED <<ln, readers, writer, pool, ring, net, home, agent>> /\ th[t].pc = "load"
  BY DEF Load, lineVars, envVars, agentVars
<1>3. PICK p \in Line : p = th[t].line
  BY <1>1, <1>2, RegistersTyped DEF FoundOK
<1>4. PICK d \in Buffer \cup {None} : d = ln[p].data
  BY <1>1 DEF TypeOK, LineInfo
<1>5. /\ th'[t] = [th[t] EXCEPT !.pc = "copy", !.buf = d]
      /\ \A u \in Thread : u # t => th'[u] = th[u]
      /\ th' \in [Thread -> Registers]
  <2>1. th' = [th EXCEPT ![t] = [th[t] EXCEPT !.pc = "copy", !.buf = d]]
    BY <1>1, <1>3, <1>4 DEF Load
  <2>2. "copy" \in ThreadPc
    BY DEF ThreadPc
  <2>3. [th[t] EXCEPT !.pc = "copy", !.buf = d] \in Registers
    BY <1>1, <2>2 DEF Registers
  <2> QED BY <1>1, <2>1, <2>3, NewRegisters
<1>6. /\ th'[t].pc = "copy" /\ th'[t].line = th[t].line /\ th'[t].op = th[t].op
      /\ th'[t].next = th[t].next /\ th'[t].cur = th[t].cur /\ th'[t].msg = th[t].msg
  BY <1>1, <1>5 DEF Registers
<1>7. Plain(t)
  BY <1>2, <1>5, <1>6 DEF Plain
<1>8. FoundOK(t)'
  BY <1>1, <1>2, <1>6 DEF FoundOK, Exclusive
<1>9. LockStep(t) /\ Holds(t, None)
  BY <1>2, Unchanged DEF LockStep, Holds, LinesSame
<1>10. LocksOK'
  BY <1>1, <1>2 DEF LocksOK, Alive
<1>11. readers' \in [Line -> SUBSET Thread] /\ writer' \in [Line -> SUBSET Thread]
  BY <1>1, <1>2 DEF TypeOK
<1> QED BY <1>2, <1>6, <1>7, <1>8, <1>9, <1>10, <1>11, LockKeeps

LEMMA StepCopyData ==
  ASSUME SetInv, NEW t \in Thread, CopyData(t)
  PROVE  SetInv'
<1>1. th \in [Thread -> Registers] /\ TypeOK /\ th[t] \in Registers /\ FoundOK(t) /\ LocksOK
  BY DEF SetInv, TypeOK, ThreadOK
<1>2. UNCHANGED <<ln, pool, ring, net, home, agent>> /\ th[t].pc = "copy"
  BY DEF CopyData, envVars, agentVars
<1>3. PICK p \in Line : p = th[t].line
  BY <1>1, <1>2, RegistersTyped DEF FoundOK
<1>4. readers \in [Line -> SUBSET Thread] /\ writer \in [Line -> SUBSET Thread]
  BY <1>1 DEF TypeOK
<1>5. /\ readers'[p] = readers[p] \ {t} /\ writer'[p] = writer[p] \ {t}
      /\ \A q \in Line : q # p => readers'[q] = readers[q] /\ writer'[q] = writer[q]
      /\ readers' \in [Line -> SUBSET Thread] /\ writer' \in [Line -> SUBSET Thread]
  BY <1>3, <1>4 DEF CopyData
<1>6. PICK l \in {"idle", "waitEvict"} : th' = [th EXCEPT ![t].pc = l, ![t].hit = FALSE, ![t].line = None,
                                                     ![t].buf = None]
  BY DEF CopyData
<1>7. /\ th'[t] = [th[t] EXCEPT !.pc = l, !.hit = FALSE, !.line = None, !.buf = None]
      /\ \A u \in Thread : u # t => th'[u] = th[u]
      /\ th' \in [Thread -> Registers]
  <2>1. th' = [th EXCEPT ![t] = [th[t] EXCEPT !.pc = l, !.hit = FALSE, !.line = None, !.buf = None]]
    BY <1>6
  <2>2. l \in ThreadPc
    BY DEF ThreadPc
  <2>3. [th[t] EXCEPT !.pc = l, !.hit = FALSE, !.line = None, !.buf = None] \in Registers
    BY <1>1, <2>2 DEF Registers
  <2> QED BY <1>1, <2>1, <2>3, NewRegisters
<1>8. th'[t].pc = l /\ th'[t].next = th[t].next /\ th'[t].cur = th[t].cur /\ th'[t].msg = th[t].msg
  BY <1>1, <1>7 DEF Registers
<1>9. Plain(t) /\ FoundOK(t)'
  BY <1>2, <1>7, <1>8 DEF Plain, FoundOK
<1>10. p[1] = "set" \/ writer[p] = {}
  BY <1>1, <1>2, <1>3 DEF FoundOK, Exclusive, LocksOK
<1>11. LockStep(t) /\ Holds(t, None)
  BY <1>2, <1>5, <1>10, Unchanged DEF LockStep, Holds, LinesSame
<1>12. LocksOK'
  BY <1>1, <1>2, <1>5 DEF LocksOK, Alive
<1> QED BY <1>2, <1>5, <1>8, <1>9, <1>11, <1>12, LockKeeps

------------------------------------------------------------------------------
(* Steps of an eviction that keep the line *)

LEMMA StepUndoEvict ==
  ASSUME SetInv, NEW t \in Thread, UndoEvict(t)
  PROVE  SetInv'
<1>1. th \in [Thread -> Registers] /\ TypeOK /\ th[t] \in Registers /\ OwnOK(t) /\ MailOK(t)
  BY DEF SetInv, TypeOK, ThreadOK
<1>2. UNCHANGED <<readers, writer, pool, ring, net, home, agent>> /\ th[t].pc = "undo"
  BY DEF UndoEvict, envVars, agentVars
<1>3. PICK p \in Line : p = th[t].cur
  BY <1>1, <1>2, RegistersTyped DEF OwnOK
<1>4. p[1] = "shadow" /\ Alive(p) /\ writer[p] = {t} /\ ln[p].tag \notin Busy(t) /\ p # None
  BY <1>1, <1>2, <1>3, SetCacheAssumption DEF OwnOK, MailOK
<1>5. PICK st \in {"SHARED", "MODIFIED", "INVALID"} : ln' = [ln EXCEPT ![p].word = Tag(FALSE, st)]
  BY <1>3 DEF UndoEvict
<1>6. Tag(FALSE, st) \in [fl : BOOLEAN, st : LineStatus \cup ShadStatus] /\ Tag(FALSE, st).st = st
  BY DEF Tag, LineStatus
<1>7. LinesSame /\ ln' \in [Line -> LineInfo]
  BY <1>1, <1>4, <1>5, <1>6, WordStep
<1>8. /\ th'[t] = [th[t] EXCEPT !.pc = "again", !.next = p]
      /\ \A u \in Thread : u # t => th'[u] = th[u]
      /\ th' \in [Thread -> Registers]
  <2>1. th' = [th EXCEPT ![t] = [th[t] EXCEPT !.pc = "again", !.next = p]]
    BY <1>3 DEF UndoEvict
  <2>2. "again" \in ThreadPc
    BY DEF ThreadPc
  <2>3. [th[t] EXCEPT !.pc = "again", !.next = p] \in Registers
    BY <1>1, <2>2 DEF Registers
  <2> QED BY <1>1, <2>1, <2>3, NewRegisters
<1>9. th'[t].pc = "again" /\ th'[t].next = p /\ th'[t].cur = p /\ th'[t].msg = th[t].msg
  BY <1>1, <1>3, <1>8 DEF Registers
<1>10. Inner(t)
  BY <1>2, <1>7 DEF Inner
<1>11. TypeOK'
  BY <1>1, <1>2, <1>7, <1>8 DEF TypeOK
<1>12. Alive(p)' /\ ln'[p].tag = ln[p].tag /\ writer'[p] = {t}
  BY <1>2, <1>4, <1>7 DEF LinesSame, SameLine
<1>13. OwnOK(t)' /\ OwnStep(t) /\ FoundOK(t)'
  BY <1>3, <1>4, <1>9, <1>12 DEF OwnOK, OwnStep, FoundOK, Alive
<1>14. Once(t)' /\ MailOK(t)'
  <2>1. Holds(t, None)
    BY <1>10, InnerHolds
  <2>2. th'[t].pc \in {"undo", "evictSpin", "again"} => ln'[th'[t].cur].tag \notin Busy(t)
    BY <1>4, <1>9, <1>12
  <2> QED BY <1>2, <1>9, <2>1, <2>2, MailSame
<1>15. MailStep(t)
  BY <1>2, <1>8 DEF MailStep
<1> QED BY <1>10, <1>11, <1>13, <1>14, <1>15, InnerKeeps DEF ThreadOK

\* start_evict moves the line to TO_PRESERVED.
LEMMA StepMoveEvict ==
  ASSUME SetInv, NEW t \in Thread, StartEvict(t), th[t].next # None, ln[th[t].next].word.st # "INVALID"
  PROVE  SetInv'
<1>1. th \in [Thread -> Registers] /\ TypeOK /\ th[t] \in Registers /\ OwnOK(t) /\ ln \in [Line -> LineInfo]
  BY DEF SetInv, TypeOK, ThreadOK
<1>2. UNCHANGED <<readers, writer, pool, ring, net, home, agent>> /\ th[t].pc \in {"start", "again"}
  BY DEF StartEvict, envVars, agentVars
<1>3. PICK p \in Line : p = th[t].next
  BY <1>1, RegistersTyped
<1>4. p[1] = "shadow" /\ Alive(p) /\ p # None
  BY <1>1, <1>2, <1>3 DEF OwnOK
<1>5. PICK w : w = [ln[p].word EXCEPT !.st = "TO_PRESERVED"]
  OBVIOUS
<1>6. w \in [fl : BOOLEAN, st : LineStatus \cup ShadStatus] /\ w.st = "TO_PRESERVED"
  BY <1>1, <1>5 DEF LineInfo, ShadStatus
<1>7. ln' = [ln EXCEPT ![p].word = w]
  <2>1. ln' = [ln EXCEPT ![p].word.st = "TO_PRESERVED"]
    BY <1>3 DEF StartEvict
  <2> QED BY <1>1, <1>5, <2>1 DEF LineInfo
<1>8. LinesSame /\ ln' \in [Line -> LineInfo]
  BY <1>1, <1>4, <1>6, <1>7, WordStep
<1>9. PICK i \in BOOLEAN, e \in EvictType :
        th' = [th EXCEPT ![t].pc = "evictLock", ![t].next = None, ![t].cur = p, ![t].inWait = i, ![t].evType = e]
  BY <1>3 DEF StartEvict, EvictType
<1>10. /\ th'[t] = [th[t] EXCEPT !.pc = "evictLock", !.next = None, !.cur = p, !.inWait = i, !.evType = e]
       /\ \A u \in Thread : u # t => th'[u] = th[u]
       /\ th' \in [Thread -> Registers]
  <2>1. th' = [th EXCEPT ![t] = [th[t] EXCEPT !.pc = "evictLock", !.next = None, !.cur = p, !.inWait = i, !.evType = e]]
    BY <1>9
  <2>2. "evictLock" \in ThreadPc
    BY DEF ThreadPc
  <2>3. [th[t] EXCEPT !.pc = "evictLock", !.next = None, !.cur = p, !.inWait = i, !.evType = e] \in Registers
    BY <1>1, <2>2 DEF Registers
  <2> QED BY <1>1, <2>1, <2>3, NewRegisters
<1>11. th'[t].pc = "evictLock" /\ th'[t].next = None /\ th'[t].cur = p /\ th'[t].evType = e /\ th'[t].msg = th[t].msg
  BY <1>1, <1>10 DEF Registers
<1>12. Inner(t)
  BY <1>2, <1>8 DEF Inner
<1>13. TypeOK'
  BY <1>1, <1>2, <1>8, <1>10 DEF TypeOK
<1>14. Alive(p)'
  BY <1>4, <1>8 DEF LinesSame, SameLine
<1>15. OwnOK(t)' /\ OwnStep(t) /\ FoundOK(t)'
  BY <1>3, <1>4, <1>11, <1>14 DEF OwnOK, OwnStep, FoundOK, Alive
<1>16. Once(t)' /\ MailOK(t)'
  BY <1>2, <1>11, <1>12, InnerHolds, MailSame
<1>17. MailStep(t)
  BY <1>2, <1>10 DEF MailStep
<1> QED BY <1>12, <1>13, <1>15, <1>16, <1>17, InnerKeeps DEF ThreadOK

LEMMA StepSendEvict ==
  ASSUME SetInv, NEW t \in Thread, SendEvict(t)
  PROVE  SetInv'
<1>1. /\ th \in [Thread -> Registers] /\ TypeOK /\ th[t] \in Registers /\ OwnOK(t) /\ MailOK(t) /\ LocksOK /\ LinesOK
      /\ ln \in [Line -> LineInfo] /\ writer \in [Line -> SUBSET Thread]
  BY DEF SetInv, TypeOK, ThreadOK
<1>2. UNCHANGED <<ln, readers, pool, ring, home, agent>> /\ th[t].pc = "evictLock"
  BY DEF SendEvict, agentVars
<1>3. PICK p \in Line : p = th[t].cur
  BY <1>1, <1>2, RegistersTyped DEF OwnOK
<1>4. PICK e \in EvictType : e = th[t].evType
  BY <1>1, <1>2 DEF OwnOK
<1>5. /\ p[1] = "shadow" /\ Alive(p) /\ p # None /\ writer[p] = {} /\ readers[p] = {} /\ th[t].next = None
  BY <1>1, <1>2, <1>3, SetCacheAssumption DEF OwnOK, SendEvict, EvictFree
<1>6. /\ writer'[p] = {t} /\ writer' \in [Line -> SUBSET Thread]
      /\ \A q \in Line : q # p => writer'[q] = writer[q]
  BY <1>1, <1>3 DEF SendEvict
<1>7. PICK r : r = Request(t, e, p, ln[p].tag)
  OBVIOUS
<1>8. r.thread = t /\ r.type = e /\ r.block = ln[p].tag /\ r.data = ln[p].data /\ net' = net \cup {r}
  BY <1>3, <1>4, <1>7, RequestIs DEF SendEvict
<1>9. r \in [thread : Thread, type : MissType \cup EvictType, block : Block \cup {None}, data : Buffer \cup {None}]
  <2>1. ln[p].tag \in Block \cup {None} /\ ln[p].data \in Buffer \cup {None}
    BY <1>1 DEF LineInfo
  <2> QED BY <1>7, <2>1 DEF Request
<1>10. PICK l \in {"waitEvict", "look"} : th' = [th EXCEPT ![t].pc = l]
  BY DEF SendEvict, Goto
<1>11. /\ th'[t] = [th[t] EXCEPT !.pc = l]
       /\ \A u \in Thread : u # t => th'[u] = th[u]
       /\ th' \in [Thread -> Registers]
  <2>1. th' = [th EXCEPT ![t] = [th[t] EXCEPT !.pc = l]]
    BY <1>10
  <2>2. l \in ThreadPc
    BY DEF ThreadPc
  <2>3. [th[t] EXCEPT !.pc = l] \in Registers
    BY <1>1, <2>2 DEF Registers
  <2> QED BY <1>1, <2>1, <2>3, NewRegisters
<1>12. th'[t].pc = l /\ th'[t].next = None /\ th'[t].cur = p /\ th'[t].msg = th[t].msg
  BY <1>1, <1>3, <1>5, <1>11 DEF Registers
<1>13. TypeOK'
  BY <1>1, <1>2, <1>6, <1>8, <1>9, <1>11 DEF TypeOK
<1>14. LinesSame /\ LinesOK' /\ BuffersOK'
  BY <1>2, Unchanged, LinesKept
<1>15. LocksOK'
  BY <1>1, <1>2, <1>5, <1>6 DEF LocksOK, Alive
<1>16. LineStep(t) /\ LockStep(t) /\ Holds(t, None)
  BY <1>2, <1>3, <1>5, <1>6, <1>14 DEF LineStep, LockStep, Holds, LinesSame
<1>17. MailStep(t) /\ OwnStep(t)
  BY <1>2, <1>3, <1>8, <1>11, <1>12 DEF MailStep, OwnStep
<1>18. Alive(p)' /\ ln'[p].tag = ln[p].tag /\ ln'[p].data = ln[p].data
  BY <1>5, <1>14 DEF LinesSame, SameLine
<1>19. OwnOK(t)' /\ FoundOK(t)'
  BY <1>5, <1>6, <1>12, <1>18 DEF OwnOK, FoundOK, Alive
<1>20. r.block \notin Busy(t)
  <2>1. ASSUME NEW s \in Line PROVE ~Evicts(t, r.block, s)
    BY <1>1, <1>5, <1>8 DEF Evicts, LinesOK
  <2> QED BY <1>1, <1>2, <2>1 DEF MailOK
<1>21. Once(t)' /\ Busy(t)' = Busy(t) \cup {r.block}
  BY <1>2, <1>8, <1>12, <1>20, AskedMore
<1>22. \A s \in Line : \A b : Evicts(t, b, s) => Evicts(t, b, s)' /\ ln'[s].data = ln[s].data
  BY <1>16, EvictsKept, SetCacheAssumption
<1>23. Evicts(t, r.block, p)' /\ ln'[p].data = r.data
  BY <1>5, <1>6, <1>8, <1>18 DEF Evicts
<1>24. \A b \in Busy(t)' : \E s \in Line : Evicts(t, b, s)'
  BY <1>1, <1>2, <1>21, <1>22, <1>23 DEF MailOK
<1>25. \A q \in net' : q.thread = t /\ q.type \in EvictType =>
         \E s \in Line : Evicts(t, q.block, s)' /\ ln'[s].data = q.data
  <2> SUFFICES ASSUME NEW q \in net', q.thread = t, q.type \in EvictType
               PROVE  \E s \in Line : Evicts(t, q.block, s)' /\ ln'[s].data = q.data
    OBVIOUS
  <2>1. CASE q = r
    BY <1>23, <2>1
  <2>2. CASE q \in net
    BY <1>1, <1>22, <2>2 DEF MailOK
  <2> QED BY <1>8, <2>1, <2>2
<1>26. MailOK(t)'
  BY <1>12, <1>24, <1>25 DEF MailOK
<1> QED BY <1>13, <1>14, <1>15, <1>16, <1>17, <1>19, <1>21, <1>26, StepKeeps DEF ThreadOK, StepOf

------------------------------------------------------------------------------
(* A shadow line is given back *)

\* t frees line x, and its buffer goes to the stack of t.
Freed(t, x) ==
  /\ pool' = [pool EXCEPT ![t] = Append(@, ln[x].data)]
  /\ ln' = [ln EXCEPT ![x] = FreeLine]
  /\ writer' = [writer EXCEPT ![x] = @ \ {t}]
  /\ readers' = readers

LEMMA FreedLines ==
  ASSUME SetInv, NEW t \in Thread, NEW x \in Line, x[1] = "shadow", Alive(x), writer[x] \subseteq {t},
         x \in {th[t].next, th[t].cur}, Freed(t, x)
  PROVE  /\ LinesOK' /\ BuffersOK' /\ LocksOK' /\ LineStep(t) /\ LockStep(t) /\ Holds(t, x)
         /\ ln' \in [Line -> LineInfo] /\ pool' \in [Thread -> Seq(Buffer)] /\ writer' \in [Line -> SUBSET Thread]
<1>1. /\ ln \in [Line -> LineInfo] /\ pool \in [Thread -> Seq(Buffer)] /\ writer \in [Line -> SUBSET Thread]
      /\ LinesOK /\ BuffersOK /\ LocksOK
  BY DEF SetInv, TypeOK
<1>2. None \notin Buffer
  BY SetCacheAssumption
<1>3. PICK d \in Buffer : d = ln[x].data
  BY <1>1 DEF LinesOK, LineInfo
<1>4. FreeLine \in LineInfo /\ FreeLine.word.st = "PRESERVED" /\ FreeLine.data = None
  BY DEF FreeLine, LineInfo, Tag, ShadStatus
<1>5. ln'[x] = FreeLine /\ (\A p \in Line : p # x => ln'[p] = ln[p]) /\ ln' \in [Line -> LineInfo]
  BY <1>1, <1>4 DEF Freed
<1>6. /\ writer'[x] = {} /\ (\A p \in Line : p # x => writer'[p] = writer[p])
      /\ writer'[x] = writer[x] \ {t} /\ writer' \in [Line -> SUBSET Thread]
  BY <1>1 DEF Freed
<1>7. ~Alive(x)' /\ ln'[x].data = None /\ \A p \in Line : p # x => SameLine(p)
  BY <1>4, <1>5 DEF Alive, SameLine
<1>8. /\ Append(pool[t], d) \in Seq(Buffer) /\ Len(pool[t]) \in Nat
      /\ DOMAIN pool[t] = 1 .. Len(pool[t]) /\ DOMAIN Append(pool[t], d) = 1 .. Len(pool[t]) + 1
      /\ \A i \in 1 .. Len(pool[t]) : Append(pool[t], d)[i] = pool[t][i]
      /\ Append(pool[t], d)[Len(pool[t]) + 1] = d
  BY <1>1, Appended
<1>9. pool'[t] = Append(pool[t], d) /\ (\A u \in Thread : u # t => pool'[u] = pool[u]) /\ pool' \in [Thread -> Seq(Buffer)]
  BY <1>1, <1>3, <1>8 DEF Freed
<1>10. PICK n : n = Len(pool[t]) + 1
  OBVIOUS
<1>11. /\ n \in DOMAIN pool'[t] /\ pool'[t][n] = d
       /\ \A i \in DOMAIN pool'[t] : i = n \/ (i \in DOMAIN pool[t] /\ pool'[t][i] = pool[t][i])
       /\ \A i \in DOMAIN pool[t] : i \in DOMAIN pool'[t] /\ pool'[t][i] = pool[t][i]
  BY <1>8, <1>9, <1>10
<1>12. /\ \A u \in Thread : \A i \in DOMAIN pool[u] : i \in DOMAIN pool'[u] /\ pool'[u][i] = pool[u][i]
       /\ \A u \in Thread : \A i \in DOMAIN pool'[u] :
            (u = t /\ i = n /\ pool'[u][i] = d) \/ (i \in DOMAIN pool[u] /\ pool'[u][i] = pool[u][i])
  BY <1>9, <1>11
<1>13. LinesOK'
  <2>1. \A p \in Line : Alive(p)' => Alive(p) /\ ln'[p].tag = ln[p].tag
    BY <1>7 DEF SameLine
  <2>2. \A p \in Line : Alive(p)' <=> ln'[p].data # None
    <3> SUFFICES ASSUME NEW p \in Line PROVE Alive(p)' <=> ln'[p].data # None
      OBVIOUS
    <3>1. CASE p = x
      BY <1>7, <3>1
    <3>2. CASE p # x
      BY <1>1, <1>7, <3>2 DEF LinesOK, SameLine
    <3> QED BY <3>1, <3>2
  <2>3. \A p, q \in Line : Alive(p)' /\ Alive(q)' /\ ln'[p].tag = ln'[q].tag => p = q
    BY <1>1, <2>1 DEF LinesOK
  <2> QED BY <2>2, <2>3 DEF LinesOK
<1>14. BuffersOK'
  <2>1. \A p \in Line : p # x => ln'[p].data = ln[p].data /\ ln[p].data # d
    BY <1>1, <1>2, <1>3, <1>5 DEF BuffersOK
  <2>2. \A p, q \in Line : ln'[p].data = ln'[q].data /\ ln'[p].data # None => p = q
    BY <1>1, <1>7, <2>1 DEF BuffersOK
  <2>3. \A u \in Thread : \A i \in DOMAIN pool[u] : pool[u][i] # d /\ pool[u][i] \in Buffer
    <3>1. \A u \in Thread : \A i \in DOMAIN pool[u] : pool[u][i] # d
      BY <1>1, <1>3 DEF BuffersOK
    <3>2. \A u \in Thread : \A i \in DOMAIN pool[u] : pool[u][i] \in Buffer
      BY <1>1, ElementOfSeq, LenProperties
    <3> QED BY <3>1, <3>2
  <2>4. \A u, w \in Thread : \A i \in DOMAIN pool'[u], j \in DOMAIN pool'[w] : pool'[u][i] = pool'[w][j] => u = w /\ i = j
    <3> SUFFICES ASSUME NEW u \in Thread, NEW w \in Thread, NEW i \in DOMAIN pool'[u], NEW j \in DOMAIN pool'[w],
                        pool'[u][i] = pool'[w][j]
                 PROVE  u = w /\ i = j
      OBVIOUS
    <3>1. CASE u = t /\ i = n /\ pool'[u][i] = d
      BY <1>12, <2>3, <3>1
    <3>2. CASE w = t /\ j = n /\ pool'[w][j] = d
      BY <1>12, <2>3, <3>2
    <3>3. CASE i \in DOMAIN pool[u] /\ pool'[u][i] = pool[u][i] /\ j \in DOMAIN pool[w] /\ pool'[w][j] = pool[w][j]
      <4>1. pool[u][i] = pool[w][j]
        BY <3>3
      <4> QED BY <1>1, <3>3, <4>1 DEF BuffersOK
    <3> QED BY <1>12, <3>1, <3>2, <3>3
  <2>5. \A p \in Line, u \in Thread : \A i \in DOMAIN pool'[u] : ln'[p].data # pool'[u][i]
    <3> SUFFICES ASSUME NEW p \in Line, NEW u \in Thread, NEW i \in DOMAIN pool'[u] PROVE ln'[p].data # pool'[u][i]
      OBVIOUS
    <3>1. pool'[u][i] \in Buffer
      BY <1>3, <1>12, <2>3
    <3>2. CASE p = x
      BY <1>2, <1>7, <3>1, <3>2
    <3>3. CASE p # x
      BY <1>1, <1>12, <2>1, <3>3 DEF BuffersOK
    <3> QED BY <3>2, <3>3
  <2>6. \A b \in Buffer : \/ \E p \in Line : ln'[p].data = b
                          \/ \E u \in Thread : \E i \in DOMAIN pool'[u] : pool'[u][i] = b
    <3> SUFFICES ASSUME NEW b \in Buffer
                 PROVE  \/ \E p \in Line : ln'[p].data = b
                        \/ \E u \in Thread : \E i \in DOMAIN pool'[u] : pool'[u][i] = b
      OBVIOUS
    <3>1. CASE b = d
      BY <1>11, <3>1
    <3>2. CASE \E p \in Line : p # x /\ ln[p].data = b
      BY <2>1, <3>2
    <3>3. CASE \E u \in Thread : \E i \in DOMAIN pool[u] : pool[u][i] = b
      BY <1>12, <3>3
    <3> QED BY <1>1, <1>3, <3>1, <3>2, <3>3 DEF BuffersOK
  <2> QED BY <2>2, <2>4, <2>5, <2>6 DEF BuffersOK
<1>15. LocksOK'
  <2> SUFFICES ASSUME NEW p \in Line
               PROVE  /\ writer'[p] = {} \/ (readers'[p] = {} /\ \E u \in Thread : writer'[p] = {u})
                      /\ p[1] = "shadow" /\ ~Alive(p)' => writer'[p] = {}
    BY DEF LocksOK
  <2>1. CASE p = x
    BY <1>6, <2>1
  <2>2. CASE p # x
    BY <1>1, <1>6, <1>7, <2>2 DEF LocksOK, SameLine, Freed
  <2> QED BY <2>1, <2>2
<1>16. LineStep(t) /\ LockStep(t) /\ Holds(t, x)
  BY <1>6, <1>7 DEF LineStep, LockStep, Holds, Freed
<1> QED BY <1>5, <1>6, <1>9, <1>13, <1>14, <1>15, <1>16

\* t frees x, which nothing is under way for, and its registers forget both lines.
LEMMA FreedKeeps ==
  ASSUME SetInv, NEW t \in Thread, NEW x \in Line, x[1] = "shadow", Alive(x), writer[x] \subseteq {t},
         x \in {th[t].next, th[t].cur}, Freed(t, x), UNCHANGED <<net, home, agent>>,
         ring' \in [Thread -> Seq(Answer)], \A u \in Thread : u # t => th'[u] = th[u] /\ ring'[u] = ring[u],
         th' \in [Thread -> Registers], th'[t].next = None, th'[t].cur = None,
         th[t].pc # "recv", th[t].pc # "assert", th'[t].pc \in {"idle", "start", "look"},
         Once(t)', Busy(t)' \subseteq Busy(t), ln[x].tag \notin Busy(t)'
  PROVE  SetInv'
<1>1. /\ LinesOK' /\ BuffersOK' /\ LocksOK' /\ LineStep(t) /\ LockStep(t) /\ Holds(t, x)
      /\ ln' \in [Line -> LineInfo] /\ pool' \in [Thread -> Seq(Buffer)] /\ writer' \in [Line -> SUBSET Thread]
  BY FreedLines
<1>2. TypeOK'
  BY <1>1 DEF SetInv, TypeOK, Freed
<1>3. MailStep(t) /\ OwnStep(t)
  BY DEF MailStep, OwnStep
<1>4. OwnOK(t)' /\ FoundOK(t)'
  BY DEF OwnOK, FoundOK
<1>5. MailOK(t)'
  BY <1>1, MailKept, SetCacheAssumption
<1> QED BY <1>1, <1>2, <1>3, <1>4, <1>5, StepKeeps DEF ThreadOK, StepOf

LEMMA AfterIs ==
  ASSUME NEW t
  PROVE  After(t) \in {"idle", "start"}
BY DEF After

LEMMA MailStays ==
  ASSUME SetInv, NEW t \in Thread, UNCHANGED <<ring, net>>, th'[t].msg = th[t].msg
  PROVE  Once(t)' /\ Busy(t)' = Busy(t)
<1>1. Asked(t)' = Asked(t) /\ Kept(t)' = Kept(t) /\ Blocks(ring[t])' = Blocks(ring[t]) /\ (Differ(ring[t])' <=> Differ(ring[t]))
  BY DEF Asked, Kept, Blocks, Differ
<1> QED BY <1>1 DEF SetInv, ThreadOK, Once, Busy

LEMMA StepFreeEvict ==
  ASSUME SetInv, NEW t \in Thread, StartEvict(t), th[t].next # None, ln[th[t].next].word.st = "INVALID"
  PROVE  SetInv'
<1>1. /\ th \in [Thread -> Registers] /\ TypeOK /\ th[t] \in Registers /\ OwnOK(t) /\ MailOK(t) /\ LinesOK
      /\ ring \in [Thread -> Seq(Answer)]
  BY DEF SetInv, TypeOK, ThreadOK
<1>2. UNCHANGED <<readers, ring, net, home, agent>> /\ th[t].pc \in {"start", "again"}
  BY DEF StartEvict, envVars, agentVars
<1>3. PICK x \in Line : x = th[t].next
  BY <1>1, RegistersTyped
<1>4. x[1] = "shadow" /\ Alive(x)
  BY <1>1, <1>2, <1>3 DEF OwnOK
<1>5. Freed(t, x)
  BY <1>2, <1>3 DEF StartEvict, Freed
<1>6. PICK l \in {"idle", "start", "look"} : th' = [th EXCEPT ![t].pc = l, ![t].next = None, ![t].cur = None]
  BY <1>3, AfterIs DEF StartEvict
<1>7. /\ th'[t] = [th[t] EXCEPT !.pc = l, !.next = None, !.cur = None]
      /\ \A u \in Thread : u # t => th'[u] = th[u]
      /\ th' \in [Thread -> Registers]
  <2>1. th' = [th EXCEPT ![t] = [th[t] EXCEPT !.pc = l, !.next = None, !.cur = None]]
    BY <1>6
  <2>2. l \in ThreadPc
    BY DEF ThreadPc
  <2>3. [th[t] EXCEPT !.pc = l, !.next = None, !.cur = None] \in Registers
    BY <1>1, <2>2 DEF Registers
  <2> QED BY <1>1, <2>1, <2>3, NewRegisters
<1>8. th'[t].pc = l /\ th'[t].next = None /\ th'[t].cur = None /\ th'[t].msg = th[t].msg
  BY <1>1, <1>7 DEF Registers
<1>9. Once(t)' /\ Busy(t)' = Busy(t)
  BY <1>2, <1>8, MailStays
<1>10. writer[x] \subseteq {t} /\ ln[x].tag \notin Busy(t)
  <2>1. CASE th[t].pc = "start"
    <3>1. writer[x] = {}
      BY <1>1, <1>3, <2>1 DEF OwnOK
    <3>2. ASSUME NEW s \in Line PROVE ~Evicts(t, ln[x].tag, s)
      BY <1>1, <1>4, <3>1 DEF Evicts, LinesOK
    <3> QED BY <1>1, <2>1, <3>1, <3>2 DEF MailOK
  <2>2. CASE th[t].pc = "again"
    BY <1>1, <1>3, <2>2 DEF OwnOK, MailOK
  <2> QED BY <1>2, <2>1, <2>2
<1> QED BY <1>1, <1>2, <1>3, <1>4, <1>5, <1>7, <1>8, <1>9, <1>10, FreedKeeps

LEMMA StepStartEvict ==
  ASSUME SetInv, NEW t \in Thread, StartEvict(t)
  PROVE  SetInv'
<1>1. CASE th[t].next = None
  <2>1. Goto(t, "look") /\ UNCHANGED <<ln, readers, writer, pool, ring, net, home, agent>> /\ th[t].pc \in {"start", "again"}
    BY <1>1 DEF StartEvict, envVars, agentVars
  <2> QED BY <1>1, <2>1, GotoKeeps DEF ThreadPc
<1> QED BY <1>1, StepMoveEvict, StepFreeEvict

LEMMA StepSpinEvict ==
  ASSUME SetInv, NEW t \in Thread, SpinEvict(t)
  PROVE  SetInv'
<1>1. /\ th \in [Thread -> Registers] /\ TypeOK /\ th[t] \in Registers /\ OwnOK(t) /\ MailOK(t)
      /\ ring \in [Thread -> Seq(Answer)]
  BY DEF SetInv, TypeOK, ThreadOK
<1>2. UNCHANGED <<readers, ring, net, home, agent>> /\ th[t].pc = "evictSpin"
  BY DEF SpinEvict, envVars, agentVars
<1>3. PICK x \in Line : x = th[t].cur
  BY <1>1, <1>2, RegistersTyped DEF OwnOK
<1>4. x[1] = "shadow" /\ Alive(x) /\ writer[x] = {t} /\ ln[x].tag \notin Busy(t) /\ th[t].next = None
  BY <1>1, <1>2, <1>3, SetCacheAssumption DEF OwnOK, MailOK
<1>5. Freed(t, x)
  BY <1>2, <1>3 DEF SpinEvict, FreeShadow, Freed
<1>6. PICK l \in {"idle", "start"} : th' = [th EXCEPT ![t].pc = l, ![t].cur = None]
  BY AfterIs DEF SpinEvict
<1>7. /\ th'[t] = [th[t] EXCEPT !.pc = l, !.cur = None]
      /\ \A u \in Thread : u # t => th'[u] = th[u]
      /\ th' \in [Thread -> Registers]
  <2>1. th' = [th EXCEPT ![t] = [th[t] EXCEPT !.pc = l, !.cur = None]]
    BY <1>6
  <2>2. l \in ThreadPc
    BY DEF ThreadPc
  <2>3. [th[t] EXCEPT !.pc = l, !.cur = None] \in Registers
    BY <1>1, <2>2 DEF Registers
  <2> QED BY <1>1, <2>1, <2>3, NewRegisters
<1>8. th'[t].pc = l /\ th'[t].next = None /\ th'[t].cur = None /\ th'[t].msg = th[t].msg
  BY <1>1, <1>4, <1>7 DEF Registers
<1>9. Once(t)' /\ Busy(t)' = Busy(t)
  BY <1>2, <1>8, MailStays
<1> QED BY <1>1, <1>2, <1>3, <1>4, <1>5, <1>7, <1>8, <1>9, FreedKeeps

\* wait_evict takes the answer that was kept, or else the next one of the ring.
Taken(t) == IF th[t].msg # None THEN th[t].msg ELSE Head(ring[t])

LEMMA AnswerTaken ==
  ASSUME SetInv, NEW t \in Thread, th[t].msg # None \/ ring[t] # <<>>, net' = net, th'[t].msg = None,
         ring' = IF th[t].msg # None THEN ring ELSE [ring EXCEPT ![t] = Tail(@)]
  PROVE  /\ Once(t)' /\ Busy(t)' = Busy(t) \ {Taken(t).block}
         /\ ring' \in [Thread -> Seq(Answer)] /\ \A u \in Thread : u # t => ring'[u] = ring[u]
<1>1. Once(t) /\ Asked(t)' = Asked(t) /\ Kept(t)' = {} /\ ring \in [Thread -> Seq(Answer)]
  BY DEF SetInv, ThreadOK, Asked, Kept, TypeOK
<1>2. CASE th[t].msg # None
  <2>1. Taken(t) = th[t].msg /\ Kept(t) = {Taken(t).block} /\ ring' = ring
    BY <1>2 DEF Taken, Kept
  <2>2. Blocks(ring[t])' = Blocks(ring[t]) /\ (Differ(ring[t])' <=> Differ(ring[t]))
    BY <2>1 DEF Blocks, Differ
  <2>3. Taken(t).block \notin Asked(t) /\ Taken(t).block \notin Blocks(ring[t])
    BY <1>1, <2>1 DEF Once
  <2>4. Once(t)'
    BY <1>1, <2>2 DEF Once
  <2>5. Busy(t)' = Busy(t) \ {Taken(t).block}
    BY <1>1, <2>1, <2>2, <2>3 DEF Busy
  <2> QED BY <1>1, <2>1, <2>4, <2>5
<1>3. CASE th[t].msg = None
  <2>1. Taken(t) = Head(ring[t]) /\ Kept(t) = {}
    BY <1>3 DEF Taken, Kept
  <2>2. /\ Taken(t).block \in Blocks(ring[t])
        /\ ring' \in [Thread -> Seq(Answer)] /\ \A u \in Thread : u # t => ring'[u] = ring[u]
        /\ Blocks(ring[t])' = Blocks(ring[t]) \ {Taken(t).block} /\ Differ(ring[t])'
    BY <1>3, <2>1, RingTail
  <2>3. Taken(t).block \notin Asked(t)
    BY <1>1, <2>2 DEF Once
  <2>4. Once(t)'
    BY <1>1, <2>2 DEF Once
  <2>5. Busy(t)' = Busy(t) \ {Taken(t).block}
    BY <1>1, <2>1, <2>2, <2>3 DEF Busy
  <2> QED BY <2>2, <2>4, <2>5
<1> QED BY <1>2, <1>3

LEMMA StepWaitEvict ==
  ASSUME SetInv, NEW t \in Thread, WaitEvict(t)
  PROVE  SetInv'
<1>1. th \in [Thread -> Registers] /\ TypeOK /\ th[t] \in Registers /\ OwnOK(t) /\ MailOK(t)
  BY DEF SetInv, TypeOK, ThreadOK
<1>2. UNCHANGED <<readers, net, home, agent>> /\ th[t].pc = "waitEvict"
  BY DEF WaitEvict, envVars, agentVars
<1>3. CASE th[t].cur = None
  <2>1. Goto(t, After(t)) /\ UNCHANGED <<ln, pool, writer, ring>>
    BY <1>3 DEF WaitEvict
  <2>2. After(t) \in {"idle", "start"} /\ After(t) \in ThreadPc
    BY AfterIs DEF ThreadPc
  <2> QED BY <1>2, <2>1, <2>2, GotoKeeps
<1>4. CASE th[t].cur # None
  <2>1. PICK x \in Line : x = th[t].cur
    BY <1>1, <1>4, RegistersTyped
  <2>2. x[1] = "shadow" /\ Alive(x) /\ writer[x] = {t} /\ th[t].next = None /\ x # None
    BY <1>1, <1>2, <1>4, <2>1 DEF OwnOK
  <2>3. PICK m : m = Taken(t)
    OBVIOUS
  <2>4. /\ th[t].msg # None \/ ring[t] # <<>>
        /\ ring' = IF th[t].msg # None THEN ring ELSE [ring EXCEPT ![t] = Tail(@)]
    BY <1>4 DEF WaitEvict
  <2>5. CASE m.block = ln[x].tag /\ m.type = "EVICT_ACK"
    <3>1. FreeShadow(t) /\ th' = [th EXCEPT ![t].msg = None, ![t].cur = None, ![t].pc = After(t)]
      BY <1>4, <2>1, <2>3, <2>5 DEF WaitEvict, Taken
    <3>2. Freed(t, x)
      BY <1>2, <2>1, <3>1 DEF FreeShadow, Freed
    <3>3. PICK l \in {"idle", "start"} : l = After(t)
      BY AfterIs
    <3>4. /\ th'[t] = [th[t] EXCEPT !.msg = None, !.cur = None, !.pc = l]
          /\ \A u \in Thread : u # t => th'[u] = th[u]
          /\ th' \in [Thread -> Registers]
      <4>1. th' = [th EXCEPT ![t] = [th[t] EXCEPT !.msg = None, !.cur = None, !.pc = l]]
        BY <3>1, <3>3
      <4>2. l \in ThreadPc
        BY DEF ThreadPc
      <4>3. [th[t] EXCEPT !.msg = None, !.cur = None, !.pc = l] \in Registers
        BY <1>1, <4>2 DEF Registers
      <4> QED BY <1>1, <4>1, <4>3, NewRegisters
    <3>5. th'[t].pc = l /\ th'[t].next = None /\ th'[t].cur = None /\ th'[t].msg = None
      BY <1>1, <2>2, <3>4 DEF Registers
    <3>6. /\ Once(t)' /\ Busy(t)' = Busy(t) \ {m.block}
          /\ ring' \in [Thread -> Seq(Answer)] /\ \A u \in Thread : u # t => ring'[u] = ring[u]
      BY <1>2, <2>3, <2>4, <3>5, AnswerTaken
    <3> QED BY <1>2, <2>1, <2>2, <2>5, <3>2, <3>4, <3>5, <3>6, FreedKeeps
  <2>6. CASE ~(m.block = ln[x].tag /\ m.type = "EVICT_ACK")
    <3>1. UNCHANGED <<ln, pool, writer>>
      BY <1>4, <2>1, <2>3, <2>6 DEF WaitEvict, Taken
    <3>2. PICK l \in {"undo", "evictSpin", "assert"} :
            th' = [th EXCEPT ![t].msg = None, ![t].cur = x, ![t].pc = l] /\ (l # "assert" => m.block = ln[x].tag)
      <4>1. CASE m.block = ln[x].tag /\ m.type = "DIR_2_APP_M_CHECK_FAIL"
        <5>1. th' = [th EXCEPT ![t].msg = None, ![t].cur = x, ![t].pc = "undo"]
          BY <1>4, <2>1, <2>3, <2>6, <4>1 DEF WaitEvict, Taken
        <5> QED BY <4>1, <5>1
      <4>2. CASE m.block = ln[x].tag /\ m.type = "DIR_2_APP_BITMAP_CHECK_FAIL"
        <5>1. th' = [th EXCEPT ![t].msg = None, ![t].cur = x, ![t].pc = "evictSpin"]
          BY <1>4, <2>1, <2>3, <2>6, <4>2 DEF WaitEvict, Taken
        <5> QED BY <4>2, <5>1
      <4>3. CASE ~(m.block = ln[x].tag /\ m.type \in {"DIR_2_APP_M_CHECK_FAIL", "DIR_2_APP_BITMAP_CHECK_FAIL"})
        <5>1. th' = [th EXCEPT ![t].msg = None, ![t].cur = x, ![t].pc = "assert"]
          BY <1>4, <2>1, <2>3, <2>6, <4>3 DEF WaitEvict, Taken
        <5> QED BY <5>1
      <4> QED BY <4>1, <4>2, <4>3
    <3>3. /\ th'[t] = [th[t] EXCEPT !.msg = None, !.cur = x, !.pc = l]
          /\ \A u \in Thread : u # t => th'[u] = th[u]
          /\ th' \in [Thread -> Registers]
      <4>1. th' = [th EXCEPT ![t] = [th[t] EXCEPT !.msg = None, !.cur = x, !.pc = l]]
        BY <3>2
      <4>2. l \in ThreadPc
        BY DEF ThreadPc
      <4>3. [th[t] EXCEPT !.msg = None, !.cur = x, !.pc = l] \in Registers
        BY <1>1, <4>2 DEF Registers
      <4> QED BY <1>1, <4>1, <4>3, NewRegisters
    <3>4. th'[t].pc = l /\ th'[t].next = None /\ th'[t].cur = x /\ th'[t].msg = None
      BY <1>1, <2>2, <3>3 DEF Registers
    <3>5. /\ Once(t)' /\ Busy(t)' = Busy(t) \ {m.block}
          /\ ring' \in [Thread -> Seq(Answer)] /\ \A u \in Thread : u # t => ring'[u] = ring[u]
      BY <1>2, <2>3, <2>4, <3>4, AnswerTaken
    <3>6. Inner(t) /\ LinesSame
      BY <1>2, <3>1, Unchanged DEF Inner
    <3>7. TypeOK'
      BY <1>1, <1>2, <3>1, <3>3, <3>5 DEF TypeOK
    <3>8. MailStep(t) /\ OwnStep(t)
      BY <1>2, <2>1, <3>3, <3>4, <3>5 DEF MailStep, OwnStep
    <3>9. OwnOK(t)' /\ FoundOK(t)'
      BY <2>2, <3>1, <3>4 DEF OwnOK, FoundOK, Alive
    <3>10. MailOK(t)'
      <4>1. Holds(t, None)
        BY <3>6, InnerHolds
      <4>2. th'[t].pc \in {"undo", "evictSpin", "again"} => ln'[th'[t].cur].tag \notin Busy(t)'
        BY <3>1, <3>2, <3>4, <3>5
      <4> QED BY <1>2, <3>5, <4>1, <4>2, MailKept, SetCacheAssumption
    <3> QED BY <3>5, <3>6, <3>7, <3>8, <3>9, <3>10, InnerKeeps DEF ThreadOK
  <2> QED BY <2>5, <2>6
<1> QED BY <1>3, <1>4

------------------------------------------------------------------------------
(* newLine *)

\* The buffer on top of the stack of t is nobody's any more.
LEMMA PoolPopped ==
  ASSUME SetInv, NEW t \in Thread, pool[t] # <<>>, Pop(t)
  PROVE  /\ pool' \in [Thread -> Seq(Buffer)] /\ Last(pool[t]) \in Buffer
         /\ \A u \in Thread : \A i \in DOMAIN pool'[u] :
              i \in DOMAIN pool[u] /\ pool'[u][i] = pool[u][i] /\ pool'[u][i] # Last(pool[t])
         /\ \A u \in Thread : \A i \in DOMAIN pool[u] :
              pool[u][i] = Last(pool[t]) \/ (i \in DOMAIN pool'[u] /\ pool'[u][i] = pool[u][i])
         /\ \A p \in Line : ln[p].data # Last(pool[t])
<1>1. pool \in [Thread -> Seq(Buffer)] /\ pool[t] \in Seq(Buffer) /\ BuffersOK
  BY DEF SetInv, TypeOK
<1>2. PICK n : n = Len(pool[t])
  OBVIOUS
<1>3. PICK d : d = Last(pool[t])
  OBVIOUS
<1>4. /\ Front(pool[t]) \in Seq(Buffer) /\ n \in Nat \ {0} /\ d = pool[t][n] /\ d \in Buffer
      /\ DOMAIN pool[t] = 1 .. n /\ DOMAIN Front(pool[t]) = 1 .. n - 1
      /\ \A i \in 1 .. n - 1 : Front(pool[t])[i] = pool[t][i]
  BY <1>1, <1>2, <1>3, Popped
<1>5. pool'[t] = Front(pool[t]) /\ (\A u \in Thread : u # t => pool'[u] = pool[u]) /\ pool' \in [Thread -> Seq(Buffer)]
  BY <1>1, <1>4 DEF Pop
<1>6. n \in DOMAIN pool[t] /\ (\A i \in 1 .. n - 1 : i \in 1 .. n /\ i # n) /\ (\A i \in 1 .. n : i = n \/ i \in 1 .. n - 1)
  BY <1>4
<1>7. ASSUME NEW u \in Thread, NEW i \in DOMAIN pool[u], pool[u][i] = d PROVE u = t /\ i = n
  BY <1>1, <1>4, <1>6, <1>7 DEF BuffersOK
<1>8. ASSUME NEW u \in Thread, NEW i \in DOMAIN pool'[u]
      PROVE  i \in DOMAIN pool[u] /\ pool'[u][i] = pool[u][i] /\ pool'[u][i] # d
  <2>1. CASE u = t
    BY <1>4, <1>5, <1>6, <1>7, <1>8, <2>1
  <2>2. CASE u # t
    BY <1>5, <1>7, <1>8, <2>2
  <2> QED BY <2>1, <2>2
<1>9. ASSUME NEW u \in Thread, NEW i \in DOMAIN pool[u]
      PROVE  pool[u][i] = d \/ (i \in DOMAIN pool'[u] /\ pool'[u][i] = pool[u][i])
  <2>1. CASE u = t
    BY <1>4, <1>5, <1>6, <1>9, <2>1
  <2>2. CASE u # t
    BY <1>5, <1>9, <2>2
  <2> QED BY <2>1, <2>2
<1>10. \A p \in Line : ln[p].data # d
  BY <1>1, <1>4, <1>6 DEF BuffersOK
<1> QED BY <1>3, <1>4, <1>5, <1>8, <1>9, <1>10

LEMMA FreshIs ==
  ASSUME NEW t, NEW b
  PROVE  Fresh(t, b).tag = b /\ Fresh(t, b).data = Last(pool[t]) /\ Fresh(t, b).word.st = "INVALID"
BY DEF Fresh, Tag

LEMMA FreshTyped ==
  ASSUME NEW t, NEW b \in Block \cup {None}, Last(pool[t]) \in Buffer
  PROVE  Fresh(t, b) \in LineInfo
<1>1. Tag(FALSE, "INVALID") \in [fl : BOOLEAN, st : LineStatus \cup ShadStatus]
  BY DEF Tag, LineStatus
<1> QED BY <1>1 DEF Fresh, LineInfo

LEMMA NoLine ==
  ASSUME NEW b, ~Exists(b)
  PROVE  \A p \in Line : Alive(p) => ln[p].tag # b
<1>1. Found("set", b) = {} /\ Found("shadow", b) = {}
  BY DEF Exists
<1>2. \A p \in Line : p[1] = "set" \/ p[1] = "shadow"
  BY DEF Line
<1> QED BY <1>1, <1>2, FoundIs

LEMMA SlotLines ==
  ASSUME NEW i \in Slot
  PROVE  /\ <<"set", i>> \in Line /\ <<"shadow", i>> \in Line /\ <<"set", i>> # <<"shadow", i>>
         /\ <<"set", i>>[1] = "set" /\ <<"shadow", i>>[1] = "shadow"
BY DEF Line

\* newLine changes the lines of the set only.
LEMMA FilledKeeps ==
  ASSUME SetInv, NEW t \in Thread, Plain(t), \A s \in Line : s[1] = "shadow" => ln'[s] = ln[s],
         LinesOK', BuffersOK', ln' \in [Line -> LineInfo], pool' \in [Thread -> Seq(Buffer)],
         UNCHANGED <<readers, writer, ring, net, home, agent>>,
         th'[t].msg = th[t].msg, th[t].pc = "new", th'[t].pc = "start"
  PROVE  SetInv'
<1>1. \A s \in Line : s[1] = "shadow" => SameLine(s)
  BY DEF SameLine, Alive
<1>2. Holds(t, None) /\ LockStep(t)
  BY <1>1 DEF Holds, LockStep
<1>3. LineStep(t)
  <2>1. \A p \in Line : p[1] = "set" \/ p[1] = "shadow"
    BY DEF Line
  <2> QED BY <1>1, <2>1 DEF LineStep
<1>4. LocksOK'
  BY <1>1 DEF SetInv, LocksOK, SameLine
<1>5. TypeOK'
  BY DEF SetInv, TypeOK, Plain
<1>6. OwnOK(t)' /\ OwnStep(t) /\ FoundOK(t)'
  BY <1>2, PlainOwn DEF FoundOK
<1>7. Once(t)' /\ MailOK(t)'
  BY <1>2, MailSame
<1>8. MailStep(t)
  BY DEF MailStep, Plain
<1> QED BY <1>2, <1>3, <1>4, <1>5, <1>6, <1>7, <1>8, StepKeeps DEF ThreadOK, StepOf

LEMMA GotoPlain ==
  ASSUME SetInv, NEW t \in Thread, th[t].pc = "new", Goto(t, "start")
  PROVE  Plain(t) /\ th'[t].msg = th[t].msg /\ th'[t].pc = "start"
<1>1. th \in [Thread -> Registers] /\ th[t] \in Registers
  BY DEF SetInv, TypeOK
<1>2. /\ th'[t] = [th[t] EXCEPT !.pc = "start"]
      /\ \A u \in Thread : u # t => th'[u] = th[u]
      /\ th' \in [Thread -> Registers]
  <2>1. "start" \in ThreadPc
    BY DEF ThreadPc
  <2>2. [th[t] EXCEPT !.pc = "start"] \in Registers
    BY <1>1, <2>1 DEF Registers
  <2> QED BY <1>1, <2>2, NewRegisters DEF Goto
<1>3. th'[t].pc = "start" /\ th'[t].next = th[t].next /\ th'[t].cur = th[t].cur /\ th'[t].msg = th[t].msg
  BY <1>1, <1>2 DEF Registers
<1> QED BY <1>2, <1>3 DEF Plain

\* A line that was not in use.
LEMMA StepFill ==
  ASSUME SetInv, NEW t \in Thread, NEW p \in Line, p[1] = "set", ~Alive(p), ~Exists(th[t].block), pool[t] # <<>>,
         ln' = [ln EXCEPT ![p] = Fresh(t, th[t].block)], Pop(t), Goto(t, "start"), th[t].pc = "new",
         UNCHANGED <<readers, writer, ring, net, home, agent>>
  PROVE  SetInv'
<1>1. ln \in [Line -> LineInfo] /\ LinesOK /\ BuffersOK /\ None \notin Buffer
  BY SetCacheAssumption DEF SetInv, TypeOK
<1>2. PICK b \in Block \cup {None} : b = th[t].block
  BY DEF SetInv, TypeOK, Registers
<1>3. PICK d : d = Last(pool[t])
  OBVIOUS
<1>4. /\ pool' \in [Thread -> Seq(Buffer)] /\ d \in Buffer
      /\ \A u \in Thread : \A i \in DOMAIN pool'[u] :
              i \in DOMAIN pool[u] /\ pool'[u][i] = pool[u][i] /\ pool'[u][i] # d
      /\ \A u \in Thread : \A i \in DOMAIN pool[u] :
              pool[u][i] = d \/ (i \in DOMAIN pool'[u] /\ pool'[u][i] = pool[u][i])
      /\ \A q \in Line : ln[q].data # d
  BY <1>3, PoolPopped
<1>5. /\ ln'[p].tag = b /\ ln'[p].data = d /\ ln'[p].word.st = "INVALID"
      /\ (\A q \in Line : q # p => ln'[q] = ln[q]) /\ ln' \in [Line -> LineInfo]
  <2>1. Fresh(t, b) \in LineInfo
    BY <1>3, <1>4, FreshTyped
  <2>2. ln'[p] = Fresh(t, b)
    BY <1>1, <1>2
  <2> QED BY <1>1, <1>2, <1>3, <2>1, <2>2, FreshIs
<1>6. Alive(p)' /\ \A q \in Line : q # p => SameLine(q)
  BY <1>5 DEF Alive, SameLine
<1>7. LinesOK'
  <2>1. \A q \in Line : Alive(q)' <=> ln'[q].data # None
    <3> SUFFICES ASSUME NEW q \in Line PROVE Alive(q)' <=> ln'[q].data # None
      OBVIOUS
    <3>1. CASE q = p
      BY <1>1, <1>4, <1>5, <1>6, <3>1
    <3>2. CASE q # p
      BY <1>1, <1>6, <3>2 DEF LinesOK, SameLine
    <3> QED BY <3>1, <3>2
  <2>2. \A q \in Line : q # p /\ Alive(q)' => Alive(q) /\ ln'[q].tag = ln[q].tag /\ ln[q].tag # b
    BY <1>2, <1>6, NoLine DEF SameLine
  <2>3. \A q, r \in Line : Alive(q)' /\ Alive(r)' /\ ln'[q].tag = ln'[r].tag => q = r
    <3> SUFFICES ASSUME NEW q \in Line, NEW r \in Line, Alive(q)', Alive(r)', ln'[q].tag = ln'[r].tag PROVE q = r
      OBVIOUS
    <3>1. CASE q = p \/ r = p
      BY <1>5, <2>2, <3>1
    <3>2. CASE q # p /\ r # p
      BY <1>1, <2>2, <3>2 DEF LinesOK
    <3> QED BY <3>1, <3>2
  <2> QED BY <2>1, <2>3 DEF LinesOK
<1>8. BuffersOK'
  <2>1. \A q \in Line : q # p => ln'[q].data = ln[q].data /\ ln[q].data # d
    BY <1>4, <1>5
  <2>2. \A q, r \in Line : ln'[q].data = ln'[r].data /\ ln'[q].data # None => q = r
    <3> SUFFICES ASSUME NEW q \in Line, NEW r \in Line, ln'[q].data = ln'[r].data, ln'[q].data # None PROVE q = r
      OBVIOUS
    <3>1. CASE q = p \/ r = p
      BY <1>5, <2>1, <3>1
    <3>2. CASE q # p /\ r # p
      BY <1>1, <2>1, <3>2 DEF BuffersOK
    <3> QED BY <3>1, <3>2
  <2>3. \A u, w \in Thread : \A i \in DOMAIN pool'[u], j \in DOMAIN pool'[w] : pool'[u][i] = pool'[w][j] => u = w /\ i = j
    <3> SUFFICES ASSUME NEW u \in Thread, NEW w \in Thread, NEW i \in DOMAIN pool'[u], NEW j \in DOMAIN pool'[w],
                        pool'[u][i] = pool'[w][j]
                 PROVE  u = w /\ i = j
      OBVIOUS
    <3>1. i \in DOMAIN pool[u] /\ j \in DOMAIN pool[w] /\ pool[u][i] = pool[w][j]
      BY <1>4
    <3> QED BY <1>1, <3>1 DEF BuffersOK
  <2>4. \A q \in Line, u \in Thread : \A i \in DOMAIN pool'[u] : ln'[q].data # pool'[u][i]
    <3> SUFFICES ASSUME NEW q \in Line, NEW u \in Thread, NEW i \in DOMAIN pool'[u] PROVE ln'[q].data # pool'[u][i]
      OBVIOUS
    <3>1. i \in DOMAIN pool[u] /\ pool'[u][i] = pool[u][i] /\ pool'[u][i] # d
      BY <1>4
    <3>2. CASE q = p
      BY <1>5, <3>1, <3>2
    <3>3. CASE q # p
      BY <1>1, <2>1, <3>1, <3>3 DEF BuffersOK
    <3> QED BY <3>2, <3>3
  <2>5. \A c \in Buffer : \/ \E q \in Line : ln'[q].data = c
                          \/ \E u \in Thread : \E i \in DOMAIN pool'[u] : pool'[u][i] = c
    <3> SUFFICES ASSUME NEW c \in Buffer
                 PROVE  \/ \E q \in Line : ln'[q].data = c
                        \/ \E u \in Thread : \E i \in DOMAIN pool'[u] : pool'[u][i] = c
      OBVIOUS
    <3>1. CASE c = d
      BY <1>5, <3>1
    <3>2. CASE \E q \in Line : ln[q].data = c
      <4>1. PICK q \in Line : ln[q].data = c
        BY <3>2
      <4>2. q # p
        BY <1>1, <4>1 DEF LinesOK
      <4> QED BY <2>1, <4>1, <4>2
    <3>3. CASE c # d /\ \E u \in Thread : \E i \in DOMAIN pool[u] : pool[u][i] = c
      BY <1>4, <3>3
    <3> QED BY <1>1, <3>1, <3>2, <3>3 DEF BuffersOK
  <2> QED BY <2>2, <2>3, <2>4, <2>5 DEF BuffersOK
<1>9. Plain(t) /\ th'[t].msg = th[t].msg /\ th'[t].pc = "start"
  BY GotoPlain
<1>10. \A s \in Line : s[1] = "shadow" => ln'[s] = ln[s]
  BY <1>5
<1> QED BY <1>4, <1>5, <1>7, <1>8, <1>9, <1>10, FilledKeeps

\* An INVALID line gets another block.
LEMMA StepRetag ==
  ASSUME SetInv, NEW t \in Thread, NEW e \in Line, e[1] = "set", Alive(e), ~Exists(th[t].block),
         ln' = [ln EXCEPT ![e].tag = th[t].block], Goto(t, "start"), th[t].pc = "new",
         UNCHANGED <<readers, writer, pool, ring, net, home, agent>>
  PROVE  SetInv'
<1>1. ln \in [Line -> LineInfo] /\ LinesOK /\ BuffersOK /\ pool \in [Thread -> Seq(Buffer)]
  BY DEF SetInv, TypeOK
<1>2. PICK b \in Block \cup {None} : b = th[t].block
  BY DEF SetInv, TypeOK, Registers
<1>3. /\ ln'[e].tag = b /\ ln'[e].data = ln[e].data /\ ln'[e].word = ln[e].word
      /\ (\A q \in Line : q # e => ln'[q] = ln[q]) /\ ln' \in [Line -> LineInfo]
  BY <1>1, <1>2 DEF LineInfo
<1>4. \A q \in Line : (Alive(q)' <=> Alive(q)) /\ ln'[q].data = ln[q].data
  BY <1>3 DEF Alive
<1>5. LinesOK'
  <2>1. \A q \in Line : q # e /\ Alive(q) => ln'[q].tag = ln[q].tag /\ ln[q].tag # b
    BY <1>2, <1>3, NoLine
  <2>2. \A q, r \in Line : Alive(q)' /\ Alive(r)' /\ ln'[q].tag = ln'[r].tag => q = r
    <3> SUFFICES ASSUME NEW q \in Line, NEW r \in Line, Alive(q)', Alive(r)', ln'[q].tag = ln'[r].tag PROVE q = r
      OBVIOUS
    <3>1. CASE q = e \/ r = e
      BY <1>3, <1>4, <2>1, <3>1
    <3>2. CASE q # e /\ r # e
      BY <1>1, <1>4, <2>1, <3>2 DEF LinesOK
    <3> QED BY <3>1, <3>2
  <2> QED BY <1>1, <1>4, <2>2 DEF LinesOK
<1>6. BuffersOK'
  BY <1>1, <1>4 DEF BuffersOK
<1>7. Plain(t) /\ th'[t].msg = th[t].msg /\ th'[t].pc = "start"
  BY GotoPlain
<1>8. \A s \in Line : s[1] = "shadow" => ln'[s] = ln[s]
  BY <1>3
<1> QED BY <1>1, <1>3, <1>5, <1>6, <1>7, <1>8, FilledKeeps

\* A line in use moves to its free shadow line.
LEMMA StepShadow ==
  ASSUME SetInv, NEW t \in Thread, NEW e \in Line, NEW s \in Line, e[1] = "set", s[1] = "shadow", Alive(e), ~Alive(s),
         ~Exists(th[t].block), pool[t] # <<>>,
         ln' = [ln EXCEPT ![s] = [ln[e] EXCEPT !.word.fl = FALSE], ![e] = Fresh(t, th[t].block)], Pop(t),
         th' = [th EXCEPT ![t].pc = "start", ![t].next = s], th[t].pc = "new",
         UNCHANGED <<readers, writer, ring, net, home, agent>>
  PROVE  SetInv'
<1>1. /\ ln \in [Line -> LineInfo] /\ LinesOK /\ BuffersOK /\ LocksOK /\ None \notin Buffer /\ None \notin Line
      /\ e # s /\ th \in [Thread -> Registers] /\ th[t] \in Registers /\ TypeOK /\ OwnOK(t)
  BY SetCacheAssumption DEF SetInv, TypeOK, ThreadOK
<1>2. PICK b \in Block \cup {None} : b = th[t].block
  BY <1>1 DEF Registers
<1>3. PICK d : d = Last(pool[t])
  OBVIOUS
<1>4. /\ pool' \in [Thread -> Seq(Buffer)] /\ d \in Buffer
      /\ \A u \in Thread : \A i \in DOMAIN pool'[u] :
              i \in DOMAIN pool[u] /\ pool'[u][i] = pool[u][i] /\ pool'[u][i] # d
      /\ \A u \in Thread : \A i \in DOMAIN pool[u] :
              pool[u][i] = d \/ (i \in DOMAIN pool'[u] /\ pool'[u][i] = pool[u][i])
      /\ \A q \in Line : ln[q].data # d
  BY <1>3, PoolPopped
<1>5. PICK l : l = [ln[e] EXCEPT !.word.fl = FALSE]
  OBVIOUS
<1>6. l \in LineInfo /\ l.tag = ln[e].tag /\ l.data = ln[e].data /\ l.word.st = ln[e].word.st
  <2>1. ln[e] \in LineInfo
    BY <1>1
  <2> QED BY <1>5, <2>1 DEF LineInfo
<1>7. /\ ln'[e] = Fresh(t, b) /\ ln'[s] = l
      /\ (\A q \in Line : q # e /\ q # s => ln'[q] = ln[q]) /\ ln' \in [Line -> LineInfo]
  <2>1. Fresh(t, b) \in LineInfo
    BY <1>3, <1>4, FreshTyped
  <2>2. ln' = [ln EXCEPT ![s] = l, ![e] = Fresh(t, b)]
    BY <1>2, <1>5
  <2> QED BY <1>1, <1>6, <2>1, <2>2
<1>8. ln'[e].tag = b /\ ln'[e].data = d /\ ln'[e].word.st = "INVALID"
  BY <1>3, <1>7, FreshIs
<1>9. /\ Alive(e)' /\ Alive(s)' /\ ln'[s].tag = ln[e].tag /\ ln'[s].data = ln[e].data
      /\ \A q \in Line : q # e /\ q # s => SameLine(q)
  BY <1>6, <1>7, <1>8 DEF Alive, SameLine
<1>10. LinesOK'
  <2>1. \A q \in Line : Alive(q)' <=> ln'[q].data # None
    <3> SUFFICES ASSUME NEW q \in Line PROVE Alive(q)' <=> ln'[q].data # None
      OBVIOUS
    <3>1. CASE q = e
      BY <1>1, <1>4, <1>8, <1>9, <3>1
    <3>2. CASE q = s
      BY <1>1, <1>9, <3>2 DEF LinesOK
    <3>3. CASE q # e /\ q # s
      BY <1>1, <1>9, <3>3 DEF LinesOK, SameLine
    <3> QED BY <3>1, <3>2, <3>3
  <2>2. \A q \in Line : q # e /\ q # s /\ Alive(q)' => ln'[q].tag = ln[q].tag /\ ln[q].tag # b /\ ln[q].tag # ln[e].tag /\ Alive(q)
    BY <1>1, <1>2, <1>9, NoLine DEF SameLine, LinesOK
  <2>3. ln[e].tag # b
    BY <1>2, NoLine
  <2>4. \A q, r \in Line : Alive(q)' /\ Alive(r)' /\ ln'[q].tag = ln'[r].tag => q = r
    <3> SUFFICES ASSUME NEW q \in Line, NEW r \in Line, Alive(q)', Alive(r)', ln'[q].tag = ln'[r].tag PROVE q = r
      OBVIOUS
    <3>1. CASE q \in {e, s} /\ r \in {e, s}
      <4>1. CASE q = e /\ r = s
        BY <1>8, <1>9, <2>3, <4>1
      <4>2. CASE q = s /\ r = e
        BY <1>8, <1>9, <2>3, <4>2
      <4> QED BY <3>1, <4>1, <4>2
    <3>2. CASE q \in {e, s} /\ r \notin {e, s}
      BY <1>8, <1>9, <2>2, <3>2
    <3>3. CASE q \notin {e, s} /\ r \in {e, s}
      BY <1>8, <1>9, <2>2, <3>3
    <3>4. CASE q \notin {e, s} /\ r \notin {e, s}
      BY <1>1, <2>2, <3>4 DEF LinesOK
    <3> QED BY <3>1, <3>2, <3>3, <3>4
  <2> QED BY <2>1, <2>4 DEF LinesOK
<1>11. BuffersOK'
  <2>1. \A q \in Line : q # e /\ q # s => ln'[q].data = ln[q].data /\ ln[q].data # d
    BY <1>4, <1>7
  <2>2. ln[s].data = None /\ ln[e].data # None /\ ln[e].data # d
    BY <1>1, <1>4 DEF LinesOK
  <2>3. \A q \in Line : q # e => ln[q].data # ln[e].data
    BY <1>1, <2>2 DEF BuffersOK
  <2>4. \A q, r \in Line : ln'[q].data = ln'[r].data /\ ln'[q].data # None => q = r
    <3> SUFFICES ASSUME NEW q \in Line, NEW r \in Line, ln'[q].data = ln'[r].data, ln'[q].data # None PROVE q = r
      OBVIOUS
    <3>1. CASE q \in {e, s} /\ r \in {e, s}
      <4>1. CASE q = e /\ r = s
        BY <1>8, <1>9, <2>2, <4>1
      <4>2. CASE q = s /\ r = e
        BY <1>8, <1>9, <2>2, <4>2
      <4> QED BY <3>1, <4>1, <4>2
    <3>2. CASE q \in {e, s} /\ r \notin {e, s}
      BY <1>8, <1>9, <2>1, <2>3, <3>2
    <3>3. CASE q \notin {e, s} /\ r \in {e, s}
      BY <1>8, <1>9, <2>1, <2>3, <3>3
    <3>4. CASE q \notin {e, s} /\ r \notin {e, s}
      BY <1>1, <2>1, <3>4 DEF BuffersOK
    <3> QED BY <3>1, <3>2, <3>3, <3>4
  <2>5. \A u, w \in Thread : \A i \in DOMAIN pool'[u], j \in DOMAIN pool'[w] : pool'[u][i] = pool'[w][j] => u = w /\ i = j
    <3> SUFFICES ASSUME NEW u \in Thread, NEW w \in Thread, NEW i \in DOMAIN pool'[u], NEW j \in DOMAIN pool'[w],
                        pool'[u][i] = pool'[w][j]
                 PROVE  u = w /\ i = j
      OBVIOUS
    <3>1. i \in DOMAIN pool[u] /\ j \in DOMAIN pool[w] /\ pool[u][i] = pool[w][j]
      BY <1>4
    <3> QED BY <1>1, <3>1 DEF BuffersOK
  <2>6. \A q \in Line, u \in Thread : \A i \in DOMAIN pool'[u] : ln'[q].data # pool'[u][i]
    <3> SUFFICES ASSUME NEW q \in Line, NEW u \in Thread, NEW i \in DOMAIN pool'[u] PROVE ln'[q].data # pool'[u][i]
      OBVIOUS
    <3>1. i \in DOMAIN pool[u] /\ pool'[u][i] = pool[u][i] /\ pool'[u][i] # d
      BY <1>4
    <3>2. \A r \in Line : ln[r].data # pool[u][i]
      BY <1>1, <3>1 DEF BuffersOK
    <3>3. CASE q = e
      BY <1>8, <3>1, <3>3
    <3>4. CASE q = s
      BY <1>9, <3>1, <3>2, <3>4
    <3>5. CASE q # e /\ q # s
      BY <2>1, <3>1, <3>2, <3>5
    <3> QED BY <3>3, <3>4, <3>5
  <2>7. \A c \in Buffer : \/ \E q \in Line : ln'[q].data = c
                          \/ \E u \in Thread : \E i \in DOMAIN pool'[u] : pool'[u][i] = c
    <3> SUFFICES ASSUME NEW c \in Buffer
                 PROVE  \/ \E q \in Line : ln'[q].data = c
                        \/ \E u \in Thread : \E i \in DOMAIN pool'[u] : pool'[u][i] = c
      OBVIOUS
    <3>1. CASE c = d
      BY <1>8, <3>1
    <3>2. CASE \E q \in Line : ln[q].data = c
      <4>1. PICK q \in Line : ln[q].data = c
        BY <3>2
      <4>2. q # s
        BY <1>1, <2>2, <4>1
      <4> QED BY <1>9, <2>1, <4>1, <4>2
    <3>3. CASE c # d /\ \E u \in Thread : \E i \in DOMAIN pool[u] : pool[u][i] = c
      BY <1>4, <3>3
    <3> QED BY <1>1, <3>1, <3>2, <3>3 DEF BuffersOK
  <2> QED BY <2>4, <2>5, <2>6, <2>7 DEF BuffersOK
<1>12. writer[s] = {}
  BY <1>1 DEF LocksOK
<1>13. /\ \A q \in Line : q[1] = "shadow" /\ q # s => SameLine(q)
       /\ \A q \in Line : q[1] = "set" \/ q[1] = "shadow"
  BY <1>9 DEF Line
<1>14. LocksOK'
  BY <1>1, <1>12, <1>13 DEF LocksOK, SameLine
<1>15. Holds(t, None) /\ LineStep(t) /\ LockStep(t)
  BY <1>13 DEF Holds, LineStep, LockStep
<1>16. /\ th'[t] = [th[t] EXCEPT !.pc = "start", !.next = s]
       /\ \A u \in Thread : u # t => th'[u] = th[u]
       /\ th' \in [Thread -> Registers]
  <2>1. th' = [th EXCEPT ![t] = [th[t] EXCEPT !.pc = "start", !.next = s]]
    OBVIOUS
  <2>2. "start" \in ThreadPc
    BY DEF ThreadPc
  <2>3. [th[t] EXCEPT !.pc = "start", !.next = s] \in Registers
    BY <1>1, <2>2 DEF Registers
  <2> QED BY <1>1, <2>1, <2>3, NewRegisters
<1>17. th'[t].pc = "start" /\ th'[t].next = s /\ th'[t].cur = th[t].cur /\ th'[t].msg = th[t].msg
  BY <1>1, <1>16 DEF Registers
<1>18. TypeOK'
  BY <1>1, <1>4, <1>7, <1>16 DEF TypeOK
<1>19. MailStep(t) /\ OwnStep(t) /\ FoundOK(t)'
  BY <1>16, <1>17 DEF MailStep, OwnStep, FoundOK
<1>20. th[t].cur # None => th[t].cur \in Line /\ th[t].cur # s /\ th[t].cur[1] = "shadow" /\ writer[th[t].cur] = {t}
  BY <1>1, RegistersTyped DEF OwnOK
<1>21. OwnOK(t)'
  <2>1. th[t].cur # None => Alive(th[t].cur)'
    <3> SUFFICES ASSUME th[t].cur # None PROVE Alive(th[t].cur)'
      OBVIOUS
    <3>1. PICK x \in Line : x = th[t].cur
      BY <1>20
    <3>2. Alive(x) /\ x # s /\ x[1] = "shadow"
      BY <1>1, <1>20, <3>1 DEF OwnOK
    <3>3. Alive(x)'
      BY <1>13, <3>2 DEF SameLine
    <3> QED BY <1>17, <3>1, <3>3 DEF Alive
  <2> QED BY <1>1, <1>9, <1>12, <1>17, <1>20, <2>1, SMTT(30) DEF OwnOK, Alive
<1>22. Once(t)' /\ MailOK(t)'
  BY <1>15, <1>17, MailSame
<1> QED BY <1>10, <1>11, <1>14, <1>15, <1>18, <1>19, <1>21, <1>22, StepKeeps DEF ThreadOK, StepOf

LEMMA StepNewLine ==
  ASSUME SetInv, NEW t \in Thread, NewLine(t)
  PROVE  SetInv'
<1> DEFINE b == th[t].block
           p == <<"set", Max(Available)>>
           e == <<"set", Max(Evictable)>>
           s == <<"shadow", Max(Evictable)>>
<1>1. UNCHANGED <<readers, writer, ring, net, home, agent>> /\ th[t].pc = "new"
  BY DEF NewLine, envVars, agentVars
<1>2. CASE Goto(t, "waitEvict") /\ UNCHANGED <<ln, pool>>
  BY <1>1, <1>2, GotoKeeps DEF ThreadPc
<1>3. CASE Goto(t, "underflow") /\ UNCHANGED <<ln, pool>>
  BY <1>1, <1>3, GotoKeeps DEF ThreadPc
<1>4. CASE ~Exists(b) /\ Available # {} /\ pool[t] # <<>> /\ ln' = [ln EXCEPT ![p] = Fresh(t, b)] /\ Pop(t) /\ Goto(t, "start")
  <2>1. Max(Available) \in Available
    BY <1>4, MaxSlot DEF Available
  <2>2. PICK i \in Slot : i = Max(Available) /\ ln[<<"set", i>>].word.st = "PRESERVED"
    BY <2>1 DEF Available
  <2>3. p \in Line /\ p[1] = "set" /\ ~Alive(p)
    BY <2>2, SlotLines DEF Alive
  <2> HIDE DEF p
  <2> QED BY <1>1, <1>4, <2>3, StepFill
<1>5. CASE Evictable # {} /\ ~Exists(b) /\ ln' = [ln EXCEPT ![e].tag = b] /\ Goto(t, "start") /\ UNCHANGED pool
  <2>1. Max(Evictable) \in Evictable
    BY <1>5, MaxSlot DEF Evictable
  <2>2. PICK i \in Slot : i = Max(Evictable) /\ ln[<<"set", i>>].word.st \in {"INVALID", "SHARED", "MODIFIED"}
    BY <2>1 DEF Evictable
  <2>3. e \in Line /\ e[1] = "set" /\ Alive(e)
    BY <2>2, SlotLines DEF Alive
  <2> HIDE DEF e
  <2> QED BY <1>1, <1>5, <2>3, StepRetag
<1>6. CASE /\ Evictable # {} /\ ~Exists(b) /\ pool[t] # <<>>
           /\ ln' = [ln EXCEPT ![s] = [ln[e] EXCEPT !.word.fl = FALSE], ![e] = Fresh(t, b)]
           /\ Pop(t)
           /\ th' = [th EXCEPT ![t].pc = "start", ![t].next = s]
  <2>1. Max(Evictable) \in Evictable
    BY <1>6, MaxSlot DEF Evictable
  <2>2. PICK i \in Slot : /\ i = Max(Evictable) /\ ln[<<"set", i>>].word.st \in {"INVALID", "SHARED", "MODIFIED"}
                          /\ ln[<<"shadow", i>>].word.st = "PRESERVED"
    BY <2>1 DEF Evictable
  <2>3. e \in Line /\ e[1] = "set" /\ Alive(e) /\ s \in Line /\ s[1] = "shadow" /\ ~Alive(s)
    BY <2>2, SlotLines DEF Alive
  <2> HIDE DEF e, s
  <2> QED BY <1>1, <1>6, <2>3, StepShadow
<1> QED BY <1>2, <1>3, <1>4, <1>5, <1>6 DEF NewLine

------------------------------------------------------------------------------
(* The invariant *)

LEMMA InitInv ==
  ASSUME Init
  PROVE  SetInv
<1>1. /\ \A p \in Line : ln[p] = FreeLine /\ readers[p] = {} /\ writer[p] = {}
      /\ \A t \in Thread : th[t] = NewThread /\ ring[t] = <<>>
      /\ net = {}
  BY DEF Init
<1>2. /\ FreeLine \in LineInfo /\ FreeLine.word.st = "PRESERVED" /\ FreeLine.data = None
      /\ NewThread \in Registers
  <2>1. FreeLine \in LineInfo /\ FreeLine.word.st = "PRESERVED" /\ FreeLine.data = None
    BY DEF FreeLine, LineInfo, Tag, ShadStatus
  <2>2. NewThread \in Registers
    BY DEF NewThread, Registers, ThreadPc
  <2> QED BY <2>1, <2>2
<1>3. NewThread.pc = "idle" /\ NewThread.next = None /\ NewThread.cur = None /\ NewThread.msg = None
  BY DEF NewThread
<1>4. Share \in Nat /\ None \notin Buffer
  BY SetCacheAssumption
<1>5. \A t \in Thread : [i \in 1 .. Share |-> <<t, i>>] \in Seq(Buffer)
  <2>1. \A t \in Thread : [i \in 1 .. Share |-> <<t, i>>] \in [1 .. Share -> Buffer]
    BY DEF Buffer
  <2>2. \A q \in [1 .. Share -> Buffer] : q \in Seq(Buffer)
    BY <1>4, SeqDef
  <2> QED BY <2>1, <2>2
<1>6. TypeOK
  <2>1. ln \in [Line -> LineInfo] /\ readers \in [Line -> SUBSET Thread] /\ writer \in [Line -> SUBSET Thread]
    BY <1>2 DEF Init
  <2>2. pool \in [Thread -> Seq(Buffer)] /\ th \in [Thread -> Registers]
    BY <1>2, <1>5 DEF Init
  <2>3. ring \in [Thread -> Seq(Answer)]
    <3>1. <<>> \in Seq(Answer)
      OBVIOUS
    <3> QED BY <3>1 DEF Init
  <2>4. net \subseteq [thread : Thread, type : MissType \cup EvictType, block : Block \cup {None}, data : Buffer \cup {None}]
    BY <1>1
  <2>5. home \in [Block -> {"INVALID", "SHARED", "MODIFIED"}] /\ agent.line \in Line \cup {None}
    BY DEF Init, AgentIdle
  <2> QED BY <2>1, <2>2, <2>3, <2>4, <2>5 DEF TypeOK
<1>7. \A p \in Line : ~Alive(p) /\ ln[p].data = None
  BY <1>1, <1>2 DEF Alive
<1>8. LinesOK /\ LocksOK
  BY <1>1, <1>7 DEF LinesOK, LocksOK
<1>9. BuffersOK
  <2>1. \A t \in Thread : DOMAIN pool[t] = 1 .. Share /\ \A i \in 1 .. Share : pool[t][i] = <<t, i>>
    BY DEF Init
  <2>2. \A t \in Thread : \A i \in DOMAIN pool[t] : pool[t][i] \in Buffer
    <3> SUFFICES ASSUME NEW t \in Thread, NEW i \in DOMAIN pool[t] PROVE pool[t][i] \in Buffer
      OBVIOUS
    <3>1. i \in 1 .. Share /\ pool[t][i] = <<t, i>>
      BY <2>1
    <3> QED BY <3>1 DEF Buffer
  <2>3. \A b \in Buffer : \E t \in Thread : \E i \in DOMAIN pool[t] : pool[t][i] = b
    <3> SUFFICES ASSUME NEW b \in Buffer PROVE \E t \in Thread : \E i \in DOMAIN pool[t] : pool[t][i] = b
      OBVIOUS
    <3>1. PICK t \in Thread, i \in 1 .. Share : b = <<t, i>>
      BY DEF Buffer
    <3>2. i \in DOMAIN pool[t] /\ pool[t][i] = b
      BY <2>1, <3>1
    <3> QED BY <3>2
  <2>4. \A t, u \in Thread : \A i \in DOMAIN pool[t], j \in DOMAIN pool[u] : pool[t][i] = pool[u][j] => t = u /\ i = j
    <3> SUFFICES ASSUME NEW t \in Thread, NEW u \in Thread, NEW i \in DOMAIN pool[t], NEW j \in DOMAIN pool[u],
                        pool[t][i] = pool[u][j]
                 PROVE  t = u /\ i = j
      OBVIOUS
    <3>1. <<t, i>> = <<u, j>>
      BY <2>1
    <3> QED BY <3>1
  <2>5. \A p \in Line, t \in Thread : \A i \in DOMAIN pool[t] : ln[p].data # pool[t][i]
    BY <1>4, <1>7, <2>2
  <2> QED BY <1>7, <2>3, <2>4, <2>5 DEF BuffersOK
<1>10. ASSUME NEW t \in Thread PROVE ThreadOK(t)
  <2>1. Asked(t) = {} /\ Kept(t) = {} /\ Blocks(ring[t]) = {} /\ Differ(ring[t])
    BY <1>1, <1>3 DEF Asked, Kept, Blocks, Differ
  <2>2. OwnOK(t) /\ FoundOK(t)
    BY <1>1, <1>3 DEF OwnOK, FoundOK
  <2>3. Once(t) /\ MailOK(t)
    BY <1>1, <1>3, <2>1 DEF Once, MailOK, Busy
  <2> QED BY <2>2, <2>3 DEF ThreadOK
<1>11. \A t, u \in Thread : t # u => Apart(t, u)
  BY <1>1, <1>3 DEF Apart
<1> QED BY <1>6, <1>8, <1>9, <1>10, <1>11 DEF SetInv

LEMMA NextInv ==
  ASSUME SetInv, [Next]_vars
  PROVE  SetInv'
<1>1. CASE UNCHANGED vars
  <2>1. UNCHANGED <<ln, readers, writer, pool, th, ring, net, home, agent>>
    BY <1>1 DEF vars, hostVars, lineVars, envVars, agentVars
  <2>2. TypeOK'
    BY <2>1 DEF SetInv, TypeOK
  <2> QED BY <2>1, <2>2, Unchanged, IdleKeeps
<1>2. CASE \E r \in net : Grant(r) \/ CheckFail(r) \/ BitmapFail(r)
  BY <1>2, StepDirectory
<1>3. CASE \E b \in Block : Take(b)
  BY <1>3, StepTake
<1>4. CASE AgentTake \/ AgentApply
  BY <1>4, StepAgentTake, StepAgentApply
<1>5. ASSUME NEW t \in Thread, Begin(t) \/ DrainEviction(t) PROVE SetInv'
  BY <1>5, StepBegin, StepDrain
<1>6. ASSUME NEW t \in Thread, ThreadStep(t) PROVE SetInv'
  BY <1>6, StepStartMiss, StepLook, StepCheck, StepLoad, StepCopyData, StepNewLine, StepReceive, StepSpin, StepSettle,
     StepStartEvict, StepSendEvict, StepWaitEvict, StepUndoEvict, StepSpinEvict DEF ThreadStep
<1> QED BY <1>1, <1>2, <1>3, <1>4, <1>5, <1>6 DEF Next

------------------------------------------------------------------------------
(* What the invariant implies *)

LEMMA OwnerOfBuffer ==
  ASSUME SetInv
  PROVE  OneOwner
<1> SUFFICES ASSUME NEW b \in Buffer PROVE \E x \in Holders(b) : Holders(b) = {x}
  BY DEF OneOwner
<1>1. BuffersOK /\ b # None
  BY SetCacheAssumption DEF SetInv
<1>2. \A x : x \in Holders(b) <=> \/ \E p \in Line : ln[p].data = b /\ x = <<"line", p>>
                                  \/ \E t \in Thread : \E i \in DOMAIN pool[t] : pool[t][i] = b /\ x = <<"stack", t, i>>
  BY DEF Holders
<1>3. \E x : x \in Holders(b)
  <2>1. CASE \E p \in Line : ln[p].data = b
    BY <1>2, <2>1
  <2>2. CASE \E t \in Thread : \E i \in DOMAIN pool[t] : pool[t][i] = b
    BY <1>2, <2>2
  <2> QED BY <1>1, <2>1, <2>2 DEF BuffersOK
<1>4. ASSUME NEW x \in Holders(b), NEW y \in Holders(b) PROVE x = y
  <2>1. CASE \E p \in Line : ln[p].data = b /\ x = <<"line", p>>
    BY <1>1, <1>2, <1>4, <2>1 DEF BuffersOK
  <2>2. CASE \E t \in Thread : \E i \in DOMAIN pool[t] : pool[t][i] = b /\ x = <<"stack", t, i>>
    BY <1>1, <1>2, <1>4, <2>2 DEF BuffersOK
  <2> QED BY <1>2, <2>1, <2>2
<1> QED BY <1>3, <1>4

LEMMA LineOfBlock ==
  ASSUME SetInv
  PROVE  OneLine
<1>1. LinesOK
  BY DEF SetInv
<1>2. \A b : \A p \in Found("set", b) \cup Found("shadow", b) : p \in Line /\ Alive(p) /\ ln[p].tag = b
  BY FoundIs
<1> QED BY <1>1, <1>2 DEF OneLine, LinesOK

LEMMA AloneUnderWay ==
  ASSUME SetInv
  PROVE  EvictedAlone
<1> SUFFICES ASSUME NEW r \in net, r.type \in EvictType
             PROVE  \E p \in Line :
                      /\ p[1] = "shadow" /\ ln[p].tag = r.block /\ ln[p].data = r.data
                      /\ \A t \in Thread : th[t].pc \in {"load", "copy"} =>
                           th[t].line # p /\ ln[th[t].line].data # r.data
  BY DEF EvictedAlone
<1>1. LinesOK /\ BuffersOK /\ LocksOK /\ r.thread \in Thread /\ MailOK(r.thread)
  BY DEF SetInv, ThreadOK, TypeOK
<1>2. PICK s \in Line : Evicts(r.thread, r.block, s) /\ ln[s].data = r.data
  BY <1>1 DEF MailOK
<1>3. s[1] = "shadow" /\ Alive(s) /\ ln[s].tag = r.block /\ writer[s] # {} /\ readers[s] = {}
  BY <1>1, <1>2 DEF Evicts, LocksOK
<1>4. ASSUME NEW t \in Thread, th[t].pc \in {"load", "copy"}
      PROVE  th[t].line # s /\ ln[th[t].line].data # r.data
  <2>1. FoundOK(t)
    BY DEF SetInv, ThreadOK
  <2>2. PICK p \in Line : p = th[t].line
    BY <1>4, <2>1, RegistersTyped DEF SetInv, FoundOK
  <2>3. p # s
    BY <1>3, <1>4, <2>1, <2>2 DEF FoundOK, Exclusive
  <2>4. ln[p].data # ln[s].data
    BY <1>1, <1>3, <2>3 DEF BuffersOK, LinesOK
  <2> QED BY <1>2, <2>2, <2>3, <2>4
<1> QED BY <1>2, <1>3, <1>4

------------------------------------------------------------------------------
(* Theorems *)

\* SetInv is inductive: every state of a set that the threads, the agent and the
\* directory reach has it.
THEOREM SetCacheInvariant == Spec => []SetInv
<1>1. Init => SetInv
  BY InitInv
<1>2. SetInv /\ [Next]_vars => SetInv'
  BY NextInv
<1> QED BY <1>1, <1>2, PTL DEF Spec

\* The lines, locks, stacks, rings and requests of a set keep their types, for any
\* number of threads, blocks, ways and buffers (Cache.cpp).
THEOREM SetCacheTypeCorrect == Spec => []TypeOK
<1>1. SetInv => TypeOK
  BY DEF SetInv
<1> QED BY <1>1, SetCacheInvariant, PTL

\* No eviction, no free of a shadow line and no newLine loses a buffer or gives it
\* to two owners, in whatever order the threads of a node make them.
THEOREM SetCacheOneOwner == Spec => []OneOwner
<1>1. SetInv => OneOwner
  BY OwnerOfBuffer
<1> QED BY <1>1, SetCacheInvariant, PTL

\* newLine, which looks again under the set lock, never makes a second line for a
\* block, and a block that moves to the shadow set leaves the set.
THEOREM SetCacheOneLine == Spec => []OneLine
<1>1. SetInv => OneLine
  BY LineOfBlock
<1> QED BY <1>1, SetCacheInvariant, PTL

\* While a request to evict is under way, its shadow line is nobody else's:
\* start_evict has waited for its lock and has it for writing until the reply, so
\* that no thread that found this line copies, and whoever still copies to or from the
\* buffer was called with it through a line that newLine has since given another.
THEOREM SetCacheEvictedAlone == Spec => []EvictedAlone
<1>1. SetInv => EvictedAlone
  BY AloneUnderWay
<1> QED BY <1>1, SetCacheInvariant, PTL
==============================================================================
