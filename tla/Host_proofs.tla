----------------------------- MODULE Host_proofs -----------------------------
(****************************************************************************)
(* The lock excludes writers from everybody else, and its word always      *)
(* counts the readers, for any number of threads that the word can count.   *)
(* Global memory is never handed out twice, for any number of nodes,        *)
(* threads and system threads and any sizes; and an access of any size,     *)
(* from any address, is cut into the right pieces.                          *)
(****************************************************************************)
EXTENDS Host, FiniteSetTheorems, TLAPS

------------------------------------------------------------------------------
(* The lock *)
\* The readers can be counted, and the word has room for them.
LEMMA ReadersFit ==
  /\ IsFiniteSet(Reading)
  /\ Cardinality(Reading) \in Nat
  /\ Cardinality(Reading) <= Cardinality(Thread)
  /\ Cardinality(Thread) \in Nat
<1>1. IsFiniteSet(Thread) /\ Reading \subseteq Thread
  BY WordAssumption DEF Reading
<1> QED BY <1>1, FS_Subset, FS_CardinalityType

\* The word tells whether there is a writer: 1 is not twice a number.
LEMMA WordTells ==
  ASSUME LockInv
  PROVE  /\ l = LOCKED <=> Writing # {}
         /\ l = UNLOCKED <=> Writing = {} /\ Reading = {}
         /\ l # LOCKED => l = 2 * Cardinality(Reading)
<1>1. Cardinality(Reading) \in Nat /\ (Cardinality(Reading) = 0 <=> Reading = {})
  BY ReadersFit, FS_EmptySet
<1> QED BY <1>1 DEF LockInv, WordCounts, LOCKED, UNLOCKED

\* Steps that leave the word and the two sets as they are.
LEMMA NobodyMoves ==
  ASSUME LockInv, TypeOK', l' = l, Reading' = Reading, Writing' = Writing, Loaded'
  PROVE  LockInv'
BY DEF LockInv, Exclusive, WordCounts

\* Calling an operation changes nobody's place.
LEMMA CallInv == ASSUME LockInv, NEW t \in Thread, Call(t) PROVE LockInv'
<1>1. TypeOK' /\ l' = l /\ Reading' = Reading /\ Writing' = Writing /\ Loaded'
  BY DEF Call, Goto, LockInv, TypeOK, Reading, Writing, Loaded
<1> QED BY <1>1, NobodyMoves

\* Nor does loading the word.
LEMMA LoadInv ==
  ASSUME LockInv, NEW t \in Thread, WLoad(t) \/ RLoad(t) \/ RUnlockLoad(t)
  PROVE  LockInv'
<1>1. TypeOK' /\ l' = l /\ Reading' = Reading /\ Writing' = Writing /\ Loaded'
  BY DEF WLoad, RLoad, RUnlockLoad, Goto, LockInv, TypeOK, Reading, Writing, Loaded
<1> QED BY <1>1, NobodyMoves

\* A writer gets in only when the word says that nobody is.
LEMMA WCasInv == ASSUME LockInv, NEW t \in Thread, WCas(t) PROVE LockInv'
<1>1. CASE l # UNLOCKED
  <2>1. TypeOK' /\ l' = l /\ Reading' = Reading /\ Writing' = Writing /\ Loaded'
    BY <1>1 DEF WCas, Goto, LockInv, TypeOK, Reading, Writing, Loaded
  <2> QED BY <2>1, NobodyMoves
<1>2. CASE l = UNLOCKED
  <2>1. Writing = {} /\ Reading = {}
    BY <1>2, WordTells
  <2>2. LOCKED \in 0 .. Word - 1
    <3>1. Cardinality(Thread) # 0
      BY WordAssumption, FS_EmptySet
    <3> QED BY <3>1, WordAssumption, FS_CardinalityType DEF LOCKED
  <2>3. TypeOK' /\ l' = LOCKED
    BY <1>2, <2>2 DEF WCas, Goto, LockInv, TypeOK
  <2>4. Writing' = {t} /\ Reading' = {}
    BY <1>2, <2>1 DEF WCas, Goto, LockInv, TypeOK, Reading, Writing
  <2>5. Loaded'
    BY <1>2 DEF WCas, Goto, LockInv, TypeOK, Loaded
  <2> QED BY <2>3, <2>4, <2>5 DEF LockInv, Exclusive, WordCounts
<1> QED BY <1>1, <1>2

\* A reader adds itself to a word that is not LOCKED.
LEMMA RCasInv == ASSUME LockInv, NEW t \in Thread, RCas(t) PROVE LockInv'
<1>1. CASE l # v[t]
  <2>1. TypeOK' /\ l' = l /\ Reading' = Reading /\ Writing' = Writing /\ Loaded'
    BY <1>1 DEF RCas, Goto, LockInv, TypeOK, Reading, Writing, Loaded
  <2> QED BY <2>1, NobodyMoves
<1>2. CASE l = v[t]
  <2>1. l # LOCKED
    BY <1>2 DEF RCas, LockInv, Loaded
  <2>2. Writing = {} /\ l = 2 * Cardinality(Reading)
    BY <2>1, WordTells
  <2>3. t \notin Reading /\ Reading' = Reading \cup {t} /\ Writing' = {}
    BY <1>2, <2>2 DEF RCas, Goto, LockInv, TypeOK, Reading, Writing
  <2>4. Cardinality(Reading \cup {t}) = Cardinality(Reading) + 1
    BY <2>3, ReadersFit, FS_AddElement
  <2>5. Cardinality(Reading \cup {t}) <= Cardinality(Thread)
    BY WordAssumption, FS_Subset DEF Reading
  <2>6. l' = 2 * Cardinality(Reading') /\ l' \in 0 .. Word - 1
    <3>1. l' = (l + 2) % Word
      BY <1>2 DEF RCas
    <3>2. l + 2 = 2 * Cardinality(Reading \cup {t}) /\ l + 2 \in 0 .. Word - 1
      BY <2>2, <2>4, <2>5, ReadersFit, WordAssumption
    <3>3. (l + 2) % Word = l + 2
      BY <3>2, WordAssumption
    <3> QED BY <2>3, <3>1, <3>2, <3>3
  <2>7. TypeOK' /\ Loaded'
    BY <1>2, <2>6 DEF RCas, Goto, LockInv, TypeOK, Loaded
  <2> QED BY <2>3, <2>6, <2>7 DEF LockInv, Exclusive, WordCounts
<1> QED BY <1>1, <1>2

\* A reader takes itself off.
LEMMA RUnlockCasInv == ASSUME LockInv, NEW t \in Thread, RUnlockCas(t) PROVE LockInv'
<1>1. CASE l # v[t]
  <2>1. TypeOK' /\ l' = l /\ Reading' = Reading /\ Writing' = Writing /\ Loaded'
    BY <1>1 DEF RUnlockCas, Goto, LockInv, TypeOK, Reading, Writing, Loaded
  <2> QED BY <2>1, NobodyMoves
<1>2. CASE l = v[t]
  <2>1. t \in Reading
    BY DEF RUnlockCas, Reading
  <2>2. Writing = {}
    BY <2>1 DEF LockInv, Exclusive
  <2>3. l = 2 * Cardinality(Reading)
    BY <2>2 DEF LockInv, WordCounts
  <2>4. Reading' = Reading \ {t} /\ Writing' = {}
    BY <1>2, <2>2 DEF RUnlockCas, Goto, LockInv, TypeOK, Reading, Writing
  <2>5. Cardinality(Reading \ {t}) = Cardinality(Reading) - 1
    BY <2>1, ReadersFit, FS_RemoveElement
  <2>6. Cardinality(Reading \ {t}) \in Nat
    BY ReadersFit, FS_RemoveElement, FS_CardinalityType
  <2>7. l' = 2 * Cardinality(Reading') /\ l' \in 0 .. Word - 1
    <3>1. l' = (l - 2) % Word
      BY <1>2 DEF RUnlockCas
    <3>2. l - 2 = 2 * Cardinality(Reading \ {t}) /\ l - 2 \in 0 .. Word - 1
      BY <2>3, <2>5, <2>6, ReadersFit, WordAssumption
    <3>3. (l - 2) % Word = l - 2
      BY <3>2, WordAssumption
    <3> QED BY <2>4, <3>1, <3>2, <3>3
  <2>8. TypeOK' /\ Loaded'
    BY <1>2, <2>7 DEF RUnlockCas, Goto, LockInv, TypeOK, Loaded
  <2> QED BY <2>4, <2>7, <2>8 DEF LockInv, Exclusive, WordCounts
<1> QED BY <1>1, <1>2

\* A writer leaves an empty lock.
LEMMA WUnlockInv == ASSUME LockInv, NEW t \in Thread, WUnlock(t) PROVE LockInv'
<1>1. Reading = {} /\ Writing = {t}
  BY DEF WUnlock, LockInv, Exclusive, Writing
<1>2. Reading' = {} /\ Writing' = {}
  BY <1>1 DEF WUnlock, Goto, LockInv, TypeOK, Reading, Writing
<1>3. l' = 0 /\ Cardinality({}) = 0
  BY FS_EmptySet DEF WUnlock, UNLOCKED
<1>4. TypeOK' /\ Loaded'
  BY <1>3, WordAssumption, FS_CardinalityType DEF WUnlock, Goto, LockInv, TypeOK, Loaded
<1> QED BY <1>2, <1>3, <1>4 DEF LockInv, Exclusive, WordCounts

\* Nobody is inside at the start.
LEMMA InitInv == Init => LockInv
<1> SUFFICES ASSUME Init PROVE LockInv
  OBVIOUS
<1>1. Reading = {} /\ Writing = {}
  BY DEF Init, Reading, Writing
<1>2. TypeOK /\ Loaded
  BY WordAssumption, FS_CardinalityType DEF Init, TypeOK, Loaded, UNLOCKED
<1>3. WordCounts
  BY <1>1, FS_EmptySet DEF Init, WordCounts, UNLOCKED
<1> QED BY <1>1, <1>2, <1>3 DEF LockInv, Exclusive

\* Every step keeps the invariant.
LEMMA NextInv == LockInv /\ [Next]_vars => LockInv'
<1> SUFFICES ASSUME LockInv, [Next]_vars PROVE LockInv'
  OBVIOUS
<1>1. CASE UNCHANGED vars
  BY <1>1 DEF vars, LockInv, TypeOK, Exclusive, WordCounts, Loaded, Reading, Writing
<1>2. CASE Next
  BY <1>2, CallInv, LoadInv, WCasInv, RCasInv, RUnlockCasInv, WUnlockInv DEF Next, Step, Unlock
<1> QED BY <1>1, <1>2

\* The invariant holds always.
LEMMA Always == Spec => []LockInv
BY InitInv, NextInv, PTL DEF Spec

\* The word stays within its 16 bits, and every thread is where its calls and the
\* values it loaded allow it to be.
THEOREM LockTypeCorrect == Spec => []TypeOK
<1>1. LockInv => TypeOK
  BY DEF LockInv
<1> QED BY <1>1, Always, PTL

\* Between wLock and wUnlock a thread is alone, whatever loads and swaps of other
\* threads come in between.
THEOREM LockExclusive == Spec => []Exclusive
<1>1. LockInv => Exclusive
  BY DEF LockInv
<1> QED BY <1>1, Always, PTL

\* The word is LOCKED or twice the number of readers: the additions of rLock and
\* the subtractions of rUnlock never overflow the 16 bits and none is lost.
THEOREM LockWordCounts == Spec => []WordCounts
<1>1. LockInv => WordCounts
  BY DEF LockInv
<1> QED BY <1>1, Always, PTL

------------------------------------------------------------------------------
(* Arithmetic *)

\* Multiplication keeps the order.
LEMMA MulMono ==
  ASSUME NEW c \in Nat, NEW a \in Nat, NEW b \in Nat, a <= b
  PROVE  c * a \in Nat /\ c * b \in Nat /\ c * a <= c * b
<1>1. PICK d \in Nat : b = a + d
  <2>1. b - a \in Nat /\ b = a + (b - a)
    OBVIOUS
  <2> QED BY <2>1
<1>2. c * b = c * a + c * d
  BY <1>1
<1>3. c * d \in Nat /\ c * a \in Nat
  OBVIOUS
<1> QED BY <1>2, <1>3

\* One more of c.
LEMMA MulNext ==
  ASSUME NEW c \in Nat, NEW a \in Nat
  PROVE  c * (a + 1) = c * a + c /\ c * a \in Nat /\ c * (a + 1) \in Nat
OBVIOUS

\* What division gives.
LEMMA DivBound ==
  ASSUME NEW a \in Nat, NEW b \in Nat \ {0}
  PROVE  /\ a \div b \in Nat /\ b * (a \div b) \in Nat /\ a - b * (a \div b) \in 0 .. b - 1
         /\ a % b \in 0 .. b - 1
OBVIOUS

\* Quotient and remainder are the only numbers that behave as such.
LEMMA DivIs ==
  ASSUME NEW b \in Nat \ {0}, NEW q \in Nat, NEW r \in 0 .. b - 1
  PROVE  (b * q + r) \div b = q /\ (b * q + r) % b = r
OBVIOUS

\* A number is its quotient and its remainder.
LEMMA DivMod ==
  ASSUME NEW a \in Nat, NEW b \in Nat \ {0}
  PROVE  a = b * (a \div b) + (a % b)
<1> DEFINE q == a \div b
           r == a - b * q
<1>1. q \in Nat /\ b * q \in Nat /\ r \in 0 .. b - 1
  BY DivBound
<1>2. a = b * q + r
  BY <1>1
<1> HIDE DEF q, r
<1>3. (b * q + r) % b = r
  BY <1>1, DivIs
<1>4. a % b = r
  BY <1>2, <1>3
<1>5. a = b * q + (a % b)
  BY <1>2, <1>4
<1> QED BY <1>5 DEF q

\* Sums of multiples are multiples.
Multiple(a, m) == a % m = 0

\* A sum of multiples of a and b, where both are multiples of m, is one of m.
LEMMA Multiples ==
  ASSUME NEW m \in Nat \ {0}, NEW a \in Nat, NEW b \in Nat, NEW x \in Nat, NEW y \in Nat,
         Multiple(a, m), Multiple(b, m)
  PROVE  Multiple(a * x + b * y, m)
<1> DEFINE p == a \div m
           q == b \div m
<1>1. p \in Nat /\ q \in Nat /\ a = m * p /\ b = m * q
  <2>1. a = m * p + (a % m) /\ b = m * q + (b % m) /\ p \in Nat /\ q \in Nat
    BY DivMod, DivBound
  <2>3. a % m = 0 /\ b % m = 0
    BY DEF Multiple
  <2>2. m * p \in Nat /\ m * q \in Nat
    BY <2>1
  <2> QED BY <2>1, <2>2, <2>3
<1> HIDE DEF p, q
<1>2. a * x + b * y = m * (p * x + q * y) + 0
  BY <1>1
<1>3. p * x + q * y \in Nat
  BY <1>1
<1>4. 0 \in 0 .. m - 1
  OBVIOUS
<1>5. (m * (p * x + q * y) + 0) % m = 0
  BY <1>3, <1>4, DivIs
<1> QED BY <1>2, <1>5 DEF Multiple

\* An offset below the end of a part is one of the whole.
LEMMA Offset ==
  ASSUME NEW n \in Nat, NEW m \in Nat, NEW a \in Nat, n <= m, NEW k \in 0 .. n - 1
  PROVE  k \in 0 .. m - 1 /\ a + k \in Nat
OBVIOUS

\* The last byte of a piece and the byte before it.
LEMMA PieceEnd ==
  ASSUME NEW a \in Nat, NEW t \in Nat, NEW len \in Nat, NEW i, NEW u, t > 0, i = a + t, u = t + len
  PROVE  a + u - 1 = i + (len - 1) /\ a + t - 1 = i - 1 /\ i > 0
OBVIOUS

\* Division keeps the order.
LEMMA DivMono ==
  ASSUME NEW b \in Nat \ {0}, NEW x \in Nat, NEW y \in Nat, x <= y
  PROVE  x \div b <= y \div b
<1> DEFINE p == x \div b
           q == y \div b
<1>1. p \in Nat /\ q \in Nat /\ x - b * p \in 0 .. b - 1 /\ y - b * q \in 0 .. b - 1
      /\ b * p \in Nat /\ b * q \in Nat
  BY DivBound
<1> HIDE DEF p, q
<1>2. ~(q < p)
  <2> SUFFICES ASSUME q < p PROVE FALSE
    OBVIOUS
  <2>1. b * (q + 1) <= b * p /\ b * (q + 1) = b * q + b
    BY <1>1, MulMono, MulNext
  <2> QED BY <1>1, <2>1
<1>3. p <= q
  BY <1>1, <1>2
<1> QED BY <1>3 DEF p, q

------------------------------------------------------------------------------
(* Where chunks are *)

\* The shares of the system threads fit into the memory of the node, and the chunks of a
\* system thread into its share, however the divisions round.
LEMMA Memory ==
  /\ N \in Nat /\ S \in Nat /\ S > 0 /\ Chunk \in Nat /\ Chunk > 0 /\ Line \in Nat /\ Line > 0
  /\ Sizes \subseteq 1 .. Chunk /\ Chunk % Line = 0
  /\ GmemSize \in Nat /\ PerSyst \in Nat /\ Chunks \in Nat
  /\ S * PerSyst \in Nat /\ S * PerSyst <= GmemSize
  /\ Chunk * Chunks \in Nat /\ Chunk * Chunks <= PerSyst
<1>1. /\ N \in Nat /\ S \in Nat \ {0} /\ Chunk \in Nat \ {0} /\ Line \in Nat \ {0}
      /\ Sizes \subseteq 1 .. Chunk /\ Chunk % Line = 0
  BY AllocAssumption
<1>2. GmemSize \in Nat
  <2> DEFINE asked == IF UserMem > MinMem THEN UserMem ELSE MinMem
  <2>1. asked \in Nat /\ Unit \in Nat \ {0}
    BY AllocAssumption
  <2> HIDE DEF asked
  <2>2. asked \div Unit \in Nat
    BY <2>1, DivBound
  <2>3. (asked \div Unit + 1) * Unit \in Nat
    BY <2>1, <2>2
  <2> QED BY <2>3 DEF GmemSize, asked
<1>3. PerSyst \in Nat /\ S * PerSyst \in Nat /\ S * PerSyst <= GmemSize
  BY <1>1, <1>2, DivBound DEF PerSyst
<1>4. Chunks \in Nat /\ Chunk * Chunks \in Nat /\ Chunk * Chunks <= PerSyst
  <2>1. PerSyst \in Nat /\ Chunk \in Nat \ {0}
    BY <1>1, <1>3
  <2>2. /\ PerSyst \div Chunk \in Nat /\ Chunk * (PerSyst \div Chunk) \in Nat
        /\ PerSyst - Chunk * (PerSyst \div Chunk) \in 0 .. Chunk - 1
    BY ONLY <2>1, DivBound
  <2>3. Chunk * Chunks \in Nat /\ PerSyst - Chunk * Chunks \in 0 .. Chunk - 1 /\ Chunks \in Nat
    BY ONLY <2>2 DEF Chunks
  <2> QED BY <2>1, <2>3
<1> QED BY <1>1, <1>2, <1>3, <1>4

\* A size asked for fits a chunk.
LEMMA SizeIs == ASSUME NEW z \in Sizes PROVE z \in Nat /\ z > 0 /\ z <= Chunk
<1>1. Sizes \subseteq 1 .. Chunk /\ Chunk \in Nat
  BY Memory
<1> QED BY <1>1

\* The chunks of a system thread lie in its share.
LEMMA InShare ==
  ASSUME NEW s \in Syst, NEW k \in 0 .. Chunks - 1
  PROVE  /\ Base(s, k) \in Nat /\ PerSyst * s \in Nat /\ PerSyst * s <= Base(s, k)
         /\ Base(s, k) + Chunk <= PerSyst * s + PerSyst
<1>1. s \in Nat /\ k \in Nat /\ k + 1 <= Chunks
  BY Memory DEF Syst
<1>2. Chunk * (k + 1) = Chunk * k + Chunk /\ Chunk * k \in Nat
  BY <1>1, Memory, MulNext
<1>3. Chunk * (k + 1) <= Chunk * Chunks
  BY <1>1, Memory, MulMono
<1>4. PerSyst * s \in Nat
  BY <1>1, Memory
<1> QED BY <1>2, <1>3, <1>4, Memory DEF Base

\* Chunks of a node do not overlap.
LEMMA BasesApart ==
  ASSUME NEW s \in Syst, NEW k \in 0 .. Chunks - 1, NEW u \in Syst, NEW j \in 0 .. Chunks - 1,
         s < u \/ (s = u /\ k < j)
  PROVE  Base(s, k) + Chunk <= Base(u, j)
<1>1. s \in Nat /\ k \in Nat /\ u \in Nat /\ j \in Nat
  BY Memory DEF Syst
<1>2. CASE s < u
  <2>1. PerSyst * (s + 1) <= PerSyst * u /\ PerSyst * (s + 1) = PerSyst * s + PerSyst
    BY <1>1, <1>2, Memory, MulMono, MulNext
  <2>2. Base(s, k) + Chunk <= PerSyst * s + PerSyst
    BY InShare
  <2>4. PerSyst * u <= Base(u, j)
    BY InShare
  <2>3. Base(s, k) \in Nat /\ PerSyst * s \in Nat /\ PerSyst * u \in Nat /\ Base(u, j) \in Nat
    BY InShare
  <2> QED BY <2>1, <2>2, <2>3, <2>4, Memory
<1>3. CASE s = u /\ k < j
  <2>1. Chunk * (k + 1) <= Chunk * j /\ Chunk * (k + 1) = Chunk * k + Chunk /\ Chunk * k \in Nat /\ Chunk * j \in Nat
    BY <1>1, <1>3, Memory, MulMono, MulNext
  <2>2. PerSyst * s \in Nat
    BY <1>1, Memory
  <2> QED BY <1>3, <2>1, <2>2, Memory DEF Base
<1> QED BY <1>2, <1>3

\* The last chunk of the last system thread ends within the memory of the node.
LEMMA BaseInMemory ==
  ASSUME NEW s \in Syst, NEW k \in 0 .. Chunks - 1
  PROVE  Base(s, k) + Chunk <= GmemSize
<1>0. S \in Nat
  BY Memory
<1>1. s \in Nat /\ s + 1 <= S
  BY <1>0 DEF Syst
<1>2. PerSyst * (s + 1) <= PerSyst * S /\ PerSyst * (s + 1) = PerSyst * s + PerSyst
  BY <1>1, Memory, MulMono, MulNext
<1>3. PerSyst * S = S * PerSyst
  BY Memory
<1>4. Base(s, k) + Chunk <= PerSyst * s + PerSyst /\ Base(s, k) \in Nat /\ PerSyst * s \in Nat
  BY InShare
<1> QED BY <1>2, <1>3, <1>4, Memory

\* If the shares are whole lines, chunks begin at lines.
LEMMA BaseAligned ==
  ASSUME NEW s \in Syst, NEW k \in 0 .. Chunks - 1, PerSyst % Line = 0
  PROVE  Base(s, k) % Line = 0
<1>1. s \in Nat /\ k \in Nat
  BY Memory DEF Syst
<1>2. PerSyst \in Nat /\ Chunk \in Nat /\ Chunk % Line = 0 /\ Line \in Nat \ {0}
  BY Memory
<1>3. Multiple(PerSyst, Line) /\ Multiple(Chunk, Line)
  BY <1>2 DEF Multiple
<1>4. Multiple(PerSyst * s + Chunk * k, Line)
  BY <1>1, <1>2, <1>3, Multiples, Zenon
<1> QED BY <1>4 DEF Base, Multiple

\* Rounding up to a line.
LEMMA AlignedIs ==
  ASSUME NEW a \in Nat
  PROVE  Aligned(a) \in Nat /\ a <= Aligned(a) /\ (a % Line = 0 => Aligned(a) = a)
<1> DEFINE q == a \div Line
<1>1. q \in Nat /\ Line * q \in Nat /\ a - Line * q \in 0 .. Line - 1 /\ Line \in Nat
  BY Memory, DivBound
<1> HIDE DEF q
<1>2. (q + 1) * Line = Line * q + Line
  BY <1>1
<1>3. (q + 1) * Line \in Nat /\ a <= (q + 1) * Line
  BY <1>1, <1>2
<1> QED BY <1>3 DEF Aligned, q
------------------------------------------------------------------------------
(* The allocator *)

\* The agents of node n have handed out the chunk at a.
Issued(n, a) == \E s \in Syst : \E k \in 0 .. Chunks - 1 : k < tail[n][s] /\ a = Base(s, k)

\* The chunk a thread cuts pieces from, and the one it has just been granted.
Cuts(t, n, a) == local[t].has /\ local[t].node = n /\ local[t].head = a
Granted(t, n, a) == call[t] = "ack" /\ next[t] = n /\ grant[t] = a

\* A chunk that has been handed out belongs to one thread.
ChunksOK ==
  /\ \A t \in AppThread : local[t].has =>
       Issued(local[t].node, local[t].head) /\ local[t].head <= local[t].cur
  /\ \A t \in AppThread : call[t] = "ack" => Issued(next[t], grant[t])
  /\ \A t, u \in AppThread : t # u /\ local[t].has => ~Cuts(u, local[t].node, local[t].head)
  /\ \A t, u \in AppThread : call[t] = "ack" => ~Cuts(u, next[t], grant[t])
  /\ \A t, u \in AppThread : t # u /\ call[t] = "ack" => ~Granted(u, next[t], grant[t])

\* A thread that waits for a chunk has a call to finish.
CallsOK == \A t \in AppThread : call[t] \in {"asks", "ack"} => want[t].size \in Sizes

\* What malloc has returned lies in one chunk, and below the mark of the thread that
\* cuts it; nothing lies in a chunk that has just been granted.
Within(r, a) ==
  /\ Issued(r.node, a) /\ a <= r.lo /\ r.lo + r.size <= a + Chunk
  /\ \A t \in AppThread : Cuts(t, r.node, a) => r.lo + r.size <= local[t].cur
  /\ \A t \in AppThread : ~Granted(t, r.node, a)

RegionsOK == \A r \in DOMAIN regions : \E a \in 0 .. GmemSize : Within(r, a)

AllocInv == AllocTypeOK /\ ChunksOK /\ CallsOK /\ RegionsOK /\ Disjoint /\ FreshChunkFits

------------------------------------------------------------------------------
\* What has been handed out lies in the memory of its node.
LEMMA IssuedIs ==
  ASSUME NEW n, NEW a, Issued(n, a)
  PROVE  /\ a \in Nat /\ a + Chunk <= GmemSize /\ a \in 0 .. GmemSize
         /\ PerSyst % Line = 0 => a % Line = 0
<1>1. PICK s \in Syst, k \in 0 .. Chunks - 1 : a = Base(s, k)
  BY DEF Issued
<1>2. Base(s, k) \in Nat /\ Base(s, k) + Chunk <= GmemSize
  BY InShare, BaseInMemory
<1>3. PerSyst % Line = 0 => Base(s, k) % Line = 0
  BY BaseAligned
<1>4. Chunk \in Nat /\ GmemSize \in Nat
  BY Memory
<1> QED BY <1>1, <1>2, <1>3, <1>4

\* Two chunks that have been handed out do not overlap.
LEMMA IssuedApart ==
  ASSUME NEW n, NEW a, NEW b, Issued(n, a), Issued(n, b), a # b
  PROVE  a + Chunk <= b \/ b + Chunk <= a
<1>1. PICK s \in Syst, k \in 0 .. Chunks - 1 : a = Base(s, k)
  BY DEF Issued
<1>2. PICK u \in Syst, j \in 0 .. Chunks - 1 : b = Base(u, j)
  BY DEF Issued
<1>3. s \in Int /\ u \in Int /\ k \in Int /\ j \in Int
  BY Memory DEF Syst
<1>4. CASE s < u \/ (s = u /\ k < j)
  BY <1>1, <1>2, <1>4, BasesApart
<1>5. CASE u < s \/ (u = s /\ j < k)
  BY <1>1, <1>2, <1>5, BasesApart
<1>6. CASE s = u /\ k = j
  BY <1>1, <1>2, <1>6
<1> QED BY <1>3, <1>4, <1>5, <1>6

\* The next chunk of an allocator has not been handed out.
LEMMA NextIsNew ==
  ASSUME AllocTypeOK, NEW n \in Node, NEW s \in Syst, ~Full(n, s)
  PROVE  tail[n][s] \in 0 .. Chunks - 1 /\ ~Issued(n, Base(s, tail[n][s]))
<1>1. tail[n][s] \in 0 .. Chunks /\ Chunks \in Nat
  BY Memory DEF AllocTypeOK
<1> DEFINE k == tail[n][s]
<1>2. k \in 0 .. Chunks - 1
  BY <1>1 DEF Full
<1>3. SUFFICES ASSUME NEW u \in Syst, NEW j \in 0 .. Chunks - 1, j < tail[n][u], Base(s, k) = Base(u, j)
               PROVE  FALSE
  BY <1>2 DEF Issued
<1> HIDE DEF k
<1>4. s \in Int /\ u \in Int
  BY Memory DEF Syst
<1>5. s # u \/ k # j
  BY <1>3 DEF k
<1>6. Base(s, k) \in Nat /\ Base(u, j) \in Nat /\ Chunk \in Nat /\ Chunk > 0
  <2>1. Base(s, k) \in Nat
    BY <1>2, InShare
  <2>2. Base(u, j) \in Nat
    BY InShare
  <2> QED BY <2>1, <2>2, Memory
<1>7. CASE s < u \/ (s = u /\ k < j)
  <2>1. Base(s, k) + Chunk <= Base(u, j)
    BY <1>2, <1>7, BasesApart
  <2> QED BY <1>3, <1>6, <2>1
<1>8. CASE u < s \/ (u = s /\ j < k)
  <2>1. Base(u, j) + Chunk <= Base(s, k)
    BY <1>2, <1>8, BasesApart
  <2> QED BY <1>3, <1>6, <2>1
<1> QED BY <1>2, <1>4, <1>5, <1>7, <1>8

\* What malloc does with the mark of a thread.
LEMMA Marks ==
  ASSUME NEW lc \in [has : BOOLEAN, node : Node, head : Nat, cur : Nat],
         NEW w \in [size : Sizes \cup {0}, align : BOOLEAN]
  PROVE  /\ Start(lc, w) \in Nat /\ lc.cur <= Start(lc, w) /\ w.size \in Nat
         /\ After(lc, w) \in [has : BOOLEAN, node : Node, head : Nat, cur : Nat]
         /\ After(lc, w).has = lc.has /\ After(lc, w).node = lc.node /\ After(lc, w).head = lc.head
         /\ lc.cur <= After(lc, w).cur
         /\ ~NeedChunk(lc, w) => After(lc, w).cur = Start(lc, w) + w.size
         /\ lc.cur % Line = 0 => Start(lc, w) = lc.cur
<1>1. Start(lc, w) \in Nat /\ lc.cur <= Start(lc, w) /\ (lc.cur % Line = 0 => Start(lc, w) = lc.cur)
  BY AlignedIs DEF Start
<1>2. w.size \in Nat
  <2>1. w.size \in Sizes \/ w.size = 0
    OBVIOUS
  <2> QED BY <2>1, SizeIs
<1> DEFINE c == IF NeedChunk(lc, w) THEN Start(lc, w) ELSE Start(lc, w) + w.size
<1>3. c \in Nat /\ lc.cur <= c /\ (~NeedChunk(lc, w) => c = Start(lc, w) + w.size)
  BY <1>1, <1>2
<1> HIDE DEF c
<1>4. After(lc, w) = [lc EXCEPT !.cur = c]
  BY DEF After, c
<1> QED BY <1>1, <1>2, <1>3, <1>4

\* A new region that overlaps none.
LEMMA AddRegion ==
  ASSUME AllocTypeOK, Disjoint, NEW x \in [node : Node, lo : Nat, size : Sizes],
         \A r \in DOMAIN regions : Apart(r, x),
         regions' = regions (+) SetToBag({x})
  PROVE  /\ DOMAIN regions' = DOMAIN regions \cup {x}
         /\ IsABag(regions') /\ BagToSet(regions') \subseteq [node : Node, lo : Nat, size : Sizes]
         /\ Disjoint'
<1>1. x.size \in Nat /\ x.size > 0 /\ x.lo \in Nat
  <2>1. x.size \in Sizes /\ x.lo \in Nat
    OBVIOUS
  <2> QED BY <2>1, SizeIs
<1>2. x \notin DOMAIN regions
  BY <1>1 DEF Apart
<1>3. /\ DOMAIN regions' = DOMAIN regions \cup {x} /\ regions'[x] = 1
      /\ \A r \in DOMAIN regions : regions'[r] = regions[r]
  <2>1. regions \in [DOMAIN regions -> {i \in Nat : i > 0}]
    BY DEF AllocTypeOK, IsABag
  <2> QED BY <1>2, <2>1 DEF (+), SetToBag
<1>4. IsABag(regions')
  <2>1. regions' \in [DOMAIN regions \cup {x} -> {i \in Nat : i > 0}]
    BY <1>3 DEF AllocTypeOK, IsABag, (+), SetToBag
  <2> QED BY <1>3, <2>1 DEF IsABag
<1>5. BagToSet(regions') \subseteq [node : Node, lo : Nat, size : Sizes]
  BY <1>3 DEF AllocTypeOK, BagToSet
<1>6. Disjoint'
  BY <1>3 DEF Disjoint, BagToSet, Apart
<1> QED BY <1>3, <1>4, <1>5, <1>6

\* A piece cut from a chunk overlaps nothing that was cut before.
LEMMA CutApart ==
  ASSUME AllocTypeOK, RegionsOK, NEW lc \in [has : BOOLEAN, node : Node, head : Nat, cur : Nat],
         NEW w \in [size : Sizes, align : BOOLEAN], ~NeedChunk(lc, w),
         Issued(lc.node, lc.head), lc.head <= lc.cur,
         \A r \in DOMAIN regions : r.node = lc.node /\ Within(r, lc.head) => r.lo + r.size <= lc.cur
  PROVE  /\ Region(lc, w) \in [node : Node, lo : Nat, size : Sizes]
         /\ lc.head <= Region(lc, w).lo /\ Region(lc, w).lo + Region(lc, w).size <= lc.head + Chunk
         /\ \A r \in DOMAIN regions : Apart(r, Region(lc, w))
<1> DEFINE x == Region(lc, w)
<1>1. /\ x.node = lc.node /\ x.lo = Start(lc, w) /\ x.size = w.size
      /\ Start(lc, w) \in Nat /\ lc.cur <= Start(lc, w) /\ w.size \in Nat /\ lc.cur \in Nat /\ lc.head \in Nat
  BY Marks DEF Region
<1>2. x.lo + x.size <= lc.head + Chunk /\ lc.head <= x.lo
  BY <1>1, Memory DEF NeedChunk
<1>3. x \in [node : Node, lo : Nat, size : Sizes]
  BY <1>1 DEF Region
<1> HIDE DEF x
<1>4. ASSUME NEW r \in DOMAIN regions PROVE Apart(r, x)
  <2>1. r.lo \in Nat /\ r.size \in Nat
    <3>1. r.lo \in Nat /\ r.size \in Sizes
      BY DEF AllocTypeOK, BagToSet
    <3> QED BY <3>1, SizeIs
  <2>2. PICK a \in 0 .. GmemSize : Within(r, a)
    BY DEF RegionsOK
  <2>3. CASE r.node # lc.node
    BY <1>1, <2>3 DEF Apart
  <2>4. CASE r.node = lc.node /\ a = lc.head
    BY <1>1, <2>1, <2>2, <2>4 DEF Apart
  <2>5. CASE r.node = lc.node /\ a # lc.head
    <3>1. a + Chunk <= lc.head \/ lc.head + Chunk <= a
      BY <2>2, <2>5, IssuedApart DEF Within
    <3>2. a <= r.lo /\ r.lo + r.size <= a + Chunk
      BY <2>2 DEF Within
    <3>3. Chunk \in Nat /\ a \in Nat
      BY Memory
    <3> QED BY <1>1, <1>2, <1>3, <2>1, <3>1, <3>2, <3>3 DEF Apart
  <2> QED BY <2>3, <2>4, <2>5
<1> QED BY <1>2, <1>3, <1>4 DEF x

\* Nothing has been handed out at the start.
LEMMA AllocInitInv == AllocInit => AllocInv
<1> SUFFICES ASSUME AllocInit PROVE AllocInv
  OBVIOUS
<1>1. regions = EmptyBag /\ DOMAIN regions = {} /\ IsABag(regions)
  BY DEF AllocInit, EmptyBag, SetToBag, IsABag
<1>2. AllocTypeOK
  <2>1. Chunks \in Nat /\ 0 \in Node
    BY Memory, AllocAssumption DEF Node
  <2>2. tail \in [Node -> [Syst -> 0 .. Chunks]]
    BY <2>1 DEF AllocInit
  <2>3. /\ want \in [AppThread -> [size : Sizes \cup {0}, align : BOOLEAN]]
        /\ local \in [AppThread -> [has : BOOLEAN, node : Node, head : Nat, cur : Nat]]
    BY <2>1 DEF AllocInit, NoCall
  <2>4. /\ call \in [AppThread -> {"idle", "asks", "ack", "fail", "assert"}]
        /\ next \in [AppThread -> Node] /\ grant \in [AppThread -> Nat]
    BY DEF AllocInit
  <2>5. BagToSet(regions) \subseteq [node : Node, lo : Nat, size : Sizes]
    BY <1>1 DEF BagToSet
  <2> QED BY <1>1, <2>2, <2>3, <2>4, <2>5 DEF AllocTypeOK
<1>3. ChunksOK /\ CallsOK /\ FreshChunkFits
  BY DEF AllocInit, ChunksOK, CallsOK, FreshChunkFits, Cuts, Granted
<1>4. RegionsOK /\ Disjoint
  BY <1>1 DEF RegionsOK, Disjoint, BagToSet
<1> QED BY <1>2, <1>3, <1>4 DEF AllocInv

\* A call that moves the mark of a thread only.
LEMMA MarkMoves ==
  ASSUME AllocInv, NEW t \in AppThread, NEW w \in [size : Sizes, align : BOOLEAN],
         local' = [local EXCEPT ![t] = After(local[t], w)], UNCHANGED <<tail, next, grant>>,
         \A u \in AppThread : call'[u] = "ack" <=> call[u] = "ack"
  PROVE  /\ local' \in [AppThread -> [has : BOOLEAN, node : Node, head : Nat, cur : Nat]]
         /\ ChunksOK'
         /\ \A r \in DOMAIN regions : \E a \in 0 .. GmemSize : Within(r, a)'
<1> DEFINE Local == [has : BOOLEAN, node : Node, head : Nat, cur : Nat]
<1>0. local \in [AppThread -> Local]
  BY DEF AllocInv, AllocTypeOK
<1>1. /\ After(local[t], w) \in Local /\ After(local[t], w).has = local[t].has
      /\ After(local[t], w).node = local[t].node /\ After(local[t], w).head = local[t].head
      /\ local[t].cur <= After(local[t], w).cur
  BY <1>0, Marks
<1>2. local' \in [AppThread -> Local]
  BY <1>0, <1>1
<1>3. \A u \in AppThread :
        /\ local'[u].has = local[u].has /\ local'[u].node = local[u].node
        /\ local'[u].head = local[u].head /\ local[u].cur <= local'[u].cur
        /\ local[u].cur \in Nat /\ local'[u].cur \in Nat /\ local[u].head \in Nat
  BY <1>0, <1>1, <1>2
<1>4. \A u \in AppThread : \A n, a : (Cuts(u, n, a)' <=> Cuts(u, n, a)) /\ (Granted(u, n, a)' <=> Granted(u, n, a))
  <2> SUFFICES ASSUME NEW u \in AppThread, NEW n, NEW a
               PROVE  (Cuts(u, n, a)' <=> Cuts(u, n, a)) /\ (Granted(u, n, a)' <=> Granted(u, n, a))
    OBVIOUS
  <2>1. Cuts(u, n, a)' <=> Cuts(u, n, a)
    BY <1>3 DEF Cuts
  <2>2. Granted(u, n, a)' <=> Granted(u, n, a)
    BY DEF Granted
  <2> QED BY <2>1, <2>2
<1>5. \A n, a : Issued(n, a)' <=> Issued(n, a)
  BY DEF Issued
<1>6. ChunksOK'
  BY <1>3, <1>4, <1>5 DEF AllocInv, ChunksOK
<1>7. ASSUME NEW r \in DOMAIN regions PROVE \E a \in 0 .. GmemSize : Within(r, a)'
  <2>1. PICK a \in 0 .. GmemSize : Within(r, a)
    BY DEF AllocInv, RegionsOK
  <2>2. r.lo \in Nat /\ r.size \in Nat
    <3>1. r.lo \in Nat /\ r.size \in Sizes
      BY DEF AllocInv, AllocTypeOK, BagToSet
    <3> QED BY <3>1, SizeIs
  <2>3. Within(r, a)'
    BY <1>3, <1>4, <1>5, <2>1, <2>2 DEF Within
  <2> QED BY <2>3
<1> QED BY <1>2, <1>6, <1>7

\* malloc cuts a piece from the chunk of the thread, or asks for a new one.
LEMMA MallocStep == ASSUME AllocInv, NEW t \in AppThread, Malloc(t) PROVE AllocInv'
<1>1. PICK w \in [size : Sizes, align : BOOLEAN] :
        /\ call[t] = "idle"
        /\ local' = [local EXCEPT ![t] = After(local[t], w)]
        /\ IF NeedChunk(local[t], w)
           THEN /\ call' = [call EXCEPT ![t] = "asks"] /\ want' = [want EXCEPT ![t] = w]
                /\ UNCHANGED regions
           ELSE /\ regions' = regions (+) SetToBag({Region(local[t], w)})
                /\ UNCHANGED <<call, want>>
        /\ UNCHANGED <<tail, next, grant>>
  <2>1. PICK z \in Sizes, g \in BOOLEAN :
          LET w == [size |-> z, align |-> g] IN
          /\ local' = [local EXCEPT ![t] = After(local[t], w)]
          /\ IF NeedChunk(local[t], w)
             THEN /\ call' = [call EXCEPT ![t] = "asks"] /\ want' = [want EXCEPT ![t] = w]
                  /\ UNCHANGED regions
             ELSE /\ regions' = regions (+) SetToBag({Region(local[t], w)})
                  /\ UNCHANGED <<call, want>>
    BY DEF Malloc
  <2>2. [size |-> z, align |-> g] \in [size : Sizes, align : BOOLEAN]
    OBVIOUS
  <2> QED BY <2>1, <2>2 DEF Malloc
<1>0. /\ local[t] \in [has : BOOLEAN, node : Node, head : Nat, cur : Nat]
      /\ call \in [AppThread -> {"idle", "asks", "ack", "fail", "assert"}]
      /\ want \in [AppThread -> [size : Sizes \cup {0}, align : BOOLEAN]]
  BY DEF AllocInv, AllocTypeOK
<1>2. \A u \in AppThread : /\ call'[u] = "ack" <=> call[u] = "ack"
                           /\ call'[u] = "assert" <=> call[u] = "assert"
  BY <1>0, <1>1
<1>3. /\ local' \in [AppThread -> [has : BOOLEAN, node : Node, head : Nat, cur : Nat]]
      /\ ChunksOK'
      /\ \A r \in DOMAIN regions : \E a \in 0 .. GmemSize : Within(r, a)'
  BY <1>1, <1>2, MarkMoves
<1>4. /\ call' \in [AppThread -> {"idle", "asks", "ack", "fail", "assert"}]
      /\ want' \in [AppThread -> [size : Sizes \cup {0}, align : BOOLEAN]]
      /\ CallsOK' /\ FreshChunkFits'
  <2>1. /\ call' \in [AppThread -> {"idle", "asks", "ack", "fail", "assert"}]
        /\ want' \in [AppThread -> [size : Sizes \cup {0}, align : BOOLEAN]]
    BY <1>0, <1>1
  <2>2. \A u \in AppThread : u # t => call'[u] = call[u] /\ want'[u] = want[u]
    BY <1>0, <1>1
  <2>3. call'[t] \in {"asks", "ack"} => want'[t].size \in Sizes
    BY <1>0, <1>1
  <2>4. CallsOK'
    BY <2>2, <2>3 DEF AllocInv, CallsOK
  <2>5. FreshChunkFits'
    BY <1>2 DEF AllocInv, FreshChunkFits
  <2> QED BY <2>1, <2>4, <2>5
<1>5. CASE NeedChunk(local[t], w)
  <2>1. regions' = regions
    BY <1>1, <1>5
  <2>2. RegionsOK' /\ Disjoint'
    BY <1>3, <2>1 DEF AllocInv, RegionsOK, Disjoint, BagToSet
  <2>3. AllocTypeOK'
    BY <1>1, <1>3, <1>4, <2>1 DEF AllocInv, AllocTypeOK
  <2> QED BY <1>3, <1>4, <2>2, <2>3 DEF AllocInv
<1>6. CASE ~NeedChunk(local[t], w)
  <2> DEFINE lc == local[t]
  <2>x. PICK x : x = Region(lc, w)
    OBVIOUS
  <2>n. PICK n \in Node, h \in Nat : n = lc.node /\ h = lc.head
    BY <1>0
  <2>1. regions' = regions (+) SetToBag({x})
    BY <2>x, <1>1, <1>6
  <2>2. lc.has /\ Issued(n, h) /\ h <= lc.cur /\ Cuts(t, n, h)
    BY <2>n, <1>6 DEF AllocInv, ChunksOK, NeedChunk, Cuts
  <2>3. \A r \in DOMAIN regions : r.node = n /\ Within(r, h) => r.lo + r.size <= lc.cur
    BY <2>2 DEF Within
  <2>4. /\ x \in [node : Node, lo : Nat, size : Sizes] /\ h <= x.lo /\ x.lo + x.size <= h + Chunk
        /\ \A r \in DOMAIN regions : Apart(r, x)
    BY <2>x, <2>n, <1>0, <1>6, <2>2, <2>3, CutApart DEF AllocInv
  <2>5. /\ DOMAIN regions' = DOMAIN regions \cup {x} /\ IsABag(regions')
        /\ BagToSet(regions') \subseteq [node : Node, lo : Nat, size : Sizes] /\ Disjoint'
    BY <2>1, <2>4, AddRegion DEF AllocInv
  <2>6. /\ local'[t].cur = x.lo + x.size /\ x.node = n
        /\ \A u \in AppThread : local'[u].has = local[u].has /\ local'[u].node = local[u].node /\ local'[u].head = local[u].head
    <3>1. /\ After(lc, w).cur = Start(lc, w) + w.size /\ After(lc, w).has = lc.has
          /\ After(lc, w).node = lc.node /\ After(lc, w).head = lc.head
      BY <1>0, <1>6, Marks
    <3>2. x.lo = Start(lc, w) /\ x.size = w.size /\ x.node = lc.node
      BY <2>x DEF Region
    <3> QED BY <2>n, <1>1, <3>1, <3>2 DEF AllocInv, AllocTypeOK
  <2>7. Within(x, h)'
    <3>1. Issued(x.node, h)'
      BY <1>1, <2>2, <2>6 DEF Issued
    <3>2. ASSUME NEW u \in AppThread, Cuts(u, x.node, h)' PROVE x.lo + x.size <= local'[u].cur
      <4>1. Cuts(u, n, h)
        BY <2>6, <3>2 DEF Cuts
      <4>2. u = t
        BY <2>n, <2>2, <4>1 DEF AllocInv, ChunksOK
      <4>3. x.lo + x.size \in Nat
        <5>1. x.lo \in Nat /\ x.size \in Sizes
          BY <2>4
        <5> QED BY <5>1, SizeIs
      <4> QED BY <2>6, <4>2, <4>3
    <3>3. ASSUME NEW u \in AppThread PROVE ~Granted(u, x.node, h)'
      <4>1. Granted(u, n, h)' <=> Granted(u, n, h)
        BY <1>1, <1>2 DEF Granted
      <4>2. ~Granted(u, n, h)
        BY <2>2 DEF AllocInv, ChunksOK, Granted
      <4> QED BY <2>6, <4>1, <4>2
    <3> QED BY <1>1, <2>4, <2>6, <3>1, <3>2, <3>3 DEF Within
  <2>8. RegionsOK'
    <3>1. h \in 0 .. GmemSize
      BY <2>2, IssuedIs
    <3> QED BY <1>3, <2>5, <2>7, <3>1 DEF RegionsOK
  <2>9. AllocTypeOK'
    BY <1>1, <1>3, <1>4, <2>5 DEF AllocInv, AllocTypeOK
  <2> QED BY <1>3, <1>4, <2>5, <2>8, <2>9 DEF AllocInv
<1> QED BY <1>5, <1>6

\* The types of what malloc has returned.
LEMMA RegionIs ==
  ASSUME AllocTypeOK, NEW r \in DOMAIN regions
  PROVE  r.lo \in Nat /\ r.size \in Nat
<1>1. r.lo \in Nat /\ r.size \in Sizes
  BY DEF AllocTypeOK, BagToSet
<1> QED BY <1>1, SizeIs

\* An agent hands out its next chunk, which nobody has, or refuses.
LEMMA AgentStep == ASSUME AllocInv, NEW t \in AppThread, NEW s \in Syst, AgentAlloc(t, s) PROVE AllocInv'
<1> PICK n \in Node : n = next[t]
  BY DEF AllocInv, AllocTypeOK
<1>0. /\ call \in [AppThread -> {"idle", "asks", "ack", "fail", "assert"}]
      /\ grant \in [AppThread -> Nat] /\ tail \in [Node -> [Syst -> 0 .. Chunks]] /\ next[t] = n
  BY DEF AllocInv, AllocTypeOK
<1>1. call[t] = "asks" /\ UNCHANGED <<want, local, next, regions>>
  BY DEF AgentAlloc
<1>2. \A u \in AppThread : \A m, a : Cuts(u, m, a)' <=> Cuts(u, m, a)
  BY <1>1 DEF Cuts
<1>3. Disjoint'
  BY <1>1 DEF AllocInv, Disjoint, BagToSet
<1>4. CASE Full(n, s)
  <2>1. call' = [call EXCEPT ![t] = "fail"] /\ tail' = tail /\ grant' = grant
    BY <1>0, <1>4 DEF AgentAlloc
  <2>2. \A u \in AppThread : u # t => call'[u] = call[u]
    BY <1>0, <2>1
  <2>3. call'[t] = "fail" /\ call' \in [AppThread -> {"idle", "asks", "ack", "fail", "assert"}]
    BY <1>0, <2>1
  <2>4. \A u \in AppThread : \A m, a : Granted(u, m, a)' <=> Granted(u, m, a)
    <3> SUFFICES ASSUME NEW u \in AppThread, NEW m, NEW a PROVE Granted(u, m, a)' <=> Granted(u, m, a)
      OBVIOUS
    <3> QED BY <1>1, <2>1, <2>2, <2>3 DEF Granted
  <2>5. \A m, a : Issued(m, a)' <=> Issued(m, a)
    BY <2>1 DEF Issued
  <2>6. ChunksOK'
    BY <1>1, <1>2, <2>1, <2>2, <2>3, <2>4, <2>5 DEF AllocInv, ChunksOK
  <2>7. RegionsOK'
    <3> SUFFICES ASSUME NEW r \in DOMAIN regions PROVE \E a \in 0 .. GmemSize : Within(r, a)'
      BY <1>1 DEF RegionsOK
    <3>1. PICK a \in 0 .. GmemSize : Within(r, a)
      BY DEF AllocInv, RegionsOK
    <3>2. Within(r, a)'
      BY <1>1, <1>2, <2>4, <2>5, <3>1 DEF Within
    <3> QED BY <3>2
  <2>8. CallsOK' /\ FreshChunkFits'
    BY <1>1, <2>2, <2>3 DEF AllocInv, CallsOK, FreshChunkFits
  <2>9. AllocTypeOK'
    BY <1>1, <2>1, <2>3 DEF AllocInv, AllocTypeOK
  <2> QED BY <1>3, <2>6, <2>7, <2>8, <2>9 DEF AllocInv
<1>5. CASE ~Full(n, s)
  <2>k. PICK k \in 0 .. Chunks - 1 : k = tail[n][s]
    BY <1>5, NextIsNew DEF AllocInv
  <2>g. PICK g : g = Base(s, k)
    OBVIOUS
  <2>1. /\ call' = [call EXCEPT ![t] = "ack"] /\ grant' = [grant EXCEPT ![t] = g]
        /\ tail' = [tail EXCEPT ![n][s] = @ + 1]
    BY <1>0, <1>5, <2>k, <2>g DEF AgentAlloc, Advance
  <2>2. ~Issued(n, g) /\ g \in Nat
    BY <1>5, <2>k, <2>g, NextIsNew, InShare DEF AllocInv
  <2>3. /\ call'[t] = "ack" /\ call' \in [AppThread -> {"idle", "asks", "ack", "fail", "assert"}]
        /\ grant'[t] = g /\ grant' \in [AppThread -> Nat]
        /\ \A u \in AppThread : u # t => call'[u] = call[u] /\ grant'[u] = grant[u]
    BY <1>0, <2>1, <2>2
  <2>4. /\ tail' \in [Node -> [Syst -> 0 .. Chunks]] /\ tail'[n][s] = k + 1
        /\ \A m \in Node, u \in Syst : tail[m][u] <= tail'[m][u]
        /\ \A m : m \notin Node => tail'[m] = tail[m]
    <3>1. Chunks \in Nat /\ k \in Int /\ k + 1 \in 0 .. Chunks
      BY Memory, <2>k
    <3>2. tail' = [tail EXCEPT ![n] = [tail[n] EXCEPT ![s] = k + 1]]
      BY <1>0, <2>1, <2>k
    <3>3. tail[n] \in [Syst -> 0 .. Chunks]
      BY <1>0
    <3>4. tail' \in [Node -> [Syst -> 0 .. Chunks]]
      BY <1>0, <3>1, <3>2, <3>3
    <3>5. \A m \in Node, u \in Syst : tail[m][u] <= tail'[m][u]
      BY <1>0, <3>1, <3>2, <3>3, <2>k
    <3> QED BY <1>0, <3>2, <3>3, <3>4, <3>5
  <2>5. Issued(n, g)'
    BY <2>k, <2>g, <2>4 DEF Issued
  <2>6. \A m \in Node : \A a : Issued(m, a) => Issued(m, a)'
    <3> SUFFICES ASSUME NEW m \in Node, NEW a, Issued(m, a) PROVE Issued(m, a)'
      OBVIOUS
    <3>1. PICK u \in Syst, j \in 0 .. Chunks - 1 : j < tail[m][u] /\ a = Base(u, j)
      BY DEF Issued
    <3>2. j < tail'[m][u]
      <4>1. tail[m][u] \in Int /\ tail'[m][u] \in Int /\ j \in Int
        BY <1>0, <2>4
      <4> QED BY <2>4, <3>1, <4>1
    <3> QED BY <3>1, <3>2 DEF Issued
  <2>7. \A u \in AppThread : u # t => \A m, a : Granted(u, m, a)' <=> Granted(u, m, a)
    <3> SUFFICES ASSUME NEW u \in AppThread, u # t, NEW m, NEW a PROVE Granted(u, m, a)' <=> Granted(u, m, a)
      OBVIOUS
    <3> QED BY <1>1, <2>3 DEF Granted
  <2>8. \A m, a : Granted(t, m, a)' <=> m = n /\ a = g
    BY <1>0, <1>1, <2>3 DEF Granted
  <2>9. \A u \in AppThread : \A m, a : Cuts(u, m, a) => Issued(m, a) /\ m \in Node
    BY DEF AllocInv, ChunksOK, Cuts, AllocTypeOK
  <2>10. \A u \in AppThread : \A m, a : Granted(u, m, a) => Issued(m, a) /\ m \in Node
    BY DEF AllocInv, ChunksOK, Granted, AllocTypeOK
  <2>11. ChunksOK'
    <3>1. \A u \in AppThread : local'[u].has => Issued(local[u].node, local[u].head)' /\ local'[u].head <= local'[u].cur
      BY <1>1, <2>6 DEF AllocInv, ChunksOK, AllocTypeOK
    <3>2. ASSUME NEW u \in AppThread, call'[u] = "ack" PROVE Issued(next[u], grant[u])'
      <4>1. CASE u = t
        BY <1>0, <1>1, <2>3, <2>5, <4>1
      <4>2. CASE u # t
        BY <1>1, <2>3, <2>6, <3>2, <4>2 DEF AllocInv, ChunksOK, AllocTypeOK
      <4> QED BY <4>1, <4>2
    <3>3. \A x, y \in AppThread : x # y /\ local'[x].has => ~Cuts(y, local[x].node, local[x].head)'
      BY <1>1, <1>2 DEF AllocInv, ChunksOK
    <3>4. ASSUME NEW x \in AppThread, NEW y \in AppThread, call'[x] = "ack"
          PROVE  ~Cuts(y, next[x], grant[x])'
      <4>1. CASE x = t
        BY <1>0, <1>1, <1>2, <2>2, <2>3, <2>9, <4>1
      <4>2. CASE x # t
        BY <1>1, <1>2, <2>3, <3>4, <4>2 DEF AllocInv, ChunksOK
      <4> QED BY <4>1, <4>2
    <3>5. ASSUME NEW x \in AppThread, NEW y \in AppThread, x # y, call'[x] = "ack"
          PROVE  ~Granted(y, next[x], grant[x])'
      <4>1. CASE x = t
        BY <1>0, <1>1, <2>2, <2>3, <2>7, <2>10, <3>5, <4>1
      <4>2. CASE x # t /\ y # t
        BY <1>1, <2>3, <2>7, <3>5, <4>2 DEF AllocInv, ChunksOK
      <4>3. CASE x # t /\ y = t
        <5>1. Issued(next[x], grant[x])
          BY <2>3, <3>5, <4>3 DEF AllocInv, ChunksOK
        <5> QED BY <1>1, <2>2, <2>3, <2>8, <4>3, <5>1
      <4> QED BY <4>1, <4>2, <4>3
    <3> QED BY <3>1, <3>2, <3>3, <3>4, <3>5 DEF ChunksOK
  <2>12. RegionsOK'
    <3> SUFFICES ASSUME NEW r \in DOMAIN regions PROVE \E a \in 0 .. GmemSize : Within(r, a)'
      BY <1>1 DEF RegionsOK
    <3>1. PICK a \in 0 .. GmemSize : Within(r, a)
      BY DEF AllocInv, RegionsOK
    <3>2. r.node \in Node /\ Issued(r.node, a)
      BY <3>1 DEF AllocInv, AllocTypeOK, BagToSet, Within
    <3>3. \A u \in AppThread : ~Granted(u, r.node, a)'
      BY <2>2, <2>7, <2>8, <3>1, <3>2 DEF Within
    <3>4. Within(r, a)'
      BY <1>1, <1>2, <2>6, <3>1, <3>2, <3>3 DEF Within
    <3> QED BY <3>4
  <2>13. CallsOK' /\ FreshChunkFits'
    BY <1>1, <2>3 DEF AllocInv, CallsOK, FreshChunkFits
  <2>14. AllocTypeOK'
    BY <1>1, <2>3, <2>4 DEF AllocInv, AllocTypeOK
  <2> QED BY <1>3, <2>11, <2>12, <2>13, <2>14 DEF AllocInv
<1> QED BY <1>4, <1>5

\* The thread goes over to the chunk it has been granted.
LEMMA FinishStep == ASSUME AllocInv, NEW t \in AppThread, Finish(t) PROVE AllocInv'
<1> DEFINE Local == [has : BOOLEAN, node : Node, head : Nat, cur : Nat]
           Calls == {"idle", "asks", "ack", "fail", "assert"}
<1>0. /\ call \in [AppThread -> Calls] /\ grant \in [AppThread -> Nat] /\ next \in [AppThread -> Node]
      /\ local \in [AppThread -> Local] /\ call[t] = "ack"
      /\ want \in [AppThread -> [size : Sizes \cup {0}, align : BOOLEAN]] /\ want[t].size \in Sizes
  BY DEF AllocInv, AllocTypeOK, CallsOK, Finish
<1>n. PICK n \in Node, g \in Nat : n = next[t] /\ g = grant[t]
  BY <1>0
<1>w. PICK w \in [size : Sizes, align : BOOLEAN] : w = want[t]
  BY <1>0
<1>lc. PICK lc \in Local : lc = [has |-> TRUE, node |-> n, head |-> g, cur |-> g]
  OBVIOUS
<1>x. PICK x : x = Region(lc, w)
  OBVIOUS
<1>1. /\ local' = [local EXCEPT ![t] = After(lc, w)]
      /\ IF NeedChunk(lc, w)
         THEN call' = [call EXCEPT ![t] = "assert"] /\ UNCHANGED <<regions, next>>
         ELSE /\ call' = [call EXCEPT ![t] = "idle"]
              /\ regions' = regions (+) SetToBag({x})
              /\ next' = [next EXCEPT ![t] = (@ + 1) % N]
      /\ want' = [want EXCEPT ![t] = NoCall] /\ grant' = [grant EXCEPT ![t] = 0] /\ tail' = tail
  BY <1>n, <1>w, <1>lc, <1>x DEF Finish
<1>2. /\ lc.has /\ lc.node = n /\ lc.head = g /\ lc.cur = g
      /\ After(lc, w) \in Local /\ After(lc, w).has /\ After(lc, w).node = n /\ After(lc, w).head = g
      /\ g <= After(lc, w).cur
      /\ ~NeedChunk(lc, w) => After(lc, w).cur = Start(lc, w) + w.size
      /\ g % Line = 0 => Start(lc, w) = g
      /\ w.size \in Nat /\ w.size <= Chunk
  <2>1. lc.has /\ lc.node = n /\ lc.head = g /\ lc.cur = g
    BY <1>lc
  <2>2. w.size \in Nat /\ w.size <= Chunk
    BY SizeIs
  <2>3. w \in [size : Sizes \cup {0}, align : BOOLEAN]
    OBVIOUS
  <2> QED BY <2>1, <2>2, <2>3, Marks
<1>3. Issued(n, g) /\ Granted(t, n, g)
  BY <1>0, <1>n DEF AllocInv, ChunksOK, Granted
<1>4. /\ call' \in [AppThread -> Calls] /\ call'[t] \in {"idle", "assert"}
      /\ local' \in [AppThread -> Local] /\ local'[t] = After(lc, w)
      /\ next' \in [AppThread -> Node]
      /\ grant' \in [AppThread -> Nat]
      /\ want' \in [AppThread -> [size : Sizes \cup {0}, align : BOOLEAN]]
      /\ \A u \in AppThread : u # t => /\ call'[u] = call[u] /\ local'[u] = local[u] /\ next'[u] = next[u]
                                       /\ grant'[u] = grant[u] /\ want'[u] = want[u]
  <2>1. (n + 1) % N \in Node
    <3>1. N \in Nat \ {0} /\ n \in Nat
      BY AllocAssumption DEF Node
    <3> QED BY <3>1 DEF Node
  <2>2. next' \in [AppThread -> Node] /\ \A u \in AppThread : u # t => next'[u] = next[u]
    BY <1>0, <1>1, <1>n, <2>1
  <2>3. NoCall \in [size : Sizes \cup {0}, align : BOOLEAN]
    BY DEF NoCall
  <2>4. call' \in [AppThread -> Calls] /\ call'[t] \in {"idle", "assert"} /\ \A u \in AppThread : u # t => call'[u] = call[u]
    <3>1. PICK e \in {"idle", "assert"} : call' = [call EXCEPT ![t] = e]
      BY <1>1
    <3> QED BY <1>0, <3>1
  <2>5. local' \in [AppThread -> Local] /\ local'[t] = After(lc, w) /\ \A u \in AppThread : u # t => local'[u] = local[u]
    BY <1>0, <1>1, <1>2
  <2>6. /\ grant' \in [AppThread -> Nat] /\ want' \in [AppThread -> [size : Sizes \cup {0}, align : BOOLEAN]]
        /\ \A u \in AppThread : u # t => grant'[u] = grant[u] /\ want'[u] = want[u]
    BY <1>0, <1>1, <2>3
  <2> QED BY <2>2, <2>4, <2>5, <2>6
<1>5. \A u \in AppThread : u # t => \A m, a : (Cuts(u, m, a)' <=> Cuts(u, m, a)) /\ (Granted(u, m, a)' <=> Granted(u, m, a))
  <2> SUFFICES ASSUME NEW u \in AppThread, u # t, NEW m, NEW a
               PROVE  (Cuts(u, m, a)' <=> Cuts(u, m, a)) /\ (Granted(u, m, a)' <=> Granted(u, m, a))
    OBVIOUS
  <2>1. Cuts(u, m, a)' <=> Cuts(u, m, a)
    BY <1>4 DEF Cuts
  <2>2. Granted(u, m, a)' <=> Granted(u, m, a)
    BY <1>4 DEF Granted
  <2> QED BY <2>1, <2>2
<1>6. \A m, a : (Cuts(t, m, a)' <=> m = n /\ a = g) /\ ~Granted(t, m, a)'
  BY <1>2, <1>4 DEF Cuts, Granted
<1>7. \A m, a : Issued(m, a)' <=> Issued(m, a)
  BY <1>1 DEF Issued
<1>8. ChunksOK'
  <2>1. ASSUME NEW u \in AppThread, local'[u].has
        PROVE  Issued(local[u].node, local[u].head)' /\ local'[u].head <= local'[u].cur
    <3>1. CASE u = t
      BY <1>2, <1>3, <1>4, <1>7, <3>1
    <3>2. CASE u # t
      BY <1>4, <1>7, <2>1, <3>2 DEF AllocInv, ChunksOK
    <3> QED BY <3>1, <3>2
  <2>2. ASSUME NEW u \in AppThread, call'[u] = "ack" PROVE Issued(next[u], grant[u])'
    BY <1>4, <1>7, <2>2 DEF AllocInv, ChunksOK
  <2>3. ASSUME NEW u \in AppThread, NEW y \in AppThread, u # y, local'[u].has
        PROVE  ~Cuts(y, local[u].node, local[u].head)'
    <3>1. CASE u = t
      <4>1. ~Cuts(y, n, g)
        BY <1>0, <1>n DEF AllocInv, ChunksOK
      <4> QED BY <1>2, <1>4, <1>5, <2>3, <3>1, <4>1
    <3>2. CASE u # t /\ y = t
      <4>1. ~Cuts(u, n, g)
        BY <1>0, <1>n DEF AllocInv, ChunksOK
      <4>2. ~(local[u].node = n /\ local[u].head = g)
        BY <1>4, <2>3, <3>2, <4>1 DEF Cuts
      <4> QED BY <1>4, <1>6, <3>2, <4>2
    <3>3. CASE u # t /\ y # t
      BY <1>4, <1>5, <2>3, <3>3 DEF AllocInv, ChunksOK
    <3> QED BY <3>1, <3>2, <3>3
  <2>4. ASSUME NEW u \in AppThread, NEW y \in AppThread, call'[u] = "ack"
        PROVE  ~Cuts(y, next[u], grant[u])'
    <3>0. u # t
      BY <1>4, <2>4
    <3>1. CASE y = t
      <4>1. ~Granted(u, n, g)
        BY <1>0, <1>n, <3>0 DEF AllocInv, ChunksOK
      <4>2. ~(next[u] = n /\ grant[u] = g)
        BY <1>4, <2>4, <3>0, <4>1 DEF Granted
      <4> QED BY <1>4, <1>6, <3>0, <3>1, <4>2
    <3>2. CASE y # t
      BY <1>4, <1>5, <2>4, <3>0, <3>2 DEF AllocInv, ChunksOK
    <3> QED BY <3>1, <3>2
  <2>5. ASSUME NEW u \in AppThread, NEW y \in AppThread, u # y, call'[u] = "ack"
        PROVE  ~Granted(y, next[u], grant[u])'
    <3>0. u # t
      BY <1>4, <2>5
    <3>1. CASE y = t
      BY <1>6, <3>1
    <3>2. CASE y # t
      <4>1. next'[u] = next[u] /\ grant'[u] = grant[u] /\ call[u] = "ack"
        BY <1>4, <2>5, <3>0
      <4>2. ~Granted(y, next[u], grant[u])
        BY <2>5, <4>1 DEF AllocInv, ChunksOK
      <4> QED BY <1>5, <3>2, <4>1, <4>2
    <3> QED BY <3>1, <3>2
  <2> QED BY <2>1, <2>2, <2>3, <2>4, <2>5 DEF ChunksOK
<1>9. CallsOK'
  BY <1>4 DEF AllocInv, CallsOK
<1>10. FreshChunkFits'
  <2> SUFFICES ASSUME PerSyst % Line = 0 PROVE \A u \in AppThread : call'[u] # "assert"
    BY DEF FreshChunkFits
  <2>1. g % Line = 0
    BY <1>3, IssuedIs
  <2>2. ~NeedChunk(lc, w)
    <3>1. Start(lc, w) = g /\ Chunk \in Nat
      BY <1>2, <2>1, Memory
    <3> QED BY <1>2, <3>1 DEF NeedChunk
  <2>3. call'[t] = "idle"
    BY <1>0, <1>1, <2>2
  <2> QED BY <1>4, <2>3 DEF AllocInv, FreshChunkFits
<1>11. ASSUME NEW r \in DOMAIN regions PROVE \E a \in 0 .. GmemSize : Within(r, a)'
  <2>1. PICK a \in 0 .. GmemSize : Within(r, a)
    BY DEF AllocInv, RegionsOK
  <2>2. ~(r.node = n /\ a = g)
    BY <1>3, <2>1 DEF Within
  <2>3. \A u \in AppThread : Cuts(u, r.node, a)' => r.lo + r.size <= local'[u].cur
    <3> SUFFICES ASSUME NEW u \in AppThread, Cuts(u, r.node, a)' PROVE r.lo + r.size <= local'[u].cur
      OBVIOUS
    <3>1. u # t
      BY <1>6, <2>2
    <3> QED BY <1>4, <1>5, <2>1, <3>1 DEF Within
  <2>4. \A u \in AppThread : ~Granted(u, r.node, a)'
    BY <1>5, <1>6, <2>1 DEF Within
  <2>5. Within(r, a)'
    BY <1>7, <2>1, <2>3, <2>4 DEF Within
  <2> QED BY <2>5
<1>12. CASE NeedChunk(lc, w)
  <2>1. regions' = regions
    BY <1>1, <1>12
  <2>2. RegionsOK' /\ Disjoint'
    BY <1>11, <2>1 DEF AllocInv, RegionsOK, Disjoint, BagToSet
  <2>3. AllocTypeOK'
    BY <1>1, <1>4, <2>1 DEF AllocInv, AllocTypeOK
  <2> QED BY <1>8, <1>9, <1>10, <2>2, <2>3 DEF AllocInv
<1>13. CASE ~NeedChunk(lc, w)
  <2>1. \A r \in DOMAIN regions : ~(r.node = lc.node /\ Within(r, lc.head))
    BY <1>2, <1>3 DEF Within
  <2>2. /\ x \in [node : Node, lo : Nat, size : Sizes] /\ g <= x.lo /\ x.lo + x.size <= g + Chunk
        /\ \A r \in DOMAIN regions : Apart(r, x)
    <3>1. Issued(lc.node, lc.head) /\ lc.head <= lc.cur
      BY <1>2, <1>3
    <3> QED BY <1>2, <1>13, <1>x, <2>1, <3>1, CutApart DEF AllocInv
  <2>3. /\ DOMAIN regions' = DOMAIN regions \cup {x} /\ IsABag(regions')
        /\ BagToSet(regions') \subseteq [node : Node, lo : Nat, size : Sizes] /\ Disjoint'
    BY <1>1, <1>13, <2>2, AddRegion DEF AllocInv
  <2>4. local'[t].cur = x.lo + x.size /\ x.node = n /\ x.lo + x.size \in Nat
    <3>1. x.lo = Start(lc, w) /\ x.size = w.size /\ x.node = n
      BY <1>2, <1>x DEF Region
    <3> QED BY <1>2, <1>4, <1>13, <2>2, <3>1
  <2>5. Within(x, g)'
    <3>1. Issued(x.node, g)'
      BY <1>3, <1>7, <2>4
    <3>2. ASSUME NEW u \in AppThread, Cuts(u, x.node, g)' PROVE x.lo + x.size <= local'[u].cur
      <4>1. u = t
        BY <1>0, <1>5, <1>n, <2>4, <3>2 DEF AllocInv, ChunksOK
      <4> QED BY <2>4, <4>1
    <3>3. ASSUME NEW u \in AppThread PROVE ~Granted(u, x.node, g)'
      BY <1>0, <1>5, <1>6, <1>n, <2>4 DEF AllocInv, ChunksOK
    <3> QED BY <2>2, <3>1, <3>2, <3>3 DEF Within
  <2>6. RegionsOK'
    <3>1. g \in 0 .. GmemSize
      BY <1>3, IssuedIs
    <3> QED BY <1>11, <2>3, <2>5, <3>1 DEF RegionsOK
  <2>7. AllocTypeOK'
    BY <1>1, <1>4, <2>3 DEF AllocInv, AllocTypeOK
  <2> QED BY <1>8, <1>9, <1>10, <2>3, <2>6, <2>7 DEF AllocInv
<1> QED BY <1>12, <1>13

\* Every step keeps the invariant.
LEMMA AllocNextInv == AllocInv /\ [AllocNext]_allocVars => AllocInv'
<1> SUFFICES ASSUME AllocInv, [AllocNext]_allocVars PROVE AllocInv'
  OBVIOUS
<1>1. CASE AllocNext
  BY <1>1, MallocStep, AgentStep, FinishStep DEF AllocNext
<1>2. CASE UNCHANGED allocVars
  <2>1. UNCHANGED <<tail, call, want, local, next, grant, regions>>
    BY <1>2 DEF allocVars
  <2>2. AllocTypeOK' /\ CallsOK' /\ Disjoint' /\ FreshChunkFits'
    BY <2>1 DEF AllocInv, AllocTypeOK, CallsOK, Disjoint, FreshChunkFits
  <2>3. ChunksOK' /\ RegionsOK'
    BY <2>1 DEF AllocInv, ChunksOK, RegionsOK, Within, Issued, Cuts, Granted
  <2> QED BY <2>2, <2>3 DEF AllocInv
<1> QED BY <1>1, <1>2

\* The chunks of a node lie in its memory.
LEMMA AllocSafe == AllocInv => AllocTypeOK /\ Disjoint /\ InMemory /\ FreshChunkFits
<1> SUFFICES ASSUME AllocInv PROVE InMemory
  BY DEF AllocInv
<1> SUFFICES ASSUME NEW r \in DOMAIN regions PROVE r.lo + r.size <= GmemSize
  BY DEF InMemory, BagToSet
<1>1. PICK a \in 0 .. GmemSize : Within(r, a)
  BY DEF AllocInv, RegionsOK
<1>2. a + Chunk <= GmemSize /\ r.lo + r.size <= a + Chunk /\ a \in Nat
  BY <1>1, IssuedIs DEF Within
<1>3. r.lo \in Nat /\ r.size \in Nat
  BY RegionIs DEF AllocInv
<1>4. GmemSize \in Nat /\ Chunk \in Nat
  BY Memory
<1> QED BY <1>2, <1>3, <1>4

------------------------------------------------------------------------------
(* Accesses of any size *)

\* Byte k of the access, and where it belongs.
Place(k) == <<k, (addr + k) \div LineSize, (addr + k) % LineSize>>

\* The lines of the first n bytes.
Touched(n) == addr \div LineSize .. (addr + n - 1) \div LineSize

\* The first `to` bytes have been copied, line by line.
Copied ==
  /\ iter = addr + to
  /\ moved = {Place(k) : k \in 0 .. to - 1}
  /\ at = "first" => to = 0 /\ accesses = 0
  /\ at = "loop" => to > 0 /\ iter % LineSize = 0
  /\ at = "returned" => to = size
  /\ to > 0 => accesses = (addr + to - 1) \div LineSize - addr \div LineSize + 1

AccessInv == AccessTypeOK /\ Copied

\* What is assumed of the constants.
LEMMA LineSizeIs == LineSize \in Nat \ {0} /\ MaxAddr \in Nat /\ MaxSize \in Nat
BY AccessAssumption

\* A piece within one line.
LEMMA Piece ==
  ASSUME NEW i \in Nat, NEW len \in Nat, (i % LineSize) + len <= LineSize, NEW k \in 0 .. len - 1
  PROVE  (i + k) \div LineSize = i \div LineSize /\ (i + k) % LineSize = (i % LineSize) + k
<1> DEFINE q == i \div LineSize
           r == i % LineSize
<1>1. q \in Nat /\ r \in 0 .. LineSize - 1 /\ LineSize \in Nat \ {0}
  BY LineSizeIs, DivBound
<1>2. i = LineSize * q + r /\ LineSize * q \in Nat
  BY LineSizeIs, DivMod, DivBound
<1>3. r + len <= LineSize
  OBVIOUS
<1> HIDE DEF q, r
<1>4. r + k \in 0 .. LineSize - 1
  BY <1>1, <1>3
<1>5. (LineSize * q + (r + k)) \div LineSize = q /\ (LineSize * q + (r + k)) % LineSize = r + k
  BY <1>1, <1>4, DivIs
<1>6. i + k = LineSize * q + (r + k)
  BY <1>1, <1>2
<1>7. (i + k) \div LineSize = q /\ (i + k) % LineSize = r + k
  BY <1>5, <1>6
<1> QED BY <1>7 DEF q, r

\* What one piece does.
LEMMA PieceStep ==
  ASSUME AccessInv, NEW start \in Nat, NEW len \in Nat, ReadLine(start, len),
         start = iter % LineSize, start + len <= LineSize, to + len <= size
  PROVE  /\ iter' = addr + to' /\ to' = to + len /\ to' \in 0 .. size /\ addr' = addr /\ size' = size
         /\ moved' = {Place(k) : k \in 0 .. to' - 1} /\ accesses' = accesses + 1
         /\ moved' \subseteq (0 .. MaxSize - 1) \X Nat \X (0 .. LineSize - 1)
         /\ iter' \in Nat
<1>1. /\ addr \in Nat /\ size \in Nat /\ size <= MaxSize /\ MaxSize \in Nat /\ to \in Nat /\ to <= size
      /\ iter = addr + to /\ moved = {Place(k) : k \in 0 .. to - 1}
  BY LineSizeIs DEF AccessInv, AccessTypeOK, Copied
<1>2. /\ moved' = moved \cup {<<to + k, iter \div LineSize, start + k>> : k \in 0 .. len - 1}
      /\ to' = to + len /\ iter' = iter + len /\ addr' = addr /\ size' = size /\ accesses' = accesses + 1
  BY DEF ReadLine
<1>3. \A k \in 0 .. len - 1 : Place(to + k) = <<to + k, iter \div LineSize, start + k>>
  <2> SUFFICES ASSUME NEW k \in 0 .. len - 1 PROVE Place(to + k) = <<to + k, iter \div LineSize, start + k>>
    OBVIOUS
  <2>1. iter \in Nat /\ iter + k = addr + (to + k)
    BY <1>1
  <2>2. (iter + k) \div LineSize = iter \div LineSize /\ (iter + k) % LineSize = start + k
    BY <2>1, Piece
  <2> QED BY <2>1, <2>2 DEF Place
<1>4. {<<to + k, iter \div LineSize, start + k>> : k \in 0 .. len - 1} = {Place(j) : j \in to .. to + len - 1}
  <2>1. ASSUME NEW k \in 0 .. len - 1
        PROVE  \E j \in to .. to + len - 1 : <<to + k, iter \div LineSize, start + k>> = Place(j)
    <3>1. to + k \in to .. to + len - 1
      BY <1>1
    <3> QED BY <1>3, <3>1
  <2>2. ASSUME NEW j \in to .. to + len - 1
        PROVE  \E k \in 0 .. len - 1 : Place(j) = <<to + k, iter \div LineSize, start + k>>
    <3>1. j - to \in 0 .. len - 1 /\ to + (j - to) = j
      BY <1>1
    <3> QED BY <1>3, <3>1
  <2> QED BY ONLY <2>1, <2>2, Zenon
<1>5. moved' = {Place(k) : k \in 0 .. to' - 1}
  <2>1. 0 .. to' - 1 = (0 .. to - 1) \cup (to .. to + len - 1)
    BY <1>1, <1>2
  <2> QED BY <1>1, <1>2, <1>4, <2>1
<1>6. to' \in 0 .. size /\ iter' = addr + to' /\ iter' \in Nat
  BY <1>1, <1>2
<1>7. \A k \in 0 .. to' - 1 : Place(k) \in (0 .. MaxSize - 1) \X Nat \X (0 .. LineSize - 1)
  <2> SUFFICES ASSUME NEW k \in 0 .. to' - 1 PROVE Place(k) \in (0 .. MaxSize - 1) \X Nat \X (0 .. LineSize - 1)
    OBVIOUS
  <2>0. to' \in Nat /\ to' <= MaxSize /\ addr \in Nat /\ MaxSize \in Nat
    BY <1>1, <1>6
  <2>1. k \in 0 .. MaxSize - 1 /\ addr + k \in Nat
    BY <2>0, Offset, ZenonT(30)
  <2>2. (addr + k) \div LineSize \in Nat /\ (addr + k) % LineSize \in 0 .. LineSize - 1
    BY <2>1, LineSizeIs, DivBound
  <2> QED BY <2>1, <2>2 DEF Place
<1> QED BY <1>2, <1>5, <1>6, <1>7

\* Filling up a line ends at the next one.
LEMMA Fill ==
  ASSUME NEW i \in Nat
  PROVE  LineSize - (i % LineSize) \in 1 .. LineSize /\ (i + (LineSize - (i % LineSize))) % LineSize = 0
<1> DEFINE q == i \div LineSize
           r == i % LineSize
<1>1. q \in Nat /\ r \in 0 .. LineSize - 1 /\ LineSize \in Nat \ {0} /\ i = LineSize * q + r
      /\ LineSize * q \in Nat
  BY LineSizeIs, DivBound, DivMod
<1> HIDE DEF q, r
<1>2. LineSize * (q + 1) = LineSize * q + LineSize
  BY <1>1, MulNext
<1>3. i + (LineSize - r) = LineSize * (q + 1) + 0
  BY <1>1, <1>2
<1>4. (LineSize * (q + 1) + 0) % LineSize = 0
  <2>1. q + 1 \in Nat /\ 0 \in 0 .. LineSize - 1
    BY <1>1
  <2> QED BY <1>1, <2>1, DivIs
<1>5. LineSize - r \in 1 .. LineSize /\ (i + (LineSize - r)) % LineSize = 0
  BY <1>1, <1>3, <1>4
<1> QED BY <1>5 DEF r

\* The byte before a line belongs to the line before.
LEMMA Before ==
  ASSUME NEW i \in Nat, i > 0, i % LineSize = 0
  PROVE  (i - 1) \div LineSize = i \div LineSize - 1
<1> DEFINE q == i \div LineSize
<1>1. q \in Nat /\ LineSize \in Nat \ {0} /\ i = LineSize * q /\ LineSize * q \in Nat
  <2>1. q \in Nat /\ LineSize \in Nat \ {0} /\ LineSize * q \in Nat
    BY LineSizeIs, DivBound
  <2>2. i = LineSize * q + (i % LineSize)
    BY <2>1, DivMod
  <2> QED BY <2>1, <2>2
<1> HIDE DEF q
<1>2. q > 0
  BY <1>1
<1>3. q - 1 \in Nat /\ LineSize - 1 \in 0 .. LineSize - 1 /\ (q - 1) + 1 = q
  BY <1>1, <1>2
<1>4. LineSize * q = LineSize * (q - 1) + LineSize /\ LineSize * (q - 1) \in Nat
  BY <1>1, <1>3, MulNext
<1>5. i - 1 = LineSize * (q - 1) + (LineSize - 1)
  BY <1>1, <1>4
<1>6. (LineSize * (q - 1) + (LineSize - 1)) \div LineSize = q - 1
  BY <1>1, <1>3, DivIs
<1>7. (i - 1) \div LineSize = q - 1
  BY <1>5, <1>6
<1> QED BY <1>7 DEF q

\* Nothing has been copied at the start.
LEMMA AccessInitInv == AccessInit => AccessInv
<1> SUFFICES ASSUME AccessInit PROVE AccessInv
  OBVIOUS
<1>1. addr \in Nat /\ size \in Nat
  BY LineSizeIs DEF AccessInit
<1>2. AccessTypeOK
  BY <1>1 DEF AccessInit, AccessTypeOK
<1>3. {Place(k) : k \in 0 .. 0 - 1} = {}
  OBVIOUS
<1>4. Copied
  BY <1>1, <1>3 DEF AccessInit, Copied
<1> QED BY <1>2, <1>4 DEF AccessInv

\* The types of the cursors.
LEMMA AccessFacts ==
  ASSUME AccessInv
  PROVE  /\ addr \in Nat /\ size \in Nat /\ to \in Nat /\ to <= size /\ iter \in Nat /\ accesses \in Nat
         /\ iter = addr + to
         /\ addr \div LineSize \in Nat /\ iter \div LineSize \in Nat
BY LineSizeIs, DivBound DEF AccessInv, AccessTypeOK, Copied

\* The first piece ends at the end of its line or of the access.
LEMMA FirstStep == ASSUME AccessInv, First PROVE AccessInv'
<1>1. PICK start \in Nat : start = addr % LineSize /\ start < LineSize
  BY AccessFacts, LineSizeIs, DivBound
<1>2. PICK len : len = FirstLen(start)
  OBVIOUS
<1>3. /\ at = "first" /\ ReadLine(start, len)
      /\ at' = IF len = size THEN "returned" ELSE "loop"
  BY <1>1, <1>2 DEF First
<1>4. to = 0 /\ accesses = 0 /\ iter = addr
  BY <1>3, AccessFacts DEF AccessInv, Copied
<1>5. len \in Nat /\ len <= size /\ start + len <= LineSize /\ (len # size => len = LineSize - start /\ len > 0)
  BY <1>1, <1>2, AccessFacts, LineSizeIs DEF FirstLen, Smaller
<1>6. /\ iter' = addr + to' /\ to' = to + len /\ to' \in 0 .. size /\ addr' = addr /\ size' = size
      /\ moved' = {Place(k) : k \in 0 .. to' - 1} /\ accesses' = accesses + 1
      /\ moved' \subseteq (0 .. MaxSize - 1) \X Nat \X (0 .. LineSize - 1)
      /\ iter' \in Nat
  <2>1. start = iter % LineSize /\ to + len <= size
    BY <1>1, <1>4, <1>5, AccessFacts
  <2> QED BY <1>3, <1>5, <2>1, PieceStep
<1>7. AccessTypeOK'
  BY <1>3, <1>4, <1>6 DEF AccessInv, AccessTypeOK
<1>8. {Place(k) : k \in 0 .. to' - 1} = {Place(k)' : k \in 0 .. to' - 1}
  BY <1>6 DEF Place
<1>9. at' = "loop" => to' > 0 /\ iter' % LineSize = 0
  <2> SUFFICES ASSUME at' = "loop" PROVE to' > 0 /\ iter' % LineSize = 0
    OBVIOUS
  <2>1. len = LineSize - start /\ len > 0
    BY <1>3, <1>5
  <2>2. (addr + (LineSize - start)) % LineSize = 0
    BY <1>1, AccessFacts, Fill
  <2> QED BY <1>4, <1>5, <1>6, <2>1, <2>2
<1>10. to' > 0 => accesses' = (addr + to' - 1) \div LineSize - addr \div LineSize + 1
  <2> SUFFICES ASSUME to' > 0 PROVE accesses' = (addr + to' - 1) \div LineSize - addr \div LineSize + 1
    OBVIOUS
  <2>1. len > 0 /\ len - 1 \in 0 .. len - 1 /\ addr + (len - 1) = addr + to' - 1
    BY <1>4, <1>5, <1>6, AccessFacts
  <2>2. (addr + (len - 1)) \div LineSize = addr \div LineSize
    BY <1>1, <1>5, <2>1, AccessFacts, Piece
  <2> QED BY <1>4, <1>6, <2>1, <2>2, AccessFacts
<1>11. Copied'
  <2>1. at' = "returned" => to' = size
    BY <1>3, <1>4, <1>5, <1>6
  <2>2. at' # "first"
    BY <1>3
  <2> QED BY <1>6, <1>8, <1>9, <1>10, <2>1, <2>2 DEF Copied
<1> QED BY <1>7, <1>11 DEF AccessInv

\* A piece that begins a line, after the first one.
LEMMA LoopStep ==
  ASSUME AccessInv, at = "loop", NEW len \in Nat, len > 0, len <= LineSize, to + len <= size,
         ReadLine(0, len),
         \/ at' = "loop" /\ len = LineSize
         \/ at' = "returned" /\ to + len = size
  PROVE  AccessInv'
<1>1. to > 0 /\ iter % LineSize = 0 /\ accesses = (addr + to - 1) \div LineSize - addr \div LineSize + 1
  BY DEF AccessInv, Copied
<1>2. /\ iter' = addr + to' /\ to' = to + len /\ to' \in 0 .. size /\ addr' = addr /\ size' = size
      /\ moved' = {Place(k) : k \in 0 .. to' - 1} /\ accesses' = accesses + 1
      /\ moved' \subseteq (0 .. MaxSize - 1) \X Nat \X (0 .. LineSize - 1)
      /\ iter' \in Nat
  <2>1. 0 = iter % LineSize /\ 0 + len <= LineSize /\ 0 \in Nat
    BY <1>1
  <2> QED BY <2>1, PieceStep
<1>3. AccessTypeOK'
  BY <1>2, AccessFacts DEF AccessInv, AccessTypeOK
<1>4. {Place(k) : k \in 0 .. to' - 1} = {Place(k)' : k \in 0 .. to' - 1}
  BY <1>2 DEF Place
<1>5. at' = "loop" => iter' % LineSize = 0
  <2> SUFFICES ASSUME at' = "loop" PROVE iter' % LineSize = 0
    OBVIOUS
  <2>1. (iter + (LineSize - (iter % LineSize))) % LineSize = 0
    BY AccessFacts, Fill
  <2>2. iter' = iter + (LineSize - (iter % LineSize))
    BY <1>1, <1>2, AccessFacts, LineSizeIs
  <2> QED BY <2>1, <2>2
<1>6. accesses' = (addr + to' - 1) \div LineSize - addr \div LineSize + 1
  <2>1. len - 1 \in 0 .. len - 1 /\ (iter % LineSize) + len <= LineSize
    BY <1>1, LineSizeIs
  <2>2. (iter + (len - 1)) \div LineSize = iter \div LineSize
    BY <2>1, AccessFacts, Piece
  <2>3. addr + to' - 1 = iter + (len - 1) /\ addr + to - 1 = iter - 1 /\ iter > 0
    <3>1. addr \in Nat /\ to \in Nat /\ len \in Nat /\ to > 0 /\ iter = addr + to /\ to' = to + len
      BY <1>1, <1>2, AccessFacts
    <3> QED BY <3>1, PieceEnd
  <2>4. (iter - 1) \div LineSize = iter \div LineSize - 1
    BY <1>1, <2>3, AccessFacts, Before
  <2> QED BY <1>1, <1>2, <2>2, <2>3, <2>4, AccessFacts
<1>7. to' > 0 /\ at' # "first" /\ (at' = "returned" => to' = size)
  BY <1>1, <1>2, AccessFacts
<1>8. Copied'
  BY <1>2, <1>4, <1>5, <1>6, <1>7 DEF Copied
<1> QED BY <1>3, <1>8 DEF AccessInv

\* Every step keeps the invariant.
LEMMA AccessNextInv == AccessInv /\ [AccessNext]_accessVars => AccessInv'
<1> SUFFICES ASSUME AccessInv, [AccessNext]_accessVars PROVE AccessInv'
  OBVIOUS
<1>1. CASE First
  BY <1>1, FirstStep
<1>2. CASE Whole
  <2>1. LineSize \in Nat /\ LineSize > 0 /\ to + LineSize <= size
    BY <1>2, LineSizeIs, AccessFacts DEF Whole
  <2> QED BY <1>2, <2>1, LoopStep DEF Whole
<1>3. CASE Last
  <2>1. CASE size # to /\ ReadLine(0, size - to)
    <3>1. size - to \in Nat /\ size - to > 0 /\ size - to <= LineSize /\ to + (size - to) = size
      BY <1>3, <2>1, LineSizeIs, AccessFacts DEF Last
    <3>2. PICK len \in Nat : len = size - to
      BY <3>1
    <3>3. /\ at = "loop" /\ at' = "returned" /\ ReadLine(0, len)
          /\ len > 0 /\ len <= LineSize /\ to + len = size /\ to + len <= size
      BY <1>3, <2>1, <3>1, <3>2, AccessFacts DEF Last
    <3> QED BY <3>3, LoopStep
  <2>2. CASE size = to /\ UNCHANGED <<addr, size, iter, to, moved, accesses>>
    <3>1. at' = "returned" /\ at = "loop"
      BY <1>3 DEF Last
    <3>2. Copied'
      BY <2>2, <3>1 DEF AccessInv, Copied, Place
    <3>3. AccessTypeOK'
      BY <2>2, <3>1 DEF AccessInv, AccessTypeOK
    <3> QED BY <3>2, <3>3 DEF AccessInv
  <2> QED BY <1>3, <2>1, <2>2 DEF Last
<1>4. CASE UNCHANGED accessVars
  BY <1>4 DEF accessVars, AccessInv, AccessTypeOK, Copied, Place
<1> QED BY <1>1, <1>2, <1>3, <1>4 DEF AccessNext

\* What has been copied stands where it belongs.
LEMMA InPlaceHolds == ASSUME AccessInv PROVE InPlace
<1> SUFFICES ASSUME NEW m \in moved PROVE m[3] < LineSize /\ m[2] * LineSize + m[3] = addr + m[1]
  BY DEF InPlace
<1>1. PICK k \in 0 .. to - 1 : m = Place(k)
  BY DEF AccessInv, Copied
<1>2. PICK i \in Nat : i = addr + k
  BY AccessFacts
<1>3. m[1] = k /\ m[2] = i \div LineSize /\ m[3] = i % LineSize
  BY <1>1, <1>2 DEF Place
<1>4. i = LineSize * (i \div LineSize) + (i % LineSize) /\ i % LineSize \in 0 .. LineSize - 1 /\ i \div LineSize \in Nat
  BY LineSizeIs, DivMod, DivBound
<1>5. PICK q \in Nat : q = i \div LineSize
  BY <1>4
<1>6. LineSize * q = q * LineSize
  BY LineSizeIs
<1>7. m[2] * LineSize + m[3] = LineSize * (i \div LineSize) + (i % LineSize)
  BY <1>3, <1>5, <1>6
<1> QED BY <1>2, <1>3, <1>4, <1>7, LineSizeIs

\* The bytes lie in all the lines from the first to the last and in no other.
LEMMA TouchedIs ==
  ASSUME NEW a \in Nat, NEW n \in Nat, n > 0
  PROVE  {(a + k) \div LineSize : k \in 0 .. n - 1} = a \div LineSize .. (a + n - 1) \div LineSize
<1> DEFINE first == a \div LineSize
           last == (a + n - 1) \div LineSize
<1>1. first \in Nat /\ last \in Nat /\ LineSize \in Nat \ {0} /\ a + n - 1 \in Nat
  BY LineSizeIs, DivBound
<1>2. a - LineSize * first \in 0 .. LineSize - 1 /\ LineSize * first \in Nat
  BY LineSizeIs, DivBound
<1>3. LineSize * last <= a + n - 1 /\ LineSize * last \in Nat
  BY <1>1, DivBound
<1>4. ASSUME NEW k \in 0 .. n - 1 PROVE (a + k) \div LineSize \in first .. last
  <2>1. a + k \in Nat /\ a <= a + k /\ a + k <= a + n - 1
    OBVIOUS
  <2>2. first <= (a + k) \div LineSize /\ (a + k) \div LineSize <= last
    BY <1>1, <2>1, DivMono
  <2>3. (a + k) \div LineSize \in Nat
    BY <1>1, <2>1, DivBound
  <2> QED BY <1>1, <2>2, <2>3
<1>5. ASSUME NEW j \in first .. last PROVE \E k \in 0 .. n - 1 : (a + k) \div LineSize = j
  <2>1. CASE j = first
    <3>1. 0 \in 0 .. n - 1 /\ a + 0 = a
      OBVIOUS
    <3> QED BY <2>1, <3>1
  <2>2. CASE j # first
    <3> HIDE DEF first, last
    <3>1. j \in Nat /\ first + 1 <= j /\ j <= last
      BY <1>1, <2>2
    <3>2. LineSize * (first + 1) <= LineSize * j /\ LineSize * j <= LineSize * last /\ LineSize * j \in Nat
      BY <1>1, <3>1, MulMono
    <3>3. LineSize * (first + 1) = LineSize * first + LineSize
      BY <1>1, MulNext
    <3>4. LineSize * j - a \in 0 .. n - 1 /\ a + (LineSize * j - a) = LineSize * j + 0
      BY <1>1, <1>2, <1>3, <3>2, <3>3
    <3>5. (LineSize * j + 0) \div LineSize = j
      <4>1. 0 \in 0 .. LineSize - 1
        BY <1>1
      <4> QED BY <1>1, <3>1, <4>1, DivIs
    <3> QED BY <3>4, <3>5
  <2> QED BY <2>1, <2>2
<1> QED BY <1>4, <1>5

\* When the call returns, every byte has been copied and every line visited once.
LEMMA OnceEachHolds == ASSUME AccessInv PROVE OnceEach
<1> SUFFICES ASSUME at = "returned"
             PROVE  /\ {m[1] : m \in moved} = 0 .. size - 1
                    /\ size > 0 => accesses = Cardinality({m[2] : m \in moved})
  BY DEF OnceEach
<1>1. to = size /\ moved = {Place(k) : k \in 0 .. size - 1}
  BY DEF AccessInv, Copied
<1> DEFINE line(k) == (addr + k) \div LineSize
<1>a. \A k \in 0 .. size - 1 : Place(k) \in moved /\ Place(k)[1] = k /\ Place(k)[2] = line(k)
  BY <1>1 DEF Place
<1>b. \A m \in moved : \E k \in 0 .. size - 1 : m[1] = k /\ m[2] = line(k)
  BY <1>1 DEF Place
<1> HIDE DEF line
<1>2. {m[1] : m \in moved} = 0 .. size - 1
  BY <1>a, <1>b
<1>3. ASSUME size > 0 PROVE accesses = Cardinality({m[2] : m \in moved})
  <2>1. PICK first \in Nat, last \in Nat :
          first = addr \div LineSize /\ last = (addr + size - 1) \div LineSize
    <3>1. addr + size - 1 \in Nat /\ addr \in Nat
      BY <1>3, AccessFacts
    <3> QED BY <3>1, LineSizeIs, DivBound
  <2>2. {m[2] : m \in moved} = {(addr + k) \div LineSize : k \in 0 .. size - 1}
    <3>1. {m[2] : m \in moved} = {line(k) : k \in 0 .. size - 1}
      BY <1>a, <1>b
    <3> QED BY <3>1 DEF line
  <2>3. {m[2] : m \in moved} = first .. last
    BY <1>3, <2>1, <2>2, AccessFacts, TouchedIs
  <2>4. accesses = last - first + 1
    BY <1>1, <1>3, <2>1 DEF AccessInv, Copied
  <2>5. first <= last
    <3>1. addr \in Nat /\ addr + size - 1 \in Nat /\ addr <= addr + size - 1
      BY <1>3, AccessFacts
    <3> QED BY <2>1, <3>1, LineSizeIs, DivMono
  <2>6. Cardinality(first .. last) = last - first + 1
    BY <2>5, FS_Interval
  <2> QED BY <2>3, <2>4, <2>6
<1> QED BY <1>2, <1>3

\* The invariant says what is checked.
LEMMA AccessSafe == AccessInv => AccessTypeOK /\ InPlace /\ OnceEach
BY InPlaceHolds, OnceEachHolds DEF AccessInv

------------------------------------------------------------------------------
(* The process *)

\* The components share no state: a step of one leaves the others as they are.
LEMMA HostNextInv ==
  AllocInv /\ AccessInv /\ [HostNext]_hostVars => AllocInv' /\ AccessInv'
<1> SUFFICES ASSUME AllocInv, AccessInv, [HostNext]_hostVars PROVE AllocInv' /\ AccessInv'
  OBVIOUS
<1>1. [AllocNext]_allocVars /\ [AccessNext]_accessVars
  BY DEF HostNext, hostVars
<1> QED BY <1>1, AllocNextInv, AccessNextInv

\* Whatever threads and agents of whatever nodes do, malloc returns memory that is
\* nobody else's and lies in the memory of its node, out of a chunk that is large
\* enough; and every access, of any size and from any address, copies each byte to its
\* place and goes to the cache once for each line.
THEOREM MemoryIsSound == HostSpec => []MemorySound
<1>1. HostInit => AllocInv /\ AccessInv
  BY AllocInitInv, AccessInitInv DEF HostInit
<1>2. AllocInv /\ AccessInv => MemorySound
  BY AllocSafe, AccessSafe DEF MemorySound
<1> QED BY <1>1, HostNextInv, <1>2, PTL DEF HostSpec
==============================================================================
