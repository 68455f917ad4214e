---------------------------- MODULE Database_proofs ---------------------------
(****************************************************************************)
(* The parts of the database whose theorems hold for every value of their   *)
(* constants.                                                               *)
(*                                                                          *)
(* TwoPL: two phase locking with locks that exclude, for any threads,       *)
(* records and number of accesses: the copy that a transaction works on     *)
(* stays current until it writes it back, no lock is left behind, and an    *)
(* insertion always gets its lock; no transactions precede each other in a  *)
(* circle.  Records are not deleted: a commit unlocks a record before it    *)
(* frees it, so its memory can be handed out while another transaction has  *)
(* it locked.                                                               *)
(*                                                                          *)
(* Executor: the start barrier, the end of the measurement, the bound on    *)
(* failures and the totals of the report, for any number of threads, any    *)
(* batches and any limit.                                                   *)
(*                                                                          *)
(* ClusterSync: the start of the nodes, for any number of nodes.            *)
(*                                                                          *)
(* Tpcc: new orders, payments and deliveries keep the consistency           *)
(* conditions, for any numbers of terminals, warehouses, districts and      *)
(* customers, any lines and any number of transactions.                     *)
(*                                                                          *)
(* Workload: the transactions that threads are dealt and the items that     *)
(* orders repeat, for any numbers of warehouses, nodes and threads.         *)
(****************************************************************************)
EXTENDS TwoPL, Executor, ClusterSync, Tpcc, Workload, FiniteSetTheorems, SequenceTheorems, WellFoundedInduction, TLAPS

------------------------------------------------------------------------------
(* Finite sets *)

\* Among subsets of a finite set there is one that includes no other.
LEMMA SmallestSet ==
  ASSUME NEW S, IsFiniteSet(S), NEW Bad, Bad \subseteq SUBSET S, Bad # {}
  PROVE  \E s \in Bad : \A q \in Bad : q \subseteq s => q = s
<1>1. Bad \subseteq FiniteSubsetsOf(S)
  BY FS_Subset DEF FiniteSubsetsOf
<1>2. PICK s \in Bad : \A q \in Bad : <<q, s>> \notin StrictSubsetOrdering(S)
  <2>1. IsWellFoundedOn(StrictSubsetOrdering(S), FiniteSubsetsOf(S))
    BY FS_StrictSubsetOrderingWellFounded
  <2> QED BY <1>1, <2>1, WFMin
<1>3. ASSUME NEW q \in Bad, q \subseteq s, q # s PROVE FALSE
  BY <1>2, <1>3 DEF StrictSubsetOrdering
<1> QED BY <1>3

------------------------------------------------------------------------------
(* Sums over sets, as MapThenSumSet makes them *)

Pick(s) == CHOOSE x \in s : TRUE

\* f[s] is the sum of g over s, for the subsets s of S.
IsSum(f, g, S) ==
  f = [s \in SUBSET S |-> IF s = {} THEN 0 ELSE g[Pick(s)] + f[s \ {Pick(s)}]]

LEMMA PickIn == ASSUME NEW s, s # {} PROVE Pick(s) \in s
BY DEF Pick

\* What a sum is, one element taken off.
LEMMA SumIs ==
  ASSUME NEW f, NEW g, NEW S, IsSum(f, g, S), NEW s, s \subseteq S
  PROVE  /\ s = {} => f[s] = 0
         /\ s # {} => /\ Pick(s) \in s /\ s \ {Pick(s)} \subseteq S
                      /\ f[s] = g[Pick(s)] + f[s \ {Pick(s)}]
<1>1. f[s] = IF s = {} THEN 0 ELSE g[Pick(s)] + f[s \ {Pick(s)}]
  BY DEF IsSum
<1> QED BY <1>1, PickIn

\* A sum is a number.
LEMMA SumType ==
  ASSUME NEW f, NEW S, IsFiniteSet(S), NEW g \in [S -> Nat], IsSum(f, g, S), NEW s, s \subseteq S
  PROVE  f[s] \in Nat
<1> DEFINE Bad == {q \in SUBSET S : f[q] \notin Nat}
<1>1. SUFFICES ASSUME Bad # {} PROVE FALSE
  OBVIOUS
<1>2. PICK q \in Bad : \A p \in Bad : p \subseteq q => p = q
  <2>1. Bad \subseteq SUBSET S
    OBVIOUS
  <2> HIDE DEF Bad
  <2> QED BY <1>1, <2>1, SmallestSet
<1>3. q \subseteq S /\ f[q] \notin Nat
  BY <1>2
<1>4. q # {} /\ Pick(q) \in q /\ f[q] = g[Pick(q)] + f[q \ {Pick(q)}]
  BY <1>3, SumIs
<1>5. f[q \ {Pick(q)}] \in Nat
  BY <1>2, <1>3, <1>4
<1>6. g[Pick(q)] \in Nat
  BY <1>3, <1>4
<1> QED BY <1>3, <1>4, <1>5, <1>6

\* Sums over a set depend on its elements only.
LEMMA SumSame ==
  ASSUME NEW e, NEW f, NEW g, NEW h, NEW S, NEW T, IsSum(e, g, S), IsSum(f, h, T),
         NEW s, IsFiniteSet(s), s \subseteq S, s \subseteq T, \A x \in s : g[x] = h[x]
  PROVE  e[s] = f[s]
<1> DEFINE Bad == {q \in SUBSET s : e[q] # f[q]}
<1>1. SUFFICES ASSUME Bad # {} PROVE FALSE
  OBVIOUS
<1>2. PICK q \in Bad : \A p \in Bad : p \subseteq q => p = q
  <2>1. Bad \subseteq SUBSET s
    OBVIOUS
  <2> HIDE DEF Bad
  <2> QED BY <1>1, <2>1, SmallestSet
<1>3. q \subseteq s /\ e[q] # f[q] /\ q \subseteq S /\ q \subseteq T
  BY <1>2
<1>4. q # {} /\ Pick(q) \in q /\ e[q] = g[Pick(q)] + e[q \ {Pick(q)}] /\ f[q] = h[Pick(q)] + f[q \ {Pick(q)}]
  <2>1. /\ q = {} => e[q] = 0
        /\ q # {} => Pick(q) \in q /\ e[q] = g[Pick(q)] + e[q \ {Pick(q)}]
    BY <1>3, SumIs
  <2>2. /\ q = {} => f[q] = 0
        /\ q # {} => f[q] = h[Pick(q)] + f[q \ {Pick(q)}]
    BY <1>3, SumIs
  <2> QED BY <1>3, <2>1, <2>2
<1>5. e[q \ {Pick(q)}] = f[q \ {Pick(q)}]
  BY <1>2, <1>3, <1>4
<1>6. g[Pick(q)] = h[Pick(q)]
  BY <1>3, <1>4
<1> QED BY <1>3, <1>4, <1>5, <1>6

\* There is a sum.
LEMMA SumExists ==
  ASSUME NEW S, IsFiniteSet(S), NEW g
  PROVE  \E f : IsSum(f, g, S)
<1> DEFINE Bad == {q \in SUBSET S : ~ \E f : IsSum(f, g, q)}
<1>1. SUFFICES ASSUME Bad # {} PROVE FALSE
  BY DEF Bad
<1>2. PICK T \in Bad : \A p \in Bad : p \subseteq T => p = T
  <2>1. Bad \subseteq SUBSET S
    OBVIOUS
  <2> HIDE DEF Bad
  <2> QED BY <1>1, <2>1, SmallestSet
<1>3. T \subseteq S /\ IsFiniteSet(T)
  BY FS_Subset, <1>2
<1> DEFINE Sum(q) == CHOOSE f : IsSum(f, g, q)
           Val(q) == IF q = T THEN IF T = {} THEN 0 ELSE g[Pick(T)] + Sum(T \ {Pick(T)})[T \ {Pick(T)}]
                     ELSE Sum(q)[q]
           F == [q \in SUBSET T |-> Val(q)]
<1>4. ASSUME NEW q, q \subseteq T, q # T PROVE IsSum(Sum(q), g, q) /\ IsFiniteSet(q) /\ F[q] = Sum(q)[q]
  <2>1. q \notin Bad
    BY <1>2, <1>4
  <2>2. \E f : IsSum(f, g, q)
    BY <2>1, <1>3, <1>4
  <2>3. IsSum(Sum(q), g, q)
    BY <2>2
  <2>4. F[q] = Sum(q)[q]
    BY <1>4
  <2> QED BY <2>3, <2>4, <1>3, <1>4, FS_Subset
<1>5. ASSUME NEW q \in SUBSET T PROVE F[q] = IF q = {} THEN 0 ELSE g[Pick(q)] + F[q \ {Pick(q)}]
  <2>1. CASE q = T
    <3>1. CASE T = {}
      BY <2>1, <3>1
    <3>2. CASE T # {}
      <4>1. Pick(T) \in T
        BY <3>2, PickIn
      <4>2. T \ {Pick(T)} \subseteq T /\ T \ {Pick(T)} # T
        BY <4>1
      <4>3. F[T \ {Pick(T)}] = Sum(T \ {Pick(T)})[T \ {Pick(T)}]
        BY <1>4, <4>2
      <4>4. F[T] = g[Pick(T)] + Sum(T \ {Pick(T)})[T \ {Pick(T)}]
        BY <3>2
      <4> HIDE DEF F, Sum
      <4> QED BY <2>1, <3>2, <4>3, <4>4
    <3> QED BY <3>1, <3>2
  <2>2. CASE q # T
    <3>1. IsSum(Sum(q), g, q) /\ F[q] = Sum(q)[q]
      BY <1>4, <2>2
    <3>2. CASE q = {}
      <4> HIDE DEF F, Sum
      <4> QED BY <3>1, <3>2, SumIs
    <3>3. CASE q # {}
      <4> DEFINE p == q \ {Pick(q)}
      <4>1. Pick(q) \in q /\ Sum(q)[q] = g[Pick(q)] + Sum(q)[p]
        <5> HIDE DEF F, Sum
        <5> QED BY <3>1, <3>3, SumIs
      <4>2. p \subseteq T /\ p # T /\ p \subseteq q
        BY <2>2, <4>1
      <4>3. IsSum(Sum(p), g, p) /\ IsFiniteSet(p) /\ F[p] = Sum(p)[p]
        BY <1>4, <4>2
      <4>4. Sum(q)[p] = Sum(p)[p]
        <5> HIDE DEF F, Sum, p
        <5> QED BY <3>1, <4>2, <4>3, SumSame
      <4> HIDE DEF F, Sum
      <4> QED BY <3>1, <3>3, <4>1, <4>3, <4>4
    <3> QED BY <3>2, <3>3
  <2> QED BY <2>1, <2>2
<1>6. IsSum(F, g, T)
  <2>1. F = [q \in SUBSET T |-> F[q]]
    OBVIOUS
  <2> HIDE DEF F
  <2> QED BY <1>5, <2>1 DEF IsSum
<1> QED BY <1>2, <1>6

\* The order does not matter.
LEMMA SumTakes ==
  ASSUME NEW f, NEW S, IsFiniteSet(S), NEW g \in [S -> Nat], IsSum(f, g, S),
         NEW s, s \subseteq S, NEW t \in s
  PROVE  f[s] = g[t] + f[s \ {t}]
<1> DEFINE Bad == {q \in SUBSET s : \E u \in q : f[q] # g[u] + f[q \ {u}]}
<1>1. SUFFICES ASSUME Bad # {} PROVE FALSE
  BY DEF Bad
<1>2. PICK q \in Bad : \A p \in Bad : p \subseteq q => p = q
  <2>1. Bad \subseteq SUBSET s /\ IsFiniteSet(s)
    BY FS_Subset
  <2> HIDE DEF Bad
  <2> QED BY <1>1, <2>1, SmallestSet
<1>3. PICK u \in q : f[q] # g[u] + f[q \ {u}]
  BY <1>2
<1>4. q \subseteq s /\ q \subseteq S /\ q # {}
  BY <1>2, <1>3
<1> DEFINE x == Pick(q)
<1>5. x \in q /\ f[q] = g[x] + f[q \ {x}]
  BY <1>4, SumIs
<1>6. x # u
  BY <1>3, <1>5
<1>7. f[q \ {x}] = g[u] + f[(q \ {x}) \ {u}]
  <2>1. q \ {x} \notin Bad /\ u \in q \ {x}
    BY <1>2, <1>5, <1>6, <1>3
  <2> HIDE DEF x
  <2> QED BY <2>1, <1>4
<1>8. f[q \ {u}] = g[x] + f[(q \ {u}) \ {x}]
  <2>1. q \ {u} \notin Bad /\ x \in q \ {u}
    BY <1>2, <1>5, <1>6, <1>3
  <2> HIDE DEF x
  <2> QED BY <2>1, <1>4
<1>9. (q \ {x}) \ {u} = (q \ {u}) \ {x}
  OBVIOUS
<1>10. g[x] \in Nat /\ g[u] \in Nat /\ f[(q \ {u}) \ {x}] \in Nat
  <2>1. (q \ {u}) \ {x} \subseteq S /\ x \in S /\ u \in S
    BY <1>4, <1>5
  <2> HIDE DEF x
  <2> QED BY <2>1, SumType
<1> HIDE DEF x, Bad
<1>11. ASSUME NEW a \in Nat, NEW b \in Nat, NEW c \in Nat PROVE a + (b + c) = b + (a + c)
  OBVIOUS
<1>12. g[x] + (g[u] + f[(q \ {u}) \ {x}]) = g[u] + (g[x] + f[(q \ {u}) \ {x}])
  BY <1>10, <1>11
<1>13. f[q] = g[x] + (g[u] + f[(q \ {u}) \ {x}])
  BY <1>5, <1>7, <1>9
<1>14. g[u] + f[q \ {u}] = g[u] + (g[x] + f[(q \ {u}) \ {x}])
  BY <1>8
<1> QED BY <1>3, <1>12, <1>13, <1>14

\* A sum of which one element changes.
LEMMA SumChanges ==
  ASSUME NEW S, IsFiniteSet(S), NEW g \in [S -> Nat], NEW h \in [S -> Nat], NEW e, NEW f,
         IsSum(e, g, S), IsSum(f, h, S), NEW t \in S, \A u \in S \ {t} : g[u] = h[u]
  PROVE  f[S] + g[t] = e[S] + h[t]
<1>1. e[S] = g[t] + e[S \ {t}] /\ f[S] = h[t] + f[S \ {t}]
  <2>1. S \subseteq S
    OBVIOUS
  <2>2. e[S] = g[t] + e[S \ {t}]
    BY <2>1, SumTakes
  <2>3. f[S] = h[t] + f[S \ {t}]
    BY <2>1, SumTakes
  <2> QED BY <2>2, <2>3
<1>2. S \ {t} \subseteq S /\ IsFiniteSet(S \ {t})
  BY FS_Subset
<1>3. e[S \ {t}] = f[S \ {t}]
  BY <1>2, SumSame
<1>4. e[S \ {t}] \in Nat /\ f[S \ {t}] \in Nat /\ g[t] \in Nat /\ h[t] \in Nat
  BY <1>2, SumType
<1> QED BY <1>1, <1>3, <1>4

\* A sum of noughts.
LEMMA SumOfNone ==
  ASSUME NEW S, IsFiniteSet(S), NEW g, NEW f, IsSum(f, g, S), \A t \in S : g[t] = 0
  PROVE  f[S] = 0
<1> DEFINE e == [s \in SUBSET S |-> 0]
<1>1. IsSum(e, g, S)
  <2>1. ASSUME NEW s \in SUBSET S PROVE e[s] = IF s = {} THEN 0 ELSE g[Pick(s)] + e[s \ {Pick(s)}]
    <3>1. CASE s # {}
      <4>1. Pick(s) \in S /\ s \ {Pick(s)} \subseteq S
        BY <3>1, PickIn
      <4>2. g[Pick(s)] = 0 /\ e[s \ {Pick(s)}] = 0
        BY <4>1
      <4> QED BY <4>2
    <3> QED BY <3>1
  <2>2. e = [s \in SUBSET S |-> e[s]]
    OBVIOUS
  <2> HIDE DEF e
  <2> QED BY <2>1, <2>2 DEF IsSum
<1>2. e[S] = 0
  OBVIOUS
<1> HIDE DEF e
<1> QED BY <1>1, <1>2, SumSame

------------------------------------------------------------------------------
(* TwoPL *)

------------------------------------------------------------------------------
(* The inductive invariant *)

Ending == {"commit", "unlock", "abort"}

\* The accesses of t whose lock it still has.
Locked(t) == {i \in DOMAIN acc[t] : pc[t] \in Ending => i >= pos[t]}

\* t has the lock that an access of type y to a needs.
Holds(t, a, y) == IF y = "READ_ONLY" THEN t \in rd[a] ELSE t \in wr[a]

\* The locks of t are those of its accesses, and the records behind them exist.
LocksOf(t) ==
  /\ \A i \in Locked(t) : Holds(t, acc[t][i].addr, acc[t][i].type) /\ acc[t][i].addr \in heap
  /\ cur[t] # None => Holds(t, cur[t].addr, cur[t].type) /\ cur[t].addr \notin Uses(t)
  /\ \A a \in Addr : t \in rd[a] \cup wr[a] => a \in Holding(t)

CopiesOf(t) == \A i \in Open(t) : mem[acc[t][i].addr] = acc[t][i].copy

\* A record is accessed once, and new records are exactly the inserted ones.
ListOf(t) ==
  /\ \A i, j \in DOMAIN acc[t] : acc[t][i].addr = acc[t][j].addr => i = j
  /\ \A i \in DOMAIN acc[t] : acc[t][i].type = "INSERT_ONLY" <=> acc[t][i].addr \in New

PlaceOf(t) ==
  /\ pc[t] = "read" <=> cur[t] # None
  /\ pc[t] \in Ending => pos[t] >= 1
  /\ pc[t] = "unlock" => pos[t] <= Len(acc[t])
  /\ pc[t] # "assert"

\* A writer's lock excludes all others.
Excluded == \A a \in Addr : \A t \in wr[a] : wr[a] = {t} /\ rd[a] = {}

ThreadInv(t) == LocksOf(t) /\ CopiesOf(t) /\ ListOf(t) /\ PlaceOf(t)

LockingInv == TypeOK /\ Excluded /\ Rec \subseteq heap /\ \A t \in Thread : ThreadInv(t)

------------------------------------------------------------------------------
(* Lemmas on lists of accesses *)

\* Append adds one access at the end.
LEMMA Appended ==
  ASSUME NEW S, NEW s \in Seq(S), NEW e \in S
  PROVE  /\ Append(s, e) \in Seq(S) /\ Len(s) \in Nat
         /\ DOMAIN s = 1 .. Len(s) /\ DOMAIN Append(s, e) = 1 .. Len(s) + 1
         /\ \A i \in DOMAIN s : Append(s, e)[i] = s[i] /\ s[i] \in S
         /\ Append(s, e)[Len(s) + 1] = e
         /\ Len(Append(s, e)) = Len(s) + 1
OBVIOUS

\* A thread joins, or leaves, those that hold one lock.
LEMMA JoinLock ==
  ASSUME NEW S, NEW T, NEW f \in [S -> SUBSET T], NEW a \in S, NEW x \in T
  PROVE  /\ [f EXCEPT ![a] = @ \cup {x}] \in [S -> SUBSET T]
         /\ [f EXCEPT ![a] = @ \cup {x}][a] = f[a] \cup {x}
         /\ \A b \in S \ {a} : [f EXCEPT ![a] = @ \cup {x}][b] = f[b]
OBVIOUS

LEMMA LeaveLock ==
  ASSUME NEW S, NEW T, NEW f \in [S -> SUBSET T], NEW a \in S, NEW x
  PROVE  /\ [f EXCEPT ![a] = @ \ {x}] \in [S -> SUBSET T]
         /\ [f EXCEPT ![a] = @ \ {x}][a] = f[a] \ {x}
         /\ \A b \in S \ {a} : [f EXCEPT ![a] = @ \ {x}][b] = f[b]
OBVIOUS

\* What the type invariant says of one thread.
LEMMA OneThread ==
  ASSUME TypeOK, NEW t \in Thread
  PROVE  /\ acc[t] \in Seq(Access) /\ pos[t] \in Nat /\ done[t] \in Nat
         /\ Len(acc[t]) \in Nat /\ DOMAIN acc[t] = 1 .. Len(acc[t])
         /\ \A i \in DOMAIN acc[t] : /\ acc[t][i] \in Access /\ acc[t][i].addr \in Addr
                                     /\ acc[t][i].copy \in Nat
         /\ cur[t] # None => cur[t].addr \in Rec /\ cur[t].type \in Types
<1>1. acc[t] \in Seq(Access) /\ pos[t] \in Nat /\ done[t] \in Nat
  BY DEF TypeOK
<1>2. \A i \in DOMAIN acc[t] : acc[t][i] \in Access
  BY <1>1
<1>3. cur[t] # None => cur[t] \in [type : Types, addr : Rec]
  BY DEF TypeOK
<1> QED BY <1>1, <1>2, <1>3 DEF Access

\* What is still open is still locked.
LEMMA OpenLocked ==
  ASSUME TypeOK, NEW t \in Thread
  PROVE  Open(t) \subseteq Locked(t) /\ Locked(t) \subseteq DOMAIN acc[t]
BY OneThread DEF Open, Locked, Ending

\* A step of another thread that leaves u's locks, the records behind them and the
\* contents of those it has open does not disturb u.
LEMMA Bystander ==
  ASSUME TypeOK, NEW u \in Thread, ThreadInv(u),
         pc'[u] = pc[u], acc'[u] = acc[u], cur'[u] = cur[u], pos'[u] = pos[u],
         \A a \in Addr : (u \in rd[a] <=> u \in rd'[a]) /\ (u \in wr[a] <=> u \in wr'[a]),
         \A i \in Locked(u) : acc[u][i].addr \in heap',
         \A i \in Open(u) : mem'[acc[u][i].addr] = mem[acc[u][i].addr]
  PROVE  ThreadInv(u)'
<1>1. Locked(u)' = Locked(u) /\ Open(u)' = Open(u) /\ Uses(u)' = Uses(u) /\ Holding(u)' = Holding(u)
  BY DEF Locked, Open, Uses, Holding
<1>2. \A i \in DOMAIN acc[u] : acc[u][i].addr \in Addr
  BY OneThread
<1>3. LocksOf(u)'
  <2>1. ASSUME NEW i \in Locked(u)
        PROVE  Holds(u, acc[u][i].addr, acc[u][i].type)' /\ acc[u][i].addr \in heap'
    BY <1>2, <2>1, OpenLocked DEF ThreadInv, LocksOf, Holds
  <2>2. cur[u] # None => Holds(u, cur[u].addr, cur[u].type)' /\ cur[u].addr \notin Uses(u)
    BY OneThread DEF ThreadInv, LocksOf, Holds, Addr
  <2>3. \A a \in Addr : u \in rd'[a] \cup wr'[a] => a \in Holding(u)
    BY DEF ThreadInv, LocksOf
  <2> QED BY <1>1, <2>1, <2>2, <2>3 DEF LocksOf, Holds
<1>4. CopiesOf(u)' /\ ListOf(u)' /\ PlaceOf(u)'
  BY <1>1 DEF ThreadInv, CopiesOf, ListOf, PlaceOf
<1> QED BY <1>3, <1>4 DEF ThreadInv

------------------------------------------------------------------------------
(* The steps of a transaction *)

\* Locks exclude, and no procedure deletes records.
Working == Locks /\ "DELETE_ONLY" \notin Types

\* A transaction begins, or begins to commit: it has the same locks and copies.
LEMMA BeginInv ==
  ASSUME LockingInv, NEW t \in Thread, Begin(t) \/ StartCommit(t)
  PROVE  LockingInv'
<1> USE DEF Begin, StartCommit, Goto
<1>1. TypeOK'
  <2>1. pc' \in [Thread -> {"idle", "run", "read", "commit", "unlock", "abort", "assert"}]
    BY DEF LockingInv, TypeOK
  <2>2. pos' \in [Thread -> Nat]
    <3>1. pos \in [Thread -> Nat] /\ (pos' = pos \/ pos' = [pos EXCEPT ![t] = 1])
      BY DEF LockingInv, TypeOK
    <3> QED BY <3>1, SMTT(30)
  <2> QED BY <2>1, <2>2 DEF LockingInv, TypeOK
<1>2. Excluded' /\ (Rec \subseteq heap)'
  BY DEF LockingInv, Excluded
<1>3. ThreadInv(t)'
  <2>1. /\ acc' = acc /\ cur' = cur /\ mem' = mem /\ rd' = rd /\ wr' = wr /\ heap' = heap
        /\ pc[t] \in {"idle", "run"} /\ pc'[t] \in {"run", "commit"}
        /\ pc'[t] = "commit" => pos'[t] = 1
    BY DEF LockingInv, TypeOK
  <2>2. Locked(t)' = DOMAIN acc[t] /\ Locked(t) = DOMAIN acc[t]
    BY <2>1, OneThread DEF Locked, Ending, LockingInv
  <2>3. Open(t)' = DOMAIN acc[t] /\ Open(t) = DOMAIN acc[t]
    BY <2>1, OneThread DEF Open, LockingInv
  <2>4. Uses(t)' = Uses(t) /\ Holding(t)' = Holding(t)
    BY <2>1, OneThread DEF Uses, Holding, LockingInv
  <2> QED BY <2>1, <2>2, <2>3, <2>4
          DEF LockingInv, ThreadInv, LocksOf, CopiesOf, ListOf, PlaceOf, Holds, Ending
<1>4. ASSUME NEW u \in Thread, u # t PROVE ThreadInv(u)'
  <2>1. pc'[u] = pc[u] /\ acc'[u] = acc[u] /\ cur'[u] = cur[u] /\ pos'[u] = pos[u]
    BY <1>4 DEF LockingInv, TypeOK
  <2> QED BY <2>1, Bystander DEF LockingInv, ThreadInv, LocksOf
<1> QED BY <1>1, <1>2, <1>3, <1>4 DEF LockingInv

\* A record is locked, which needs that nobody else has a lock that conflicts; or the
\* transaction turns to its abort with the locks that it has.
LEMMA SelectLockInv ==
  ASSUME LockingInv, Working, NEW t \in Thread, SelectLock(t)
  PROVE  LockingInv'
<1>0. PICK a \in Rec \ Uses(t), y \in Types :
         IF TryLock(a, y)
         THEN /\ Lock(t, a, y) /\ cur' = [cur EXCEPT ![t] = [type |-> y, addr |-> a]]
              /\ Goto(t, "read") /\ UNCHANGED pos
         ELSE /\ Goto(t, "abort") /\ pos' = [pos EXCEPT ![t] = 1] /\ UNCHANGED <<rd, wr, cur>>
  BY DEF SelectLock
<1>a. /\ acc' = acc /\ mem' = mem /\ heap' = heap /\ done' = done /\ pc[t] = "run"
      /\ a \in Addr /\ a \in heap /\ t \in Thread /\ TypeOK
  BY DEF SelectLock, Addr, LockingInv
<1>b. cur[t] = None
  BY <1>a DEF LockingInv, ThreadInv, PlaceOf
<1>c. Locked(t) = DOMAIN acc[t] /\ Open(t) = DOMAIN acc[t]
  BY <1>a DEF Locked, Open, Ending
<1>1. CASE ~TryLock(a, y)
  <2>1. /\ pc' = [pc EXCEPT ![t] = "abort"] /\ pos' = [pos EXCEPT ![t] = 1]
        /\ rd' = rd /\ wr' = wr /\ cur' = cur
    BY <1>0, <1>1 DEF Goto
  <2>2. TypeOK' /\ Excluded' /\ (Rec \subseteq heap)'
    BY <2>1, <1>a DEF LockingInv, TypeOK, Excluded
  <2>3. ThreadInv(t)'
    <3>1. pc'[t] = "abort" /\ pos'[t] = 1
      BY <2>1, <1>a DEF TypeOK
    <3>2. Locked(t)' = DOMAIN acc[t] /\ Open(t)' = DOMAIN acc[t]
      BY <3>1, <1>a, OneThread DEF Locked, Open, Ending
    <3>3. Uses(t)' = Uses(t) /\ Holding(t)' = Holding(t)
      BY <3>1, <2>1, <1>a, OneThread DEF Uses, Holding
    <3> QED BY <1>a, <1>b, <1>c, <2>1, <3>1, <3>2, <3>3
            DEF LockingInv, ThreadInv, LocksOf, CopiesOf, ListOf, PlaceOf, Holds, Ending
  <2>4. ASSUME NEW u \in Thread, u # t PROVE ThreadInv(u)'
    <3>1. pc'[u] = pc[u] /\ acc'[u] = acc[u] /\ cur'[u] = cur[u] /\ pos'[u] = pos[u]
      BY <2>4, <2>1, <1>a DEF TypeOK
    <3> QED BY <3>1, <2>1, <1>a, Bystander DEF LockingInv, ThreadInv, LocksOf
  <2> QED BY <2>2, <2>3, <2>4 DEF LockingInv
<1>2. CASE TryLock(a, y)
  <2>1. /\ pc' = [pc EXCEPT ![t] = "read"] /\ cur' = [cur EXCEPT ![t] = [type |-> y, addr |-> a]]
        /\ pos' = pos
    BY <1>0, <1>2 DEF Goto
  <2>2. wr[a] = {} /\ (y # "READ_ONLY" => rd[a] = {})
    BY <1>2 DEF TryLock, Free, Working
  <2>3. /\ y = "READ_ONLY" => rd' = [rd EXCEPT ![a] = @ \cup {t}] /\ wr' = wr
        /\ y # "READ_ONLY" => wr' = [wr EXCEPT ![a] = @ \cup {t}] /\ rd' = rd
    BY <1>0, <1>2 DEF Lock, Working
  <2>4. TypeOK'
    <3>1. cur' \in [Thread -> [type : Types, addr : Rec] \cup {None}]
      BY <2>1, <1>a DEF TypeOK
    <3>2. rd' \in [Addr -> SUBSET Thread] /\ wr' \in [Addr -> SUBSET Thread]
      <4>1. rd \in [Addr -> SUBSET Thread] /\ wr \in [Addr -> SUBSET Thread]
        BY <1>a DEF TypeOK
      <4>2. [rd EXCEPT ![a] = @ \cup {t}] \in [Addr -> SUBSET Thread]
        BY <4>1, <1>a, JoinLock
      <4>3. [wr EXCEPT ![a] = @ \cup {t}] \in [Addr -> SUBSET Thread]
        BY <4>1, <1>a, JoinLock
      <4> QED BY <4>1, <4>2, <4>3, <2>3, Zenon
    <3> QED BY <3>1, <3>2, <2>1, <1>a DEF TypeOK
  <2>b. /\ \A b \in Addr \ {a} : rd'[b] = rd[b] /\ wr'[b] = wr[b]
        /\ y = "READ_ONLY" => rd'[a] = rd[a] \cup {t} /\ wr'[a] = wr[a]
        /\ y # "READ_ONLY" => rd'[a] = rd[a] /\ wr'[a] = wr[a] \cup {t}
    <3>1. rd \in [Addr -> SUBSET Thread] /\ wr \in [Addr -> SUBSET Thread]
      BY <1>a DEF TypeOK
    <3>2. CASE y = "READ_ONLY"
      <4>1. rd' = [rd EXCEPT ![a] = @ \cup {t}] /\ wr' = wr
        BY <3>2, <2>3
      <4> QED BY <3>2, <4>1, <3>1, <1>a, JoinLock
    <3>3. CASE y # "READ_ONLY"
      <4>1. wr' = [wr EXCEPT ![a] = @ \cup {t}] /\ rd' = rd
        BY <3>3, <2>3
      <4> QED BY <3>3, <4>1, <3>1, <1>a, JoinLock
    <3> QED BY <3>2, <3>3
  <2>5. Excluded'
    <3>1. ASSUME NEW b \in Addr, NEW u \in wr'[b] PROVE wr'[b] = {u} /\ rd'[b] = {}
      <4>1. CASE b = a
        <5>1. y # "READ_ONLY"
          BY <4>1, <3>1, <2>b, <2>2
        <5> QED BY <5>1, <4>1, <3>1, <2>b, <2>2
      <4>2. CASE b # a
        BY <4>2, <3>1, <2>b DEF LockingInv, Excluded
      <4> QED BY <4>1, <4>2
    <3> QED BY <3>1 DEF Excluded
  <2>6. ThreadInv(t)'
    <3>1. /\ pc'[t] = "read" /\ pos'[t] = pos[t] /\ cur'[t] = [type |-> y, addr |-> a]
          /\ cur'[t] # None
      BY <2>1, <1>a, TwoPLAssumption DEF TypeOK
    <3>2. Locked(t)' = DOMAIN acc[t] /\ Open(t)' = DOMAIN acc[t] /\ Uses(t)' = Uses(t)
      BY <3>1, <1>a DEF Locked, Open, Ending, Uses
    <3>3. Holding(t) = Uses(t) /\ Holding(t)' = Uses(t) \cup {a}
      BY <3>1, <1>a, <1>b DEF Holding, Uses
    <3>4. \A b \in Addr : t \in rd[b] => t \in rd'[b]
      BY <2>3, <1>a DEF TypeOK
    <3>5. \A b \in Addr : t \in wr[b] => t \in wr'[b]
      BY <2>3, <1>a DEF TypeOK
    <3>6. \A b \in Addr : t \in rd'[b] \cup wr'[b] => b = a \/ t \in rd[b] \cup wr[b]
      BY <2>3, <1>a DEF TypeOK
    <3>7. Holds(t, a, y)'
      BY <2>3, <1>a DEF Holds, TypeOK
    <3>8. LocksOf(t)'
      <4>1. ASSUME NEW i \in DOMAIN acc[t]
            PROVE  Holds(t, acc[t][i].addr, acc[t][i].type)' /\ acc[t][i].addr \in heap
        BY <3>4, <3>5, <1>a, <1>c, OneThread DEF LockingInv, ThreadInv, LocksOf, Holds
      <4>2. \A b \in Addr : t \in rd'[b] \cup wr'[b] => b \in Holding(t)'
        BY <3>6, <3>3 DEF LockingInv, ThreadInv, LocksOf
      <4> QED BY <4>1, <4>2, <3>1, <3>2, <3>7, <1>a DEF LocksOf, Holds
    <3> QED BY <3>1, <3>2, <3>8, <1>a, <1>c
            DEF LockingInv, ThreadInv, CopiesOf, ListOf, PlaceOf, Ending
  <2>7. ASSUME NEW u \in Thread, u # t PROVE ThreadInv(u)'
    <3>1. pc'[u] = pc[u] /\ acc'[u] = acc[u] /\ cur'[u] = cur[u] /\ pos'[u] = pos[u]
      BY <2>7, <2>1, <1>a DEF TypeOK
    <3>2. \A b \in Addr : (u \in rd[b] <=> u \in rd'[b]) /\ (u \in wr[b] <=> u \in wr'[b])
      BY <2>7, <2>b
    <3> QED BY <3>1, <3>2, <1>a, Bystander DEF LockingInv, ThreadInv, LocksOf
  <2> QED BY <1>a, <2>4, <2>5, <2>6, <2>7 DEF LockingInv
<1> QED BY <1>1, <1>2

\* One more access whose lock is held, whose record exists and whose copy is current.
LEMMA AppendInv ==
  ASSUME TypeOK, NEW t \in Thread, ThreadInv(t), pc[t] \in {"run", "read"}, pc'[t] = "run",
         NEW e \in Access, acc'[t] = Append(acc[t], e), cur'[t] = None,
         e.addr \notin Uses(t), e.type = "INSERT_ONLY" <=> e.addr \in New,
         e.addr \in heap', mem'[e.addr] = e.copy, Holds(t, e.addr, e.type)',
         \A i \in DOMAIN acc[t] : /\ acc[t][i].addr \in heap'
                                  /\ mem'[acc[t][i].addr] = mem[acc[t][i].addr]
                                  /\ Holds(t, acc[t][i].addr, acc[t][i].type)',
         \A a \in Addr : t \in rd'[a] \cup wr'[a] => a = e.addr \/ a \in Uses(t)
  PROVE  ThreadInv(t)'
<1> DEFINE s == acc[t]
<1>1. /\ s \in Seq(Access) /\ Len(s) \in Nat /\ DOMAIN s = 1 .. Len(s)
      /\ DOMAIN acc'[t] = 1 .. Len(s) + 1
      /\ \A i \in DOMAIN s : acc'[t][i] = s[i]
      /\ acc'[t][Len(s) + 1] = e
  <2>1. s \in Seq(Access)
    BY OneThread
  <2> QED BY <2>1, Appended
<1>2. \A i \in DOMAIN acc'[t] : i \in DOMAIN s \/ i = Len(s) + 1
  BY <1>1
<1>3. Locked(t) = DOMAIN s /\ Open(t) = DOMAIN s
  BY DEF Locked, Open, Ending
<1>4. Locked(t)' = DOMAIN acc'[t] /\ Open(t)' = DOMAIN acc'[t]
  BY DEF Locked, Open, Ending
<1>5. Uses(t) \subseteq Uses(t)' /\ e.addr \in Uses(t)'
  BY <1>1 DEF Uses
<1>6. Holding(t)' = Uses(t)'
  BY DEF Holding, Uses
<1>7. LocksOf(t)'
  <2>1. ASSUME NEW i \in DOMAIN acc'[t]
        PROVE  Holds(t, acc[t][i].addr, acc[t][i].type)' /\ (acc[t][i].addr \in heap)'
    BY <1>1, <1>2 DEF Holds
  <2> QED BY <2>1, <1>4, <1>5, <1>6 DEF LocksOf
<1>8. CopiesOf(t)'
  <2>1. ASSUME NEW i \in DOMAIN acc'[t] PROVE (mem[acc[t][i].addr] = acc[t][i].copy)'
    BY <1>1, <1>2, <1>3 DEF ThreadInv, CopiesOf
  <2> QED BY <2>1, <1>4 DEF CopiesOf
<1>9. ListOf(t)'
  <2>1. \A i \in DOMAIN s : s[i].addr # e.addr
    BY DEF Uses
  <2> QED BY <2>1, <1>1, <1>2 DEF ThreadInv, ListOf
<1> QED BY <1>7, <1>8, <1>9 DEF ThreadInv, PlaceOf, Ending

\* The record is read under its lock.
LEMMA SelectReadInv ==
  ASSUME LockingInv, NEW t \in Thread, SelectRead(t)
  PROVE  LockingInv'
<1>1. /\ pc[t] = "read" /\ pc' = [pc EXCEPT ![t] = "run"]
      /\ acc' = [acc EXCEPT ![t] = Append(@, [type |-> cur[t].type, addr |-> cur[t].addr,
                                              copy |-> mem[cur[t].addr]])]
      /\ cur' = [cur EXCEPT ![t] = None]
      /\ pos' = pos /\ done' = done /\ mem' = mem /\ rd' = rd /\ wr' = wr /\ heap' = heap
  BY DEF SelectRead, Goto
<1>2. cur[t] # None /\ TypeOK /\ ThreadInv(t)
  BY <1>1 DEF LockingInv, ThreadInv, PlaceOf
<1>3. cur[t].addr \in Rec /\ cur[t].addr \in Addr /\ cur[t].type \in Types /\ mem[cur[t].addr] \in Nat
  BY <1>2, OneThread DEF Addr, TypeOK
<1>4. PICK e \in Access :
        e = [type |-> cur[t].type, addr |-> cur[t].addr, copy |-> mem[cur[t].addr]]
  BY <1>3 DEF Access
<1>a. /\ e.type = cur[t].type /\ e.addr = cur[t].addr /\ e.copy = mem[e.addr]
      /\ acc' = [acc EXCEPT ![t] = Append(@, e)]
  BY <1>1, <1>4
<1>5. TypeOK'
  <2>1. acc[t] \in Seq(Access) /\ Append(acc[t], e) \in Seq(Access)
    BY <1>2, <1>4, OneThread
  <2>2. acc' \in [Thread -> Seq(Access)]
    BY <2>1, <1>a, <1>2 DEF TypeOK
  <2> QED BY <2>2, <1>1, <1>2 DEF TypeOK
<1>6. pc'[t] = "run" /\ acc'[t] = Append(acc[t], e) /\ cur'[t] = None
  BY <1>1, <1>a, <1>2 DEF TypeOK
<1>7. ThreadInv(t)'
  <2>1. Locked(t) = DOMAIN acc[t]
    BY <1>1 DEF Locked, Ending
  <2>2. \A i \in DOMAIN acc[t] : /\ acc[t][i].addr \in heap'
                                 /\ mem'[acc[t][i].addr] = mem[acc[t][i].addr]
                                 /\ Holds(t, acc[t][i].addr, acc[t][i].type)'
    BY <2>1, <1>1, <1>2 DEF ThreadInv, LocksOf, Holds
  <2>3. \A a \in Addr : t \in rd'[a] \cup wr'[a] => a = e.addr \/ a \in Uses(t)
    BY <1>1, <1>2, <1>a DEF ThreadInv, LocksOf, Holding, Uses
  <2>4. e.type # "INSERT_ONLY" /\ e.addr \notin New
    BY <1>3, <1>a, TwoPLAssumption
  <2>5. e.addr \notin Uses(t) /\ e.addr \in heap' /\ mem'[e.addr] = e.copy
    BY <1>1, <1>2, <1>3, <1>a DEF LockingInv, ThreadInv, LocksOf
  <2>6. Holds(t, e.addr, e.type)'
    BY <1>1, <1>2, <1>a DEF ThreadInv, LocksOf, Holds
  <2> QED BY <1>1, <1>2, <1>4, <1>6, <2>2, <2>3, <2>4, <2>5, <2>6, AppendInv
<1>8. ASSUME NEW u \in Thread, u # t PROVE ThreadInv(u)'
  <2>1. pc'[u] = pc[u] /\ acc'[u] = acc[u] /\ cur'[u] = cur[u] /\ pos'[u] = pos[u]
    BY <1>8, <1>1, <1>2 DEF TypeOK
  <2> QED BY <2>1, <1>1, Bystander DEF LockingInv, ThreadInv, LocksOf
<1> QED BY <1>1, <1>5, <1>7, <1>8 DEF LockingInv, Excluded

\* Nobody has a lock, or an open access, for an address that is not handed out.
LEMMA Untouched ==
  ASSUME LockingInv, NEW a \in Addr, a \notin heap
  PROVE  /\ rd[a] = {} /\ wr[a] = {}
         /\ \A u \in Thread : \A i \in Locked(u) : acc[u][i].addr # a
<1>1. \A u \in Thread : \A i \in Locked(u) : acc[u][i].addr # a
  BY DEF LockingInv, ThreadInv, LocksOf
<1>2. ASSUME NEW u \in Thread PROVE u \notin rd[a] \cup wr[a]
  <2>1. a \notin Holding(u)
    <3>1. cur[u] # None => cur[u].addr # a
      BY OneThread DEF LockingInv
    <3> QED BY <1>1, <3>1 DEF Holding, Locked, Ending
  <2> QED BY <2>1 DEF LockingInv, ThreadInv, LocksOf
<1>3. rd[a] \subseteq Thread /\ wr[a] \subseteq Thread
  BY DEF LockingInv, TypeOK
<1> QED BY <1>1, <1>2, <1>3

\* A new record is written at an address that nobody uses, and then locked.
LEMMA InsertInv ==
  ASSUME LockingInv, Working, NEW t \in Thread, InsertRecord(t)
  PROVE  LockingInv'
<1>0. PICK a \in Addr \ heap :
        /\ heap' = heap \cup {a} /\ mem' = [mem EXCEPT ![a] = 1]
        /\ IF TryLock(a, "INSERT_ONLY")
           THEN /\ Lock(t, a, "INSERT_ONLY")
                /\ acc' = [acc EXCEPT ![t] = Append(@, [type |-> "INSERT_ONLY", addr |-> a, copy |-> 1])]
                /\ UNCHANGED pc
           ELSE Goto(t, "assert") /\ UNCHANGED <<acc, rd, wr>>
  BY DEF InsertRecord
<1>1. pc[t] = "run" /\ cur' = cur /\ pos' = pos /\ done' = done /\ TypeOK /\ ThreadInv(t)
  BY DEF InsertRecord, LockingInv
<1>2. rd[a] = {} /\ wr[a] = {} /\ \A u \in Thread : \A i \in Locked(u) : acc[u][i].addr # a
  BY Untouched
<1>3. TryLock(a, "INSERT_ONLY")
  BY <1>2 DEF TryLock, Free
<1>4. PICK e \in Access : e = [type |-> "INSERT_ONLY", addr |-> a, copy |-> 1]
  BY DEF Access
<1>5. /\ e.type = "INSERT_ONLY" /\ e.addr = a /\ e.copy = 1
      /\ acc' = [acc EXCEPT ![t] = Append(@, e)] /\ pc' = pc
      /\ wr' = [wr EXCEPT ![a] = @ \cup {t}] /\ rd' = rd
  BY <1>0, <1>3, <1>4 DEF Lock, Working
<1>6. /\ wr' \in [Addr -> SUBSET Thread] /\ wr'[a] = wr[a] \cup {t}
      /\ \A b \in Addr \ {a} : wr'[b] = wr[b]
  <2>1. wr \in [Addr -> SUBSET Thread]
    BY <1>1 DEF TypeOK
  <2> QED BY <2>1, <1>5, JoinLock
<1>7. mem' \in [Addr -> Nat] /\ mem'[a] = 1 /\ \A b \in Addr \ {a} : mem'[b] = mem[b]
  BY <1>0, <1>1 DEF TypeOK
<1>8. TypeOK'
  <2>1. acc[t] \in Seq(Access) /\ Append(acc[t], e) \in Seq(Access)
    BY <1>1, OneThread
  <2>2. acc' \in [Thread -> Seq(Access)]
    BY <2>1, <1>5, <1>1 DEF TypeOK
  <2>3. heap' \subseteq Addr
    BY <1>0, <1>1 DEF TypeOK
  <2> QED BY <2>2, <2>3, <1>1, <1>5, <1>6, <1>7 DEF TypeOK
<1>9. Excluded' /\ Rec \subseteq heap'
  <2>1. ASSUME NEW b \in Addr, NEW u \in wr'[b] PROVE wr'[b] = {u} /\ rd'[b] = {}
    <3>1. CASE b = a
      BY <3>1, <2>1, <1>2, <1>5, <1>6
    <3>2. CASE b # a
      BY <3>2, <2>1, <1>5, <1>6 DEF LockingInv, Excluded
    <3> QED BY <3>1, <3>2
  <2> QED BY <2>1, <1>0 DEF Excluded, LockingInv
<1>10. ThreadInv(t)'
  <2>1. Locked(t) = DOMAIN acc[t] /\ cur[t] = None
    BY <1>1 DEF Locked, Ending, ThreadInv, PlaceOf
  <2>2. ASSUME NEW i \in DOMAIN acc[t]
        PROVE  /\ acc[t][i].addr \in heap'
               /\ mem'[acc[t][i].addr] = mem[acc[t][i].addr]
               /\ Holds(t, acc[t][i].addr, acc[t][i].type)'
    <3>1. acc[t][i].addr \in Addr \ {a} /\ acc[t][i].addr \in heap
      BY <2>1, <1>1, <1>2, OneThread DEF ThreadInv, LocksOf
    <3>2. Holds(t, acc[t][i].addr, acc[t][i].type)
      BY <2>1, <1>1 DEF ThreadInv, LocksOf
    <3> QED BY <3>1, <3>2, <1>0, <1>5, <1>6, <1>7 DEF Holds
  <2>3. \A b \in Addr : t \in rd'[b] \cup wr'[b] => b = e.addr \/ b \in Uses(t)
    <3>1. Holding(t) = Uses(t)
      BY <1>1, <2>1 DEF Holding, Uses
    <3> QED BY <3>1, <1>1, <1>5, <1>6 DEF ThreadInv, LocksOf
  <2>4. a \notin Rec /\ a \in New /\ a \notin Uses(t)
    BY <1>2, <2>1 DEF LockingInv, Addr, Uses
  <2>5. Holds(t, e.addr, e.type)' /\ e.addr \in heap' /\ mem'[e.addr] = e.copy
    BY <1>0, <1>5, <1>6, <1>7 DEF Holds
  <2>6. acc'[t] = Append(acc[t], e) /\ pc'[t] = "run" /\ cur'[t] = None
    BY <1>1, <1>5, <2>1 DEF TypeOK
  <2> QED BY <1>1, <1>4, <1>5, <2>2, <2>3, <2>4, <2>5, <2>6, AppendInv
<1>11. ASSUME NEW u \in Thread, u # t PROVE ThreadInv(u)'
  <2>1. pc'[u] = pc[u] /\ acc'[u] = acc[u] /\ cur'[u] = cur[u] /\ pos'[u] = pos[u]
    BY <1>11, <1>1, <1>5 DEF TypeOK
  <2>2. \A b \in Addr : (u \in rd[b] <=> u \in rd'[b]) /\ (u \in wr[b] <=> u \in wr'[b])
    BY <1>11, <1>5, <1>6
  <2>3. ThreadInv(u)
    BY DEF LockingInv
  <2>4. \A i \in Locked(u) : acc[u][i].addr \in heap'
    BY <2>3, <1>0 DEF ThreadInv, LocksOf
  <2>5. \A i \in Open(u) : mem'[acc[u][i].addr] = mem[acc[u][i].addr]
    <3>1. ASSUME NEW i \in Open(u) PROVE acc[u][i].addr \in Addr \ {a}
      BY <1>1, <1>2, OpenLocked, OneThread
    <3> QED BY <3>1, <1>7
  <2> QED BY <2>1, <2>2, <2>3, <2>4, <2>5, <1>1, Bystander
<1> QED BY <1>8, <1>9, <1>10, <1>11 DEF LockingInv

\* One record is written back: only who has its writer's lock does that, so that
\* nobody else has a copy of it, and no other access of t is to it.
LEMMA WriteBackInv ==
  ASSUME LockingInv, NEW t \in Thread, WriteBack(t)
  PROVE  LockingInv'
<1> DEFINE i0 == pos[t]
           a == acc[t][i0].addr
<1>1. /\ pc[t] = "commit" /\ pos[t] <= Len(acc[t]) /\ pc' = [pc EXCEPT ![t] = "unlock"]
      /\ acc' = acc /\ cur' = cur /\ pos' = pos /\ done' = done
      /\ rd' = rd /\ wr' = wr /\ heap' = heap /\ TypeOK /\ ThreadInv(t)
  BY DEF WriteBack, Goto, LockingInv
<1>2. i0 \in Locked(t) /\ i0 \in DOMAIN acc[t] /\ a \in Addr /\ acc[t][i0].copy + 1 \in Nat
  BY <1>1, OneThread DEF Locked, Ending, ThreadInv, PlaceOf
<1>3. \/ mem' = mem
      \/ t \in wr[a] /\ mem' = [mem EXCEPT ![a] = acc[t][i0].copy + 1]
  BY <1>1, <1>2 DEF WriteBack, ThreadInv, LocksOf, Holds
<1>4. /\ mem' \in [Addr -> Nat]
      /\ \A b \in Addr : mem'[b] = mem[b] \/ (b = a /\ t \in wr[a])
  BY <1>1, <1>2, <1>3 DEF TypeOK
<1>5. TypeOK' /\ Excluded' /\ Rec \subseteq heap'
  BY <1>1, <1>4 DEF LockingInv, TypeOK, Excluded
<1>6. pc'[t] = "unlock" /\ pos[t] \in Nat
  BY <1>1 DEF TypeOK
<1>7. ThreadInv(t)'
  <2>1. /\ Locked(t)' = Locked(t) /\ Uses(t)' = Uses(t) /\ Holding(t)' = Holding(t)
        /\ Open(t)' \subseteq Open(t) \ {i0}
    BY <1>1, <1>6, OneThread DEF Locked, Ending, Uses, Holding, Open
  <2>2. LocksOf(t)'
    BY <2>1, <1>1 DEF ThreadInv, LocksOf, Holds
  <2>3. CopiesOf(t)'
    <3>1. ASSUME NEW i \in Open(t)' PROVE mem'[acc[t][i].addr] = acc[t][i].copy
      <4>1. i \in Open(t) /\ i # i0 /\ i \in DOMAIN acc[t]
        BY <2>1 DEF Open
      <4>2. acc[t][i].addr # a /\ acc[t][i].addr \in Addr
        BY <4>1, <1>1, <1>2, OneThread DEF ThreadInv, ListOf
      <4> QED BY <4>1, <4>2, <1>1, <1>4 DEF ThreadInv, CopiesOf
    <3> QED BY <3>1, <1>1 DEF CopiesOf
  <2>4. ListOf(t)' /\ PlaceOf(t)'
    BY <1>1, <1>6 DEF ThreadInv, ListOf, PlaceOf, Ending
  <2> QED BY <2>2, <2>3, <2>4 DEF ThreadInv
<1>8. ASSUME NEW u \in Thread, u # t PROVE ThreadInv(u)'
  <2>1. pc'[u] = pc[u] /\ acc'[u] = acc[u] /\ cur'[u] = cur[u] /\ pos'[u] = pos[u] /\ ThreadInv(u)
    BY <1>8, <1>1 DEF TypeOK, LockingInv
  <2>2. ASSUME NEW i \in Open(u) PROVE mem'[acc[u][i].addr] = mem[acc[u][i].addr]
    <3>1. i \in Locked(u) /\ acc[u][i].addr \in Addr
      BY <1>1, OpenLocked, OneThread
    <3>2. u \in rd[acc[u][i].addr] \cup wr[acc[u][i].addr]
      BY <3>1, <2>1 DEF ThreadInv, LocksOf, Holds
    <3>3. ~(acc[u][i].addr = a /\ t \in wr[a])
      BY <3>2, <1>2, <1>8 DEF LockingInv, Excluded
    <3> QED BY <3>1, <3>3, <1>4
  <2>3. \A i \in Locked(u) : acc[u][i].addr \in heap'
    BY <2>1, <1>1 DEF ThreadInv, LocksOf
  <2> QED BY <2>1, <2>2, <2>3, <1>1, Bystander
<1> QED BY <1>5, <1>7, <1>8 DEF LockingInv

\* A commit or an abort gives back one lock; an abort gives back the memory of an
\* insertion too, which nobody else can have locked.
LEMMA ReleaseInv ==
  ASSUME LockingInv, NEW t \in Thread, UnLockRecord(t) \/ AbortStep(t)
  PROVE  LockingInv'
<1> DEFINE i0 == pos[t]
           a == acc[t][i0].addr
<1>1. /\ TypeOK /\ ThreadInv(t) /\ pc[t] \in {"unlock", "abort"}
      /\ acc' = acc /\ cur' = cur /\ done' = done /\ mem' = mem
      /\ pos' = [pos EXCEPT ![t] = @ + 1]
      /\ pos[t] <= Len(acc[t]) /\ cur[t] = None
  BY DEF UnLockRecord, AbortStep, LockingInv, ThreadInv, PlaceOf
<1>2. i0 \in Locked(t) /\ i0 \in DOMAIN acc[t] /\ a \in Addr /\ i0 \in Nat
  BY <1>1, OneThread DEF Locked, Ending, ThreadInv, PlaceOf
<1>3. rd' = [rd EXCEPT ![a] = @ \ {t}] /\ wr' = [wr EXCEPT ![a] = @ \ {t}]
  BY <1>1 DEF UnLockRecord, AbortStep, UnLock
<1>4. /\ rd' \in [Addr -> SUBSET Thread] /\ rd'[a] = rd[a] \ {t}
      /\ \A b \in Addr \ {a} : rd'[b] = rd[b]
  <2>1. rd \in [Addr -> SUBSET Thread]
    BY <1>1 DEF TypeOK
  <2> QED BY <2>1, <1>2, <1>3, LeaveLock
<1>5. /\ wr' \in [Addr -> SUBSET Thread] /\ wr'[a] = wr[a] \ {t}
      /\ \A b \in Addr \ {a} : wr'[b] = wr[b]
  <2>1. wr \in [Addr -> SUBSET Thread]
    BY <1>1 DEF TypeOK
  <2> QED BY <2>1, <1>2, <1>3, LeaveLock
<1>6. /\ heap' = heap \/ (acc[t][i0].type = "INSERT_ONLY" /\ heap' = heap \ {a})
      /\ pc'[t] = (IF pc[t] = "unlock" THEN "commit" ELSE "abort")
      /\ \A u \in Thread \ {t} : pc'[u] = pc[u]
      /\ pc' \in [Thread -> {"idle", "run", "read", "commit", "unlock", "abort", "assert"}]
  BY <1>1 DEF UnLockRecord, AbortStep, Abandoned, Goto, TypeOK
<1>7. pos'[t] = i0 + 1 /\ pos' \in [Thread -> Nat] /\ \A u \in Thread \ {t} : pos'[u] = pos[u]
  <2>1. pos \in [Thread -> Nat]
    BY <1>1 DEF TypeOK
  <2> QED BY <2>1, <1>1
<1>8. heap' \subseteq heap /\ Rec \subseteq heap' /\ heap \ {a} \subseteq heap'
  <2>1. acc[t][i0].type = "INSERT_ONLY" => a \in New
    BY <1>1, <1>2 DEF ThreadInv, ListOf
  <2>2. Rec \cap New = {}
    BY TwoPLAssumption
  <2>3. Rec \subseteq heap
    BY DEF LockingInv
  <2> QED BY <1>6, <2>1, <2>2, <2>3
<1>9. TypeOK'
  BY <1>1, <1>4, <1>5, <1>6, <1>7, <1>8 DEF TypeOK
<1>10. Excluded'
  <2>1. ASSUME NEW b \in Addr, NEW u \in wr'[b] PROVE wr'[b] = {u} /\ rd'[b] = {}
    <3>1. u \in wr[b] /\ wr'[b] \subseteq wr[b] /\ rd'[b] \subseteq rd[b]
      BY <2>1, <1>4, <1>5
    <3>2. wr[b] = {u} /\ rd[b] = {}
      BY <3>1 DEF LockingInv, Excluded
    <3> QED BY <2>1, <3>1, <3>2
  <2> QED BY <2>1 DEF Excluded
<1>11. ThreadInv(t)'
  <2>1. Locked(t)' = Locked(t) \ {i0} /\ Open(t)' \subseteq Open(t) /\ Uses(t)' = Uses(t)
    BY <1>1, <1>2, <1>6, <1>7, OneThread DEF Locked, Ending, Open, Uses
  <2>2. \A i \in Locked(t) \ {i0} : acc[t][i].addr \in Addr \ {a}
    BY <1>1, <1>2, OneThread, OpenLocked DEF ThreadInv, ListOf
  <2>3. LocksOf(t)'
    <3>1. ASSUME NEW i \in Locked(t) \ {i0}
          PROVE  Holds(t, acc[t][i].addr, acc[t][i].type)' /\ acc[t][i].addr \in heap'
      <4>1. Holds(t, acc[t][i].addr, acc[t][i].type) /\ acc[t][i].addr \in heap
        BY <1>1 DEF ThreadInv, LocksOf
      <4> QED BY <4>1, <2>2, <1>1, <1>4, <1>5, <1>8 DEF Holds
    <3>2. ASSUME NEW b \in Addr, t \in rd'[b] \cup wr'[b] PROVE b \in Holding(t)'
      <4>1. b # a /\ t \in rd[b] \cup wr[b]
        BY <3>2, <1>4, <1>5
      <4>2. b \in Holding(t)
        BY <4>1, <1>1 DEF ThreadInv, LocksOf
      <4>3. PICK j \in Locked(t) : acc[t][j].addr = b
        BY <4>2, <1>1 DEF Holding, Locked, Ending
      <4>4. j \in Locked(t)'
        BY <4>1, <4>3, <2>1
      <4> QED BY <4>3, <4>4, <1>1 DEF Holding, Locked, Ending
    <3> QED BY <3>1, <3>2, <2>1, <1>1 DEF LocksOf, Holds
  <2>4. CopiesOf(t)'
    BY <2>1, <1>1 DEF ThreadInv, CopiesOf
  <2>5. ListOf(t)' /\ PlaceOf(t)'
    BY <1>1, <1>2, <1>6, <1>7 DEF ThreadInv, ListOf, PlaceOf, Ending
  <2> QED BY <2>3, <2>4, <2>5 DEF ThreadInv
<1>12. ASSUME NEW u \in Thread, u # t PROVE ThreadInv(u)'
  <2>1. pc'[u] = pc[u] /\ acc'[u] = acc[u] /\ cur'[u] = cur[u] /\ pos'[u] = pos[u] /\ ThreadInv(u)
    BY <1>12, <1>1, <1>6, <1>7 DEF LockingInv
  <2>2. \A b \in Addr : (u \in rd[b] <=> u \in rd'[b]) /\ (u \in wr[b] <=> u \in wr'[b])
    BY <1>12, <1>4, <1>5
  <2>3. ASSUME NEW i \in Locked(u) PROVE acc[u][i].addr \in heap'
    <3>1. acc[u][i].addr \in heap /\ u \in rd[acc[u][i].addr] \cup wr[acc[u][i].addr]
      BY <2>1 DEF ThreadInv, LocksOf, Holds
    <3>2. acc[t][i0].type = "INSERT_ONLY" => t \in wr[a]
      BY <1>1, <1>2 DEF ThreadInv, LocksOf, Holds
    <3>3. acc[t][i0].type = "INSERT_ONLY" => acc[u][i].addr # a
      BY <3>1, <3>2, <1>2, <1>12 DEF LockingInv, Excluded
    <3> QED BY <3>1, <3>3, <1>6
  <2> QED BY <2>1, <2>2, <2>3, <1>1, Bystander
<1> QED BY <1>8, <1>9, <1>10, <1>11, <1>12 DEF LockingInv

\* At the end of a commit or an abort no lock is left, and the list is dropped.
LEMMA EndInv ==
  ASSUME LockingInv, Working, NEW t \in Thread, EndCommit(t) \/ EndAbort(t)
  PROVE  LockingInv'
<1>1. /\ TypeOK /\ ThreadInv(t) /\ pc[t] \in {"commit", "abort"} /\ pos[t] > Len(acc[t])
      /\ acc' = [acc EXCEPT ![t] = <<>>] /\ pos' = [pos EXCEPT ![t] = 0]
      /\ pc' = [pc EXCEPT ![t] = "idle"] /\ cur' = cur /\ mem' = mem /\ rd' = rd /\ wr' = wr
  BY DEF EndCommit, EndAbort, Drop, Goto, LockingInv
<1>2. heap' = heap
  <2>1. Of(t, "DELETE_ONLY") = {}
    BY <1>1, OneThread DEF Of, Access, Working
  <2> QED BY <2>1 DEF EndCommit, EndAbort
<1>3. done' \in [Thread -> Nat]
  <2>1. done \in [Thread -> Nat] /\ (done' = done \/ done' = [done EXCEPT ![t] = @ + 1])
    BY <1>1 DEF EndCommit, EndAbort, TypeOK
  <2> QED BY <2>1
<1>4. TypeOK'
  <2>1. acc' \in [Thread -> Seq(Access)]
    BY <1>1 DEF TypeOK
  <2>2. pos' \in [Thread -> Nat]
    BY <1>1 DEF TypeOK
  <2> QED BY <2>1, <2>2, <1>1, <1>2, <1>3 DEF TypeOK
<1>5. Excluded' /\ Rec \subseteq heap'
  BY <1>1, <1>2 DEF LockingInv, Excluded
<1>6. ThreadInv(t)'
  <2>1. acc'[t] = <<>> /\ pc'[t] = "idle" /\ pos'[t] = 0 /\ cur'[t] = cur[t]
    BY <1>1 DEF TypeOK
  <2>2. Locked(t) = {} /\ cur[t] = None
    BY <1>1, OneThread DEF Locked, Ending, ThreadInv, PlaceOf
  <2>3. Holding(t) = {}
    BY <1>1, <2>2 DEF Holding, Locked, Ending
  <2>4. Locked(t)' = {} /\ Open(t)' = {} /\ DOMAIN acc'[t] = {}
    BY <2>1 DEF Locked, Open
  <2>5. LocksOf(t)' /\ CopiesOf(t)'
    BY <2>1, <2>2, <2>3, <2>4, <1>1 DEF LocksOf, CopiesOf, ThreadInv
  <2>6. ListOf(t)' /\ PlaceOf(t)'
    BY <2>1, <2>2, <2>4 DEF ListOf, PlaceOf, Ending
  <2> QED BY <2>5, <2>6 DEF ThreadInv
<1>7. ASSUME NEW u \in Thread, u # t PROVE ThreadInv(u)'
  <2>1. pc'[u] = pc[u] /\ acc'[u] = acc[u] /\ cur'[u] = cur[u] /\ pos'[u] = pos[u] /\ ThreadInv(u)
    BY <1>7, <1>1 DEF TypeOK, LockingInv
  <2> QED BY <2>1, <1>1, <1>2, Bystander DEF ThreadInv, LocksOf
<1> QED BY <1>4, <1>5, <1>6, <1>7 DEF LockingInv

------------------------------------------------------------------------------
\* The initial states satisfy the invariant.
LEMMA LockingInit == Init => LockingInv
<1> SUFFICES ASSUME Init PROVE LockingInv
  OBVIOUS
<1>1. TypeOK
  BY DEF Init, TypeOK, Addr
<1>2. Excluded /\ Rec \subseteq heap
  BY DEF Init, Excluded
<1>3. ASSUME NEW t \in Thread PROVE ThreadInv(t)
  <2>1. acc[t] = <<>> /\ pc[t] = "idle" /\ cur[t] = None /\ DOMAIN acc[t] = {}
    BY DEF Init
  <2>2. Locked(t) = {} /\ Open(t) = {}
    BY <2>1 DEF Locked, Open
  <2>3. \A a \in Addr : rd[a] \cup wr[a] = {}
    BY DEF Init
  <2> QED BY <2>1, <2>2, <2>3 DEF ThreadInv, LocksOf, CopiesOf, ListOf, PlaceOf, Ending
<1> QED BY <1>1, <1>2, <1>3 DEF LockingInv

LEMMA LockingStep == ASSUME Working PROVE LockingInv /\ [Next]_vars => LockingInv'
<1> SUFFICES ASSUME LockingInv, [Next]_vars PROVE LockingInv'
  OBVIOUS
<1>1. ASSUME NEW t \in Thread,
             \/ Begin(t) \/ SelectLock(t) \/ SelectRead(t) \/ InsertRecord(t)
             \/ StartCommit(t) \/ WriteBack(t) \/ UnLockRecord(t) \/ EndCommit(t)
             \/ AbortStep(t) \/ EndAbort(t)
      PROVE  LockingInv'
  BY <1>1, BeginInv, SelectLockInv, SelectReadInv, InsertInv, WriteBackInv, ReleaseInv, EndInv
<1>2. CASE UNCHANGED vars
  <2>1. /\ pc' = pc /\ acc' = acc /\ cur' = cur /\ pos' = pos /\ done' = done
        /\ mem' = mem /\ rd' = rd /\ wr' = wr /\ heap' = heap
    BY <1>2 DEF vars, mgrVars
  <2>2. ASSUME NEW u \in Thread PROVE ThreadInv(u)'
    <3>1. ThreadInv(u)
      BY DEF LockingInv
    <3> QED BY <2>1, <3>1, Bystander DEF ThreadInv, LocksOf, LockingInv
  <2> QED BY <2>1, <2>2 DEF LockingInv, TypeOK, Excluded
<1> QED BY <1>1, <1>2 DEF Next

\* The invariant holds in every behaviour of working locks without deletions.
THEOREM LockingInvariant == ASSUME Working PROVE Spec => []LockingInv
BY LockingInit, LockingStep, PTL DEF Spec

\* Type correctness of the lists, locks and versions.
THEOREM LockingTypeCorrect == ASSUME Working PROVE Spec => []TypeOK
<1>1. LockingInv => TypeOK
  BY DEF LockingInv
<1> QED BY <1>1, LockingInvariant, PTL

\* The copy that a transaction works on is what the memory holds until it writes the
\* record back or gives it up, for any number of threads and records.
THEOREM LockingCopyCurrent == ASSUME Working PROVE Spec => []CopyCurrent
<1>1. LockingInv => CopyCurrent
  BY DEF LockingInv, ThreadInv, CopiesOf, CopyCurrent
<1> QED BY <1>1, LockingInvariant, PTL

\* Every lock belongs to a transaction that will still give it back.
THEOREM LockingNoLockLeft == ASSUME Working PROVE Spec => []NoLockLeft
<1>1. LockingInv => NoLockLeft
  <2>1. ASSUME LockingInv, NEW a \in Addr, NEW t \in rd[a] \cup wr[a] PROVE a \in Holding(t)
    <3>1. t \in Thread
      BY <2>1 DEF LockingInv, TypeOK
    <3> QED BY <2>1, <3>1 DEF LockingInv, ThreadInv, LocksOf
  <2> QED BY <2>1 DEF NoLockLeft
<1> QED BY <1>1, LockingInvariant, PTL

------------------------------------------------------------------------------
(* Memory of new records *)

\* The records that t has still to keep or to free.
Owned(t) == {acc[t][i].addr : i \in {j \in DOMAIN acc[t] : pc[t] = "abort" => j >= pos[t]}}

Accounted == \A a \in heap \cap New : a \in hist.kept \/ \E t \in Thread : a \in Owned(t)

MemoryInv == LockingInv /\ "kept" \in DOMAIN hist /\ Accounted

\* What the other threads own does not change.
LEMMA OwnedApart ==
  ASSUME NEW u, pc'[u] = pc[u], acc'[u] = acc[u], pos'[u] = pos[u]
  PROVE  Owned(u)' = Owned(u)
BY DEF Owned

\* A step of t that takes no unkept record from t, and none from the history, and hands
\* out only what t gets.
LEMMA AccountedStep ==
  ASSUME MemoryInv, NEW t \in Thread,
         \A u \in Thread \ {t} : pc'[u] = pc[u] /\ acc'[u] = acc[u] /\ pos'[u] = pos[u],
         "kept" \in DOMAIN hist', hist.kept \subseteq hist'.kept,
         \A a \in Owned(t) \cap New \cap heap' : a \in hist'.kept \/ a \in Owned(t)',
         \A a \in heap' \ heap : a \in Owned(t)'
  PROVE  "kept" \in DOMAIN hist' /\ Accounted'
<1>1. ASSUME NEW a \in heap' \cap New PROVE a \in hist'.kept \/ \E u \in Thread : a \in Owned(u)'
  <2>1. CASE a \notin heap
    BY <1>1, <2>1
  <2>2. CASE a \in heap /\ a \in hist.kept
    BY <2>2
  <2>3. CASE a \in heap /\ a \in Owned(t)
    BY <1>1, <2>3
  <2>4. ASSUME NEW u \in Thread \ {t}, a \in Owned(u) PROVE a \in Owned(u)'
    BY <2>4, OwnedApart
  <2> QED BY <1>1, <2>1, <2>2, <2>3, <2>4 DEF MemoryInv, Accounted
<1> QED BY <1>1 DEF Accounted

\* Each step keeps account of the memory.
LEMMA MemoryStep ==
  ASSUME Working, MemoryInv, NEW t \in Thread, LockingInv',
         \/ Begin(t) \/ SelectLock(t) \/ SelectRead(t) \/ InsertRecord(t)
         \/ StartCommit(t) \/ WriteBack(t) \/ UnLockRecord(t) \/ EndCommit(t)
         \/ AbortStep(t) \/ EndAbort(t)
  PROVE  MemoryInv'
<1> DEFINE Kept == "kept" \in DOMAIN hist' /\ hist.kept \subseteq hist'.kept
<1>1. TypeOK /\ ThreadInv(t) /\ "kept" \in DOMAIN hist /\ Rec \cap New = {}
  BY TwoPLAssumption DEF MemoryInv, LockingInv
<1>2. \A u \in Thread \ {t} : pc'[u] = pc[u] /\ acc'[u] = acc[u] /\ pos'[u] = pos[u]
  BY <1>1, ZenonT(60) DEF Begin, SelectLock, SelectRead, InsertRecord, StartCommit, WriteBack, UnLockRecord,
              EndCommit, AbortStep, EndAbort, Goto, Drop, TypeOK
<1>3. Kept
  BY <1>1 DEF Begin, SelectLock, SelectRead, InsertRecord, StartCommit, WriteBack, UnLockRecord,
              EndCommit, AbortStep, EndAbort, AfterRead, AfterWrite, AfterCommit, AfterAbort
<1>4. /\ \A a \in Owned(t) \cap New \cap heap' : a \in hist'.kept \/ a \in Owned(t)'
      /\ \A a \in heap' \ heap : a \in Owned(t)'
  <2>1. CASE Begin(t) \/ StartCommit(t) \/ WriteBack(t) \/ UnLockRecord(t)
    <3>1. acc' = acc /\ heap' = heap /\ pc[t] # "abort" /\ pc'[t] # "abort"
      BY <2>1, <1>1 DEF Begin, StartCommit, WriteBack, UnLockRecord, Goto, TypeOK
    <3> QED BY <3>1 DEF Owned
  <2>2. CASE SelectLock(t)
    <3>1. acc' = acc /\ heap' = heap /\ pc[t] = "run" /\ (pc'[t] = "abort" => pos'[t] = 1)
      BY <2>2, <1>1 DEF SelectLock, Goto, TypeOK
    <3>2. \A i \in DOMAIN acc[t] : i >= 1
      BY <1>1, OneThread
    <3> QED BY <3>1, <3>2 DEF Owned
  <2>3. CASE SelectRead(t) \/ InsertRecord(t)
    <3>1. PICK e \in Access : /\ acc'[t] = Append(acc[t], e) /\ pc[t] # "abort" /\ pc'[t] # "abort"
                              /\ heap' \subseteq heap \cup {e.addr}
      <4>1. CASE SelectRead(t)
        <5>1. cur[t] # None /\ pc[t] = "read"
          BY <4>1, <1>1 DEF SelectRead, ThreadInv, PlaceOf
        <5>2. [type |-> cur[t].type, addr |-> cur[t].addr, copy |-> mem[cur[t].addr]] \in Access
          BY <5>1, <1>1, OneThread DEF Access, Addr, TypeOK
        <5> QED BY <4>1, <5>1, <5>2, <1>1 DEF SelectRead, Goto, TypeOK
      <4>2. CASE InsertRecord(t)
        <5>1. pc'[t] # "assert"
          BY DEF LockingInv, ThreadInv, PlaceOf
        <5>2. PICK a \in Addr \ heap :
                /\ heap' = heap \cup {a} /\ pc[t] = "run"
                /\ \/ /\ acc' = [acc EXCEPT ![t] = Append(@, [type |-> "INSERT_ONLY", addr |-> a, copy |-> 1])]
                      /\ pc' = pc
                   \/ pc' = [pc EXCEPT ![t] = "assert"]
          BY <4>2 DEF InsertRecord, Goto
        <5>3. [type |-> "INSERT_ONLY", addr |-> a, copy |-> 1] \in Access
          BY DEF Access
        <5>4. pc' = pc /\ acc'[t] = Append(acc[t], [type |-> "INSERT_ONLY", addr |-> a, copy |-> 1])
          BY <5>1, <5>2, <1>1 DEF TypeOK
        <5> QED BY <5>2, <5>3, <5>4
      <4> QED BY <2>3, <4>1, <4>2
    <3>2. acc[t] \in Seq(Access)
      BY <1>1, OneThread
    <3>3. Owned(t)' = Owned(t) \cup {e.addr}
      <4>1. /\ Owned(t) = {acc[t][i].addr : i \in DOMAIN acc[t]}
            /\ Owned(t)' = {acc'[t][i].addr : i \in DOMAIN acc'[t]}
        BY <3>1 DEF Owned
      <4>2. /\ DOMAIN acc'[t] = DOMAIN acc[t] \cup {Len(acc[t]) + 1}
            /\ \A i \in DOMAIN acc[t] : acc'[t][i] = acc[t][i]
            /\ acc'[t][Len(acc[t]) + 1] = e
        BY <3>1, <3>2, Appended
      <4>3. Owned(t)' \subseteq Owned(t) \cup {e.addr}
        BY <4>1, <4>2
      <4>4. Owned(t) \subseteq Owned(t)'
        BY <4>1, <4>2
      <4>5. e.addr \in Owned(t)'
        BY <4>1, <4>2
      <4> QED BY <4>3, <4>4, <4>5
    <3> QED BY <3>1, <3>3
  <2>4. CASE EndCommit(t)
    <3>1. /\ pc[t] = "commit" /\ hist'.kept = hist.kept \cup Of(t, "INSERT_ONLY")
          /\ heap' \subseteq heap
      BY <2>4, <1>1 DEF EndCommit, AfterCommit
    <3>2. Owned(t) \cap New \subseteq Of(t, "INSERT_ONLY")
      BY <1>1, <3>1 DEF Owned, Of, ThreadInv, ListOf
    <3> QED BY <3>1, <3>2
  <2>5. CASE AbortStep(t)
    <3>1. /\ pc[t] = "abort" /\ pc'[t] = "abort" /\ acc' = acc /\ pos[t] \in DOMAIN acc[t]
          /\ pos'[t] = pos[t] + 1
      BY <2>5, <1>1, OneThread DEF AbortStep, TypeOK, ThreadInv, PlaceOf, Ending
    <3>2. heap' \subseteq heap /\ (acc[t][pos[t]].type = "INSERT_ONLY" => acc[t][pos[t]].addr \notin heap')
      BY <2>5 DEF AbortStep, Abandoned
    <3>3. acc[t][pos[t]].addr \in New => acc[t][pos[t]].addr \notin heap'
      BY <3>1, <3>2, <1>1 DEF ThreadInv, ListOf
    <3>4. Owned(t) \subseteq Owned(t)' \cup {acc[t][pos[t]].addr}
      <4>1. \A i \in DOMAIN acc[t] : i \in Nat
        BY <1>1, OneThread
      <4> QED BY <3>1, <4>1, <1>1, OneThread DEF Owned
    <3> QED BY <3>2, <3>3, <3>4
  <2>6. CASE EndAbort(t)
    <3>1. pc[t] = "abort" /\ pos[t] > Len(acc[t]) /\ heap' = heap
      BY <2>6 DEF EndAbort
    <3>2. Owned(t) = {}
      BY <3>1, <1>1, OneThread DEF Owned
    <3> QED BY <3>1, <3>2
  <2> QED BY <2>1, <2>2, <2>3, <2>4, <2>5, <2>6
<1> QED BY <1>2, <1>3, <1>4, AccountedStep DEF MemoryInv

\* The account of the memory holds in every behaviour.
THEOREM LockingMemory == ASSUME Working PROVE Spec => []MemoryInv
<1>1. Init => MemoryInv
  BY LockingInit, TwoPLAssumption DEF Init, MemoryInv, Accounted
<1>2. MemoryInv /\ [Next]_vars => MemoryInv'
  <2> SUFFICES ASSUME MemoryInv, [Next]_vars PROVE MemoryInv'
    OBVIOUS
  <2>1. LockingInv'
    BY LockingStep DEF MemoryInv
  <2>2. CASE UNCHANGED vars
    BY <2>1, <2>2 DEF MemoryInv, Accounted, Owned, vars, mgrVars
  <2>3. CASE Next
    BY <2>1, <2>3, MemoryStep DEF Next
  <2> QED BY <2>2, <2>3
<1> QED BY <1>1, <1>2, PTL DEF Spec

\* A transaction leaves neither a lock nor the memory of a record that it did not
\* insert in the end (AbortTransaction), for any threads and records.
THEOREM LockingNothingLeft == ASSUME Working PROVE Spec => []NothingLeft
<1>1. MemoryInv => NoLeak
  BY DEF MemoryInv, Accounted, Owned, Uses, NoLeak
<1> QED BY <1>1, LockingMemory, LockingNoLockLeft, PTL DEF NothingLeft

\* The assertion of InsertRecord holds: a record that was just allocated is unlocked.
THEOREM LockingInsertLocks == ASSUME Working PROVE Spec => []InsertLocks
<1>1. LockingInv => InsertLocks
  BY DEF LockingInv, ThreadInv, PlaceOf, InsertLocks
<1> QED BY <1>1, LockingInvariant, PTL

------------------------------------------------------------------------------
(* Serialisability.  A transaction takes its place when it has its last lock, *)
(* or gives up: from then on it only gives locks back.                        *)

Txns == Thread \X Nat

\* The transactions that have taken their place.
Passed == {x \in Txns : x[2] < done[x[1]] \/ (x[2] = done[x[1]] /\ pc[x[1]] \in Ending)}

HistTyped ==
  hist \in [writer : [Addr -> Txns \cup {NoTxn}], readers : [Addr -> SUBSET Txns],
            before : SUBSET ((Txns \cup {NoTxn}) \X Txns), kept : SUBSET Addr]

\* Who has read a record has taken its place or has the record locked.
ReadersKnown ==
  \A a \in Addr : \A x \in hist.readers[a] : x \in Passed \/ (x = Txn(x[1]) /\ x[1] \in rd[a] \cup wr[a])

\* Who has written a record has taken its place, and will commit.
WritersKnown ==
  \A a \in Addr : \/ hist.writer[a] = NoTxn
                  \/ /\ hist.writer[a] \in Passed
                     /\ \A u \in Thread : pc[u] = "abort" => hist.writer[a] # Txn(u)

\* r: the places, n: the next one.
Ranks(r, n) == r \in [Txns -> Nat] /\ n \in Nat /\ \A x \in Passed : r[x] < n

\* Who precedes another has taken its place, an earlier one.
EdgesUp(r) ==
  \A e \in hist.before :
    e[1] # NoTxn => e[1] \in Passed /\ (e[2] \in Passed => r[e[1]] < r[e[2]])

\* So has whoever has used a record that is locked for a transaction to be written.
WriterLast(r) ==
  \A a \in Addr : \A u \in wr[a] : pc[u] \in Ending =>
    \A x \in hist.readers[a] \cup {hist.writer[a]} :
      x # NoTxn /\ x # Txn(u) => x \in Passed /\ r[x] < r[Txn(u)]

Serial(r, n) == Ranks(r, n) /\ EdgesUp(r) /\ WriterLast(r)

SerialInv == LockingInv /\ HistTyped /\ ReadersKnown /\ WritersKnown /\ \E r, n : Serial(r, n)

\* What the invariant says of types.
LEMMA SerialFacts ==
  ASSUME LockingInv
  PROVE  /\ done \in [Thread -> Nat]
         /\ \A t \in Thread : Txn(t) \in Txns /\ Txn(t)[1] = t /\ Txn(t)[2] = done[t]
         /\ \A t \in Thread : Txn(t) \in Passed <=> pc[t] \in Ending
         /\ \A a \in Addr : rd[a] \subseteq Thread /\ wr[a] \subseteq Thread
         /\ \A a \in Addr : \A t \in wr[a] : wr[a] = {t} /\ rd[a] = {}
<1>1. done \in [Thread -> Nat] /\ TypeOK /\ Excluded
  BY DEF LockingInv, TypeOK
<1>2. ASSUME NEW t \in Thread
      PROVE  Txn(t) \in Txns /\ Txn(t)[1] = t /\ Txn(t)[2] = done[t] /\ (Txn(t) \in Passed <=> pc[t] \in Ending)
  <2>1. done[t] \in Nat /\ Txn(t) = <<t, done[t]>>
    BY <1>1 DEF Txn
  <2>2. Txn(t) \in Txns /\ Txn(t)[1] = t /\ Txn(t)[2] = done[t]
    BY <2>1 DEF Txns
  <2>3. ~(done[t] < done[t])
    BY <2>1
  <2> QED BY <2>2, <2>3 DEF Passed
<1>3. \A a \in Addr : rd[a] \subseteq Thread /\ wr[a] \subseteq Thread
  BY <1>1 DEF TypeOK
<1> QED BY <1>1, <1>2, <1>3 DEF Excluded

\* Whoever is locked out from a record has taken its place, or is the one that has it
\* locked for writing.
LEMMA UsedByPassed ==
  ASSUME LockingInv, ReadersKnown, WritersKnown, NEW a \in Addr, NEW u \in wr[a],
         NEW x \in hist.readers[a] \cup {hist.writer[a]}, x # NoTxn, x # Txn(u)
  PROVE  x \in Passed
<1>1. CASE x \in hist.readers[a] /\ x \notin Passed
  <2>1. x = Txn(x[1]) /\ x[1] \in rd[a] \cup wr[a]
    BY <1>1 DEF ReadersKnown
  <2>2. rd[a] \cup wr[a] = {u}
    BY SerialFacts
  <2> QED BY <2>1, <2>2
<1>2. CASE x = hist.writer[a]
  BY <1>2 DEF WritersKnown
<1> QED BY <1>1, <1>2

\* A step that leaves the history of reads and writes alone, lets nobody take a place
\* and lets only those give locks back that have one.
LEMMA QuietStep ==
  ASSUME SerialInv, HistTyped', LockingInv',
         hist'.writer = hist.writer, hist'.readers = hist.readers, hist'.before = hist.before,
         Passed' = Passed,
         \A u \in Thread : pc[u] \notin Ending =>
            /\ done'[u] = done[u] /\ pc'[u] \notin Ending
            /\ \A a \in Addr : u \in rd[a] \cup wr[a] => u \in rd'[a] \cup wr'[a],
         \A u \in Thread : pc'[u] \in Ending => done'[u] = done[u] /\ (pc'[u] = "abort" => pc[u] = "abort"),
         \A a \in Addr : \A u \in wr'[a] : pc'[u] \in Ending => u \in wr[a]
  PROVE  SerialInv'
<1>1. LockingInv /\ ReadersKnown /\ WritersKnown /\ (\E r, n : Serial(r, n))
  BY DEF SerialInv
<1>2. PICK r, n : Serial(r, n)
  BY <1>1
<1>3. \A u \in Thread : done'[u] = done[u] => Txn(u)' = Txn(u)
  BY DEF Txn
<1>4. ReadersKnown'
  <2>1. ASSUME NEW a \in Addr, NEW x \in hist.readers[a], x \notin Passed
        PROVE  x = Txn(x[1])' /\ x[1] \in rd'[a] \cup wr'[a]
    <3>1. x = Txn(x[1]) /\ x[1] \in rd[a] \cup wr[a]
      BY <1>1, <2>1 DEF ReadersKnown
    <3>2. PICK u \in Thread : u = x[1]
      BY <1>1, <3>1, SerialFacts
    <3>3. pc[u] \notin Ending
      BY <1>1, <2>1, <3>1, <3>2, SerialFacts
    <3>4. Txn(u)' = Txn(u) /\ u \in rd'[a] \cup wr'[a]
      BY <1>3, <3>1, <3>2, <3>3
    <3> QED BY <3>1, <3>2, <3>4
  <2> QED BY <2>1 DEF ReadersKnown
<1>5. WritersKnown'
  <2>1. ASSUME NEW a \in Addr, hist.writer[a] # NoTxn, NEW u \in Thread, pc'[u] = "abort"
        PROVE  hist.writer[a] # Txn(u)'
    <3>1. Txn(u)' = Txn(u) /\ pc[u] = "abort"
      BY <1>3, <2>1 DEF Ending
    <3> QED BY <1>1, <2>1, <3>1 DEF WritersKnown
  <2>2. \A a \in Addr : hist.writer[a] = NoTxn \/ hist.writer[a] \in Passed
    BY <1>1 DEF WritersKnown
  <2>3. NoTxn' = NoTxn
    BY DEF NoTxn
  <2> QED BY <2>1, <2>2, <2>3 DEF WritersKnown
<1>6. Serial(r, n)'
  <2>1. Ranks(r, n)' /\ EdgesUp(r)'
    BY <1>2 DEF Serial, Ranks, EdgesUp, NoTxn
  <2>2. ASSUME NEW a \in Addr, NEW u \in wr'[a], pc'[u] \in Ending,
               NEW x \in hist.readers[a] \cup {hist.writer[a]}, x # NoTxn, x # Txn(u)'
        PROVE  x \in Passed /\ r[x] < r[Txn(u)']
    <3>1. u \in Thread
      BY <2>2 DEF LockingInv, TypeOK
    <3>2. u \in wr[a] /\ pc[u] \in Ending /\ Txn(u)' = Txn(u)
      BY <1>3, <2>2, <3>1
    <3> QED BY <1>2, <2>2, <3>2 DEF Serial, WriterLast
  <2>3. WriterLast(r)'
    BY <2>2 DEF WriterLast, NoTxn
  <2> QED BY <2>1, <2>3 DEF Serial
<1> QED BY <1>4, <1>5, <1>6 DEF SerialInv

\* A transaction takes its place, after all others.
LEMMA PlaceStep ==
  ASSUME SerialInv, LockingInv', NEW t \in Thread, NEW l \in Ending, l # "unlock",
         pc[t] \notin Ending, pc' = [pc EXCEPT ![t] = l],
         done' = done, rd' = rd, wr' = wr, hist' = hist
  PROVE  SerialInv'
<1>1. LockingInv /\ HistTyped /\ ReadersKnown /\ WritersKnown /\ (\E r, n : Serial(r, n)) /\ TypeOK
  BY DEF SerialInv, LockingInv
<1>2. PICK r, n : Serial(r, n)
  BY <1>1
<1>3. PICK x0 : x0 = Txn(t) /\ x0 \in Txns /\ x0 \notin Passed
  BY <1>1, SerialFacts
<1>4. \A u \in Thread : Txn(u)' = Txn(u)
  BY DEF Txn
<1>5. pc'[t] = l /\ \A u \in Thread \ {t} : pc'[u] = pc[u]
  BY <1>1 DEF TypeOK
<1>6. Passed' = Passed \cup {x0}
  <2>1. ASSUME NEW x \in Txns PROVE x \in Passed' <=> x \in Passed \/ x = x0
    <3>1. x[1] \in Thread /\ x = <<x[1], x[2]>>
      BY DEF Txns
    <3>2. CASE x[1] # t
      <4>1. pc'[x[1]] = pc[x[1]] /\ x # x0
        BY <1>1, <1>3, <1>5, <3>1, <3>2, SerialFacts
      <4> QED BY <4>1 DEF Passed
    <3>3. CASE x[1] = t
      <4>1. x0 = <<t, done[t]>>
        BY <1>3 DEF Txn
      <4>2. x = x0 <=> x[2] = done[t]
        BY <3>1, <3>3, <4>1
      <4>3. x \in Passed' <=> x[2] < done[t] \/ x[2] = done[t]
        BY <1>5, <3>3 DEF Passed
      <4>4. x \in Passed <=> x[2] < done[t]
        BY <3>3 DEF Passed
      <4> QED BY <4>2, <4>3, <4>4
    <3> QED BY <3>2, <3>3
  <2>2. Passed \subseteq Txns /\ Passed' \subseteq Txns
    BY DEF Passed
  <2> QED BY <1>3, <2>1, <2>2
<1>7. PICK r2 : r2 = [r EXCEPT ![x0] = n]
  OBVIOUS
<1>8. /\ r \in [Txns -> Nat] /\ n \in Nat /\ n + 1 \in Nat /\ r2 \in [Txns -> Nat] /\ r2[x0] = n
      /\ \A x \in Passed : r2[x] = r[x] /\ r[x] < n /\ x \in Txns /\ r[x] \in Nat /\ x # x0
  <2>1. r \in [Txns -> Nat] /\ n \in Nat /\ \A x \in Passed : r[x] < n
    BY <1>2 DEF Serial, Ranks
  <2>2. Passed \subseteq Txns
    BY DEF Passed
  <2> QED BY <1>3, <1>7, <2>1, <2>2
<1>9. ReadersKnown'
  <2>1. ASSUME NEW a \in Addr, NEW x \in hist.readers[a], x \notin Passed'
        PROVE  x = Txn(x[1])' /\ x[1] \in rd[a] \cup wr[a]
    <3>1. x = Txn(x[1]) /\ x[1] \in rd[a] \cup wr[a]
      BY <1>1, <1>6, <2>1 DEF ReadersKnown
    <3>2. x[1] \in Thread
      BY <1>1, <3>1, SerialFacts
    <3> QED BY <1>4, <3>1, <3>2
  <2> QED BY <2>1 DEF ReadersKnown
<1>10. WritersKnown'
  <2>1. ASSUME NEW a \in Addr, hist.writer[a] # NoTxn, NEW u \in Thread, pc'[u] = "abort"
        PROVE  hist.writer[a] # Txn(u)'
    <3>1. hist.writer[a] \in Passed /\ (pc[u] = "abort" => hist.writer[a] # Txn(u))
      BY <1>1, <2>1 DEF WritersKnown
    <3>2. CASE u = t
      BY <1>3, <1>4, <3>1, <3>2
    <3>3. CASE u # t
      BY <1>4, <1>5, <2>1, <3>1, <3>3
    <3> QED BY <3>2, <3>3
  <2>2. \A a \in Addr : hist.writer[a] = NoTxn \/ hist.writer[a] \in Passed'
    BY <1>1, <1>6 DEF WritersKnown
  <2> QED BY <2>1, <2>2 DEF WritersKnown, NoTxn
<1>11. Ranks(r2, n + 1)'
  <2>1. \A x \in Passed' : r2[x] < n + 1
    BY <1>6, <1>8
  <2> QED BY <1>8, <2>1 DEF Ranks, Txns
<1>12. EdgesUp(r2)'
  <2>1. ASSUME NEW e \in hist.before, e[1] # NoTxn
        PROVE  e[1] \in Passed' /\ (e[2] \in Passed' => r2[e[1]] < r2[e[2]])
    <3>1. e[1] \in Passed /\ (e[2] \in Passed => r[e[1]] < r[e[2]])
      BY <1>2, <2>1 DEF Serial, EdgesUp
    <3> QED BY <1>6, <1>8, <3>1
  <2> QED BY <2>1 DEF EdgesUp, NoTxn
<1>13. WriterLast(r2)'
  <2>1. ASSUME NEW a \in Addr, NEW u \in wr[a], pc'[u] \in Ending,
               NEW x \in hist.readers[a] \cup {hist.writer[a]}, x # NoTxn, x # Txn(u)'
        PROVE  x \in Passed' /\ r2[x] < r2[Txn(u)']
    <3>1. u \in Thread /\ Txn(u)' = Txn(u)
      BY <1>1, <1>4, SerialFacts
    <3>2. x \in Passed
      BY <1>1, <2>1, <3>1, UsedByPassed
    <3>3. CASE u = t
      BY <1>3, <1>6, <1>8, <3>1, <3>2, <3>3
    <3>4. CASE u # t
      <4>1. pc[u] \in Ending
        BY <1>5, <2>1, <3>1, <3>4
      <4>2. r[x] < r[Txn(u)] /\ Txn(u) \in Passed
        BY <1>1, <1>2, <2>1, <3>1, <4>1, SerialFacts DEF Serial, WriterLast
      <4> QED BY <1>6, <1>8, <3>1, <3>2, <4>2
    <3> QED BY <3>3, <3>4
  <2> QED BY <2>1 DEF WriterLast, NoTxn
<1>14. HistTyped'
  BY <1>1 DEF HistTyped, Txns, NoTxn
<1> QED BY <1>9, <1>10, <1>11, <1>12, <1>13, <1>14 DEF SerialInv, Serial

\* A transaction reads a record that it has locked.
LEMMA ReadStep ==
  ASSUME Working, SerialInv, LockingInv', NEW t \in Thread, SelectRead(t)
  PROVE  SerialInv'
<1>1. LockingInv /\ HistTyped /\ ReadersKnown /\ WritersKnown /\ (\E r, n : Serial(r, n)) /\ TypeOK /\ ThreadInv(t)
  BY DEF SerialInv, LockingInv
<1>2. PICK r, n : Serial(r, n)
  BY <1>1
<1>3. pc[t] = "read" /\ pc'[t] = "run" /\ (\A u \in Thread \ {t} : pc'[u] = pc[u])
      /\ done' = done /\ rd' = rd /\ wr' = wr
  BY <1>1 DEF SelectRead, Goto, TypeOK
<1>4. PICK b \in Addr : b = cur[t].addr /\ t \in rd[b] \cup wr[b]
  <2>1. cur[t] # None
    BY <1>1, <1>3 DEF ThreadInv, PlaceOf
  <2>2. cur[t].addr \in Addr
    BY <1>1, <2>1, OneThread DEF Addr
  <2> QED BY <1>1, <2>1, <2>2 DEF ThreadInv, LocksOf, Holds
<1>5. PICK x0 : x0 = Txn(t) /\ x0 \in Txns /\ x0 \notin Passed /\ x0[1] = t
  BY <1>1, <1>3, SerialFacts DEF Ending
<1>6. \A u \in Thread : Txn(u)' = Txn(u)
  BY <1>3 DEF Txn
<1>7. Passed' = Passed
  <2>1. \A u \in Thread : pc'[u] \in Ending <=> pc[u] \in Ending
    BY <1>3 DEF Ending
  <2> QED BY <1>3, <2>1 DEF Passed, Txns
<1>8. PICK w0 \in Txns \cup {NoTxn} : w0 = hist.writer[b]
  BY <1>1 DEF HistTyped
<1>9. hist' = [hist EXCEPT !.readers[b] = @ \cup {x0}, !.before = @ \cup {<<w0, x0>>}]
  BY <1>4, <1>5, <1>8 DEF SelectRead, AfterRead
<1>10. /\ hist'.writer = hist.writer /\ hist'.before = hist.before \cup {<<w0, x0>>}
       /\ hist'.readers = [hist.readers EXCEPT ![b] = @ \cup {x0}]
       /\ hist'.readers[b] = hist.readers[b] \cup {x0} /\ (\A a \in Addr \ {b} : hist'.readers[a] = hist.readers[a])
       /\ hist'.kept = hist.kept
       /\ hist' = [writer |-> hist'.writer, readers |-> hist'.readers, before |-> hist'.before, kept |-> hist'.kept]
  BY <1>1, <1>9 DEF HistTyped
<1>11. HistTyped'
  <2>1. /\ hist.writer \in [Addr -> Txns \cup {NoTxn}] /\ hist.readers \in [Addr -> SUBSET Txns]
        /\ hist.before \in SUBSET ((Txns \cup {NoTxn}) \X Txns) /\ hist.kept \in SUBSET Addr
    BY <1>1 DEF HistTyped
  <2>2. hist'.before \in SUBSET ((Txns \cup {NoTxn}) \X Txns)
    BY <1>5, <1>8, <1>10, <2>1
  <2>3. hist'.readers \in [Addr -> SUBSET Txns]
    BY <1>5, <1>10, <2>1
  <2>4. hist' \in [writer : [Addr -> Txns \cup {NoTxn}], readers : [Addr -> SUBSET Txns],
                   before : SUBSET ((Txns \cup {NoTxn}) \X Txns), kept : SUBSET Addr]
    BY <1>10, <2>1, <2>2, <2>3
  <2> QED BY <2>4 DEF HistTyped, Txns, NoTxn
<1>12. ReadersKnown'
  <2>1. ASSUME NEW a \in Addr, NEW x \in hist'.readers[a], x \notin Passed'
        PROVE  x = Txn(x[1])' /\ x[1] \in rd[a] \cup wr[a]
    <3>1. CASE x \in hist.readers[a]
      <4>1. x = Txn(x[1]) /\ x[1] \in rd[a] \cup wr[a]
        BY <1>1, <1>7, <2>1, <3>1 DEF ReadersKnown
      <4>2. x[1] \in Thread
        BY <1>1, <4>1, SerialFacts
      <4> QED BY <1>6, <4>1, <4>2
    <3>2. CASE x \notin hist.readers[a]
      <4>1. a = b /\ x = x0
        BY <1>10, <2>1, <3>2
      <4> QED BY <1>4, <1>5, <1>6, <4>1
    <3> QED BY <3>1, <3>2
  <2> QED BY <1>3, <2>1 DEF ReadersKnown
<1>13. WritersKnown'
  <2>1. \A u \in Thread : pc'[u] = "abort" => pc[u] = "abort"
    BY <1>3
  <2> QED BY <1>1, <1>6, <1>7, <1>10, <2>1 DEF WritersKnown, NoTxn
<1>14. EdgesUp(r)'
  <2>1. ASSUME NEW e \in hist'.before, e[1] # NoTxn
        PROVE  e[1] \in Passed /\ (e[2] \in Passed => r[e[1]] < r[e[2]])
    <3>1. CASE e \in hist.before
      BY <1>2, <2>1, <3>1 DEF Serial, EdgesUp
    <3>2. CASE e = <<w0, x0>>
      <4>1. e[1] = w0 /\ e[2] = x0
        BY <3>2
      <4>2. w0 \in Passed
        BY <1>1, <1>8, <2>1, <4>1 DEF WritersKnown
      <4> QED BY <1>5, <4>1, <4>2
    <3> QED BY <1>10, <2>1, <3>1, <3>2
  <2> QED BY <1>7, <2>1 DEF EdgesUp, NoTxn
<1>15. WriterLast(r)'
  <2>1. ASSUME NEW a \in Addr, NEW u \in wr[a], pc'[u] \in Ending,
               NEW x \in hist'.readers[a] \cup {hist.writer[a]}, x # NoTxn, x # Txn(u)'
        PROVE  x \in Passed /\ r[x] < r[Txn(u)']
    <3>1. u \in Thread /\ Txn(u)' = Txn(u) /\ wr[a] = {u} /\ rd[a] = {}
      BY <1>1, <1>6, SerialFacts
    <3>2. u # t /\ pc[u] \in Ending
      BY <1>3, <2>1, <3>1 DEF Ending
    <3>3. a # b
      BY <1>4, <3>1, <3>2
    <3>4. x \in hist.readers[a] \cup {hist.writer[a]}
      BY <1>10, <2>1, <3>3
    <3> QED BY <1>2, <2>1, <3>1, <3>2, <3>4 DEF Serial, WriterLast
  <2> QED BY <1>3, <1>7, <1>10, <2>1 DEF WriterLast, NoTxn
<1>16. Ranks(r, n)'
  BY <1>2, <1>7 DEF Serial, Ranks, Txns
<1> QED BY <1>11, <1>12, <1>13, <1>14, <1>15, <1>16 DEF SerialInv, Serial

\* A transaction that commits writes a record back that it has locked.
LEMMA WroteBackStep ==
  ASSUME Working, SerialInv, LockingInv', NEW t \in Thread, WriteBack(t), acc[t][pos[t]].type = "READ_WRITE"
  PROVE  SerialInv'
<1>1. LockingInv /\ HistTyped /\ ReadersKnown /\ WritersKnown /\ (\E r, n : Serial(r, n)) /\ TypeOK /\ ThreadInv(t)
  BY DEF SerialInv, LockingInv
<1>2. PICK r, n : Serial(r, n)
  BY <1>1
<1>3. pc[t] = "commit" /\ pc'[t] = "unlock" /\ (\A u \in Thread \ {t} : pc'[u] = pc[u])
      /\ done' = done /\ rd' = rd /\ wr' = wr /\ pos[t] <= Len(acc[t])
  BY <1>1 DEF WriteBack, Goto, TypeOK
<1>4. PICK b \in Addr : b = acc[t][pos[t]].addr /\ t \in wr[b]
  <2>1. pos[t] \in DOMAIN acc[t] /\ pos[t] \in Locked(t)
    BY <1>1, <1>3, OneThread DEF ThreadInv, PlaceOf, Ending, Locked
  <2> QED BY <1>1, <2>1, OneThread DEF ThreadInv, LocksOf, Holds
<1>5. PICK x0 : x0 = Txn(t) /\ x0 \in Txns /\ x0 \in Passed /\ x0[1] = t
  BY <1>1, <1>3, SerialFacts DEF Ending
<1>6. \A u \in Thread : Txn(u)' = Txn(u)
  BY <1>3 DEF Txn
<1>7. Passed' = Passed
  <2>1. \A u \in Thread : pc'[u] \in Ending <=> pc[u] \in Ending
    BY <1>3 DEF Ending
  <2> QED BY <1>3, <2>1 DEF Passed, Txns
<1>8. PICK X : X = (hist.readers[b] \cup {hist.writer[b]}) \ {x0}
  OBVIOUS
<1>9. hist' = [hist EXCEPT !.writer[b] = x0, !.readers[b] = {}, !.before = @ \cup {<<x, x0>> : x \in X}]
  <2>1. hist' = AfterWrite(t, b)
    <3>1. acc[t][pos[t]].type \in {"READ_WRITE", "DELETE_ONLY"}
      OBVIOUS
    <3> QED BY <1>4, <3>1 DEF WriteBack
  <2> QED BY <1>5, <1>8, <2>1 DEF AfterWrite
<1>10. /\ hist'.writer = [hist.writer EXCEPT ![b] = x0] /\ hist'.before = hist.before \cup {<<x, x0>> : x \in X}
       /\ hist'.readers = [hist.readers EXCEPT ![b] = {}]
       /\ hist'.readers[b] = {} /\ (\A a \in Addr \ {b} : hist'.readers[a] = hist.readers[a])
       /\ hist'.writer[b] = x0 /\ (\A a \in Addr \ {b} : hist'.writer[a] = hist.writer[a])
       /\ hist'.kept = hist.kept
       /\ hist' = [writer |-> hist'.writer, readers |-> hist'.readers, before |-> hist'.before, kept |-> hist'.kept]
  BY <1>1, <1>9 DEF HistTyped
<1>11. HistTyped'
  <2>1. /\ hist.writer \in [Addr -> Txns \cup {NoTxn}] /\ hist.readers \in [Addr -> SUBSET Txns]
        /\ hist.before \in SUBSET ((Txns \cup {NoTxn}) \X Txns) /\ hist.kept \in SUBSET Addr
    BY <1>1 DEF HistTyped
  <2>2. X \subseteq Txns \cup {NoTxn}
    BY <1>8, <2>1
  <2>3. hist'.before \in SUBSET ((Txns \cup {NoTxn}) \X Txns)
    BY <1>5, <1>10, <2>1, <2>2
  <2>4. hist'.readers \in [Addr -> SUBSET Txns] /\ hist'.writer \in [Addr -> Txns \cup {NoTxn}]
    BY <1>5, <1>10, <2>1
  <2>5. hist' \in [writer : [Addr -> Txns \cup {NoTxn}], readers : [Addr -> SUBSET Txns],
                   before : SUBSET ((Txns \cup {NoTxn}) \X Txns), kept : SUBSET Addr]
    BY <1>10, <2>1, <2>3, <2>4
  <2> QED BY <2>5 DEF HistTyped, Txns, NoTxn
<1>12. ReadersKnown'
  <2>1. ASSUME NEW a \in Addr, NEW x \in hist'.readers[a], x \notin Passed'
        PROVE  x = Txn(x[1])' /\ x[1] \in rd[a] \cup wr[a]
    <3>1. x \in hist.readers[a]
      BY <1>10, <2>1
    <3>2. x = Txn(x[1]) /\ x[1] \in rd[a] \cup wr[a]
      BY <1>1, <1>7, <2>1, <3>1 DEF ReadersKnown
    <3>3. x[1] \in Thread
      BY <1>1, <3>2, SerialFacts
    <3> QED BY <1>6, <3>2, <3>3
  <2> QED BY <1>3, <2>1 DEF ReadersKnown
<1>13. WritersKnown'
  <2>1. ASSUME NEW a \in Addr, hist'.writer[a] # NoTxn
        PROVE  hist'.writer[a] \in Passed /\ \A u \in Thread : pc'[u] = "abort" => hist'.writer[a] # Txn(u)
    <3>1. CASE a = b
      <4>1. ASSUME NEW u \in Thread, pc'[u] = "abort" PROVE x0 # Txn(u)
        BY <1>1, <1>3, <1>5, <4>1, SerialFacts
      <4> QED BY <1>5, <1>10, <3>1, <4>1
    <3>2. CASE a # b
      BY <1>1, <1>3, <1>10, <2>1, <3>2 DEF WritersKnown
    <3> QED BY <3>1, <3>2
  <2> QED BY <1>6, <1>7, <2>1 DEF WritersKnown, NoTxn
<1>14. EdgesUp(r)'
  <2>1. ASSUME NEW e \in hist'.before, e[1] # NoTxn
        PROVE  e[1] \in Passed /\ (e[2] \in Passed => r[e[1]] < r[e[2]])
    <3>1. CASE e \in hist.before
      BY <1>2, <2>1, <3>1 DEF Serial, EdgesUp
    <3>2. CASE e \notin hist.before
      <4>1. PICK x \in X : e = <<x, x0>>
        BY <1>10, <2>1, <3>2
      <4>2. e[1] = x /\ e[2] = x0 /\ x # NoTxn /\ x # Txn(t) /\ x \in hist.readers[b] \cup {hist.writer[b]}
        BY <1>5, <1>8, <2>1, <4>1
      <4>3. pc[t] \in Ending
        BY <1>3 DEF Ending
      <4>4. x \in Passed /\ r[x] < r[Txn(t)]
        BY <1>2, <1>4, <4>2, <4>3 DEF Serial, WriterLast
      <4> QED BY <1>5, <4>2, <4>4
    <3> QED BY <3>1, <3>2
  <2> QED BY <1>7, <2>1 DEF EdgesUp, NoTxn
<1>15. WriterLast(r)'
  <2>1. ASSUME NEW a \in Addr, NEW u \in wr[a], pc'[u] \in Ending,
               NEW x \in hist'.readers[a] \cup {hist'.writer[a]}, x # NoTxn, x # Txn(u)'
        PROVE  x \in Passed /\ r[x] < r[Txn(u)']
    <3>1. u \in Thread /\ Txn(u)' = Txn(u) /\ wr[a] = {u}
      BY <1>1, <1>6, SerialFacts
    <3>2. pc[u] \in Ending
      BY <1>3, <2>1, <3>1 DEF Ending
    <3>3. CASE a = b
      <4>1. u = t /\ x = x0
        BY <1>4, <1>10, <2>1, <3>1, <3>3
      <4> QED BY <1>5, <1>6, <2>1, <4>1
    <3>4. CASE a # b
      <4>1. x \in hist.readers[a] \cup {hist.writer[a]}
        BY <1>10, <2>1, <3>4
      <4> QED BY <1>2, <2>1, <3>1, <3>2, <4>1 DEF Serial, WriterLast
    <3> QED BY <3>3, <3>4
  <2> QED BY <1>3, <1>7, <2>1 DEF WriterLast, NoTxn
<1>16. Ranks(r, n)'
  BY <1>2, <1>7 DEF Serial, Ranks, Txns
<1> QED BY <1>11, <1>12, <1>13, <1>14, <1>15, <1>16 DEF SerialInv, Serial

\* A transaction that aborts leaves no trace.
LEMMA GivenUpStep ==
  ASSUME SerialInv, LockingInv', NEW t \in Thread, EndAbort(t)
  PROVE  SerialInv'
<1>1. LockingInv /\ HistTyped /\ ReadersKnown /\ WritersKnown /\ (\E r, n : Serial(r, n)) /\ TypeOK
  BY DEF SerialInv, LockingInv
<1>2. PICK r, n : Serial(r, n)
  BY <1>1
<1>3. pc[t] = "abort" /\ pc'[t] = "idle" /\ (\A u \in Thread \ {t} : pc'[u] = pc[u])
      /\ done' = done /\ rd' = rd /\ wr' = wr
  BY <1>1 DEF EndAbort, Drop, Goto, TypeOK
<1>5. PICK x0 : x0 = Txn(t) /\ x0 \in Txns /\ x0 \in Passed
  BY <1>1, <1>3, SerialFacts DEF Ending
<1>6. \A u \in Thread : Txn(u)' = Txn(u) /\ (u # t => Txn(u) # x0)
  <2>1. \A u \in Thread : Txn(u)' = Txn(u)
    BY <1>3 DEF Txn
  <2> QED BY <1>1, <1>5, <2>1, SerialFacts
<1>7. Passed' = Passed \ {x0}
  <2>1. ASSUME NEW x \in Txns PROVE x \in Passed' <=> x \in Passed /\ x # x0
    <3>1. x[1] \in Thread /\ x[2] \in Nat /\ x = <<x[1], x[2]>> /\ done[t] \in Nat
      BY <1>1, SerialFacts DEF Txns
    <3>2. CASE x[1] # t
      <4>1. pc'[x[1]] = pc[x[1]] /\ x # x0
        BY <1>1, <1>3, <1>5, <3>1, <3>2, SerialFacts
      <4> QED BY <1>3, <4>1 DEF Passed
    <3>3. CASE x[1] = t
      <4>1. x0 = <<t, done[t]>>
        BY <1>5 DEF Txn
      <4>2. x = x0 <=> x[2] = done[t]
        BY <3>1, <3>3, <4>1
      <4>3. x \in Passed <=> x[2] < done[t] \/ x[2] = done[t]
        BY <1>3, <3>3 DEF Passed, Ending
      <4>4. x \in Passed' <=> x[2] < done[t]
        BY <1>3, <3>3 DEF Passed, Ending
      <4> QED BY <3>1, <4>2, <4>3, <4>4
    <3> QED BY <3>2, <3>3
  <2>2. Passed \subseteq Txns /\ Passed' \subseteq Txns
    BY DEF Passed
  <2> QED BY <2>1, <2>2
<1>9. hist' = [hist EXCEPT !.readers = [a \in Addr |-> hist.readers[a] \ {x0}],
                           !.before = {e \in hist.before : x0 \notin {e[1], e[2]}}]
  BY <1>5 DEF EndAbort, AfterAbort
<1>10. /\ hist'.writer = hist.writer
       /\ hist'.before = {e \in hist.before : x0 \notin {e[1], e[2]}}
       /\ hist'.readers = [a \in Addr |-> hist.readers[a] \ {x0}]
       /\ hist'.kept = hist.kept
       /\ hist' = [writer |-> hist'.writer, readers |-> hist'.readers, before |-> hist'.before, kept |-> hist'.kept]
  BY <1>1, <1>9 DEF HistTyped
<1>11. HistTyped'
  <2>1. /\ hist.writer \in [Addr -> Txns \cup {NoTxn}] /\ hist.readers \in [Addr -> SUBSET Txns]
        /\ hist.before \in SUBSET ((Txns \cup {NoTxn}) \X Txns) /\ hist.kept \in SUBSET Addr
    BY <1>1 DEF HistTyped
  <2>2. hist'.before \in SUBSET ((Txns \cup {NoTxn}) \X Txns)
    BY <1>10, <2>1
  <2>3. hist'.readers \in [Addr -> SUBSET Txns]
    BY <1>10, <2>1
  <2>4. hist' \in [writer : [Addr -> Txns \cup {NoTxn}], readers : [Addr -> SUBSET Txns],
                   before : SUBSET ((Txns \cup {NoTxn}) \X Txns), kept : SUBSET Addr]
    BY <1>10, <2>1, <2>2, <2>3
  <2> QED BY <2>4 DEF HistTyped, Txns, NoTxn
<1>12. \A a \in Addr : hist'.readers[a] = hist.readers[a] \ {x0}
  BY <1>10
<1>13. ReadersKnown'
  <2>1. ASSUME NEW a \in Addr, NEW x \in hist'.readers[a], x \notin Passed'
        PROVE  x = Txn(x[1])' /\ x[1] \in rd[a] \cup wr[a]
    <3>1. x \in hist.readers[a] /\ x # x0 /\ x \notin Passed
      BY <1>7, <1>12, <2>1
    <3>2. x = Txn(x[1]) /\ x[1] \in rd[a] \cup wr[a]
      BY <1>1, <3>1 DEF ReadersKnown
    <3>3. x[1] \in Thread
      BY <1>1, <3>2, SerialFacts
    <3> QED BY <1>6, <3>2, <3>3
  <2> QED BY <1>3, <2>1 DEF ReadersKnown
<1>14. \A a \in Addr : hist.writer[a] = NoTxn \/ (hist.writer[a] \in Passed /\ hist.writer[a] # x0)
  BY <1>1, <1>3, <1>5 DEF WritersKnown
<1>15. WritersKnown'
  <2>1. \A u \in Thread : pc'[u] = "abort" => pc[u] = "abort"
    BY <1>3
  <2>2. \A a \in Addr : \A u \in Thread :
          hist.writer[a] # NoTxn /\ pc'[u] = "abort" => hist.writer[a] # Txn(u)'
    BY <1>1, <1>6, <2>1 DEF WritersKnown
  <2> QED BY <1>7, <1>10, <1>14, <2>2 DEF WritersKnown, NoTxn
<1>16. EdgesUp(r)'
  <2>1. ASSUME NEW e \in hist'.before, e[1] # NoTxn
        PROVE  e[1] \in Passed' /\ (e[2] \in Passed' => r[e[1]] < r[e[2]])
    <3>1. e \in hist.before /\ e[1] # x0
      BY <1>10
    <3> QED BY <1>2, <1>7, <2>1, <3>1 DEF Serial, EdgesUp
  <2> QED BY <2>1 DEF EdgesUp, NoTxn
<1>17. WriterLast(r)'
  <2>1. ASSUME NEW a \in Addr, NEW u \in wr[a], pc'[u] \in Ending,
               NEW x \in hist'.readers[a] \cup {hist.writer[a]}, x # NoTxn, x # Txn(u)'
        PROVE  x \in Passed' /\ r[x] < r[Txn(u)']
    <3>1. u \in Thread /\ Txn(u)' = Txn(u)
      BY <1>1, <1>6, SerialFacts
    <3>2. u # t /\ pc[u] \in Ending
      BY <1>3, <2>1, <3>1 DEF Ending
    <3>3. x \in hist.readers[a] \cup {hist.writer[a]} /\ x # x0
      BY <1>12, <1>14, <2>1
    <3>4. x \in Passed /\ r[x] < r[Txn(u)]
      BY <1>2, <2>1, <3>1, <3>2, <3>3 DEF Serial, WriterLast
    <3> QED BY <1>7, <3>1, <3>3, <3>4
  <2> QED BY <1>3, <1>10, <2>1 DEF WriterLast, NoTxn
<1>18. Ranks(r, n)'
  BY <1>2, <1>7 DEF Serial, Ranks, Txns
<1> QED BY <1>11, <1>13, <1>15, <1>16, <1>17, <1>18 DEF SerialInv, Serial

\* A step that leaves the history, and who has taken a place, alone.
LEMMA SameStep ==
  ASSUME SerialInv, LockingInv', NEW t \in Thread, hist' = hist, done' = done,
         \A u \in Thread \ {t} : pc'[u] = pc[u],
         pc[t] \in Ending <=> pc'[t] \in Ending, pc'[t] = "abort" => pc[t] = "abort",
         \A a \in Addr : \A u \in Thread :
           \/ (u \in rd[a] => u \in rd'[a]) /\ (u \in wr[a] <=> u \in wr'[a])
           \/ u = t /\ pc[t] \notin Ending /\ (u \in rd[a] \cup wr[a] => u \in rd'[a] \cup wr'[a])
           \/ u = t /\ pc[t] \in Ending /\ (u \in wr'[a] => u \in wr[a])
  PROVE  SerialInv'
<1>1. LockingInv /\ HistTyped
  BY DEF SerialInv
<1>2. Passed' = Passed
  <2>1. \A u \in Thread : pc'[u] \in Ending <=> pc[u] \in Ending
    OBVIOUS
  <2> QED BY <2>1 DEF Passed, Txns
<1>3. HistTyped'
  BY <1>1 DEF HistTyped, Txns, NoTxn
<1>4. \A u \in Thread : pc[u] \notin Ending =>
            /\ done'[u] = done[u] /\ pc'[u] \notin Ending
            /\ \A a \in Addr : u \in rd[a] \cup wr[a] => u \in rd'[a] \cup wr'[a]
  OBVIOUS
<1>5. \A u \in Thread : pc'[u] \in Ending => done'[u] = done[u] /\ (pc'[u] = "abort" => pc[u] = "abort")
  OBVIOUS
<1>6. \A a \in Addr : \A u \in wr'[a] : pc'[u] \in Ending => u \in wr[a]
  <2>1. \A a \in Addr : wr'[a] \subseteq Thread
    BY DEF LockingInv, TypeOK
  <2> QED BY <2>1
<1> QED BY <1>2, <1>3, <1>4, <1>5, <1>6, QuietStep

\* Locks that t takes or gives back, as SameStep wants them.
LEMMA TakesLock ==
  ASSUME Working, TypeOK, NEW t \in Thread, NEW a \in Addr, NEW y, Lock(t, a, y),
         NEW b \in Addr, NEW u \in Thread
  PROVE  \/ (u \in rd[b] => u \in rd'[b]) /\ (u \in wr[b] <=> u \in wr'[b])
         \/ u = t /\ (u \in rd[b] \cup wr[b] => u \in rd'[b] \cup wr'[b])
<1>1. rd \in [Addr -> SUBSET Thread] /\ wr \in [Addr -> SUBSET Thread]
  BY DEF TypeOK
<1>2. CASE y = "READ_ONLY"
  <2>1. rd' = [rd EXCEPT ![a] = @ \cup {t}] /\ wr' = wr
    BY <1>2 DEF Lock, Working
  <2> QED BY <1>1, <2>1, JoinLock
<1>3. CASE y # "READ_ONLY"
  <2>1. wr' = [wr EXCEPT ![a] = @ \cup {t}] /\ rd' = rd
    BY <1>3 DEF Lock, Working
  <2> QED BY <1>1, <2>1, JoinLock
<1> QED BY <1>2, <1>3

LEMMA GivesLock ==
  ASSUME TypeOK, NEW t \in Thread, NEW a \in Addr, UnLock(t, a), NEW b \in Addr, NEW u \in Thread
  PROVE  \/ (u \in rd[b] => u \in rd'[b]) /\ (u \in wr[b] <=> u \in wr'[b])
         \/ u = t /\ (u \in wr'[b] => u \in wr[b])
<1>1. rd \in [Addr -> SUBSET Thread] /\ wr \in [Addr -> SUBSET Thread]
  BY DEF TypeOK
<1>2. rd' = [rd EXCEPT ![a] = @ \ {t}] /\ wr' = [wr EXCEPT ![a] = @ \ {t}]
  BY DEF UnLock
<1> QED BY <1>1, <1>2, LeaveLock

\* Every step of a transaction keeps the places in order.
LEMMA SerialStep ==
  ASSUME Working, SerialInv, LockingInv', NEW t \in Thread,
         \/ Begin(t) \/ SelectLock(t) \/ SelectRead(t) \/ InsertRecord(t)
         \/ StartCommit(t) \/ WriteBack(t) \/ UnLockRecord(t) \/ EndCommit(t)
         \/ AbortStep(t) \/ EndAbort(t)
  PROVE  SerialInv'
<1>1. LockingInv /\ HistTyped /\ TypeOK /\ ThreadInv(t)
  BY DEF SerialInv, LockingInv
<1>2. pc \in [Thread -> {"idle", "run", "read", "commit", "unlock", "abort", "assert"}]
  BY <1>1 DEF TypeOK
<1>3. CASE Begin(t)
  <2>1. pc[t] = "idle" /\ pc' = [pc EXCEPT ![t] = "run"] /\ done' = done /\ rd' = rd /\ wr' = wr /\ hist' = hist
    BY <1>3 DEF Begin, Goto
  <2>2. pc'[t] = "run" /\ \A u \in Thread \ {t} : pc'[u] = pc[u]
    BY <1>2, <2>1
  <2> QED BY <2>1, <2>2, SameStep DEF Ending
<1>4. CASE SelectLock(t)
  <2>1. pc[t] = "run" /\ done' = done /\ hist' = hist
    BY <1>4 DEF SelectLock
  <2>2. PICK a \in Rec, y \in Types :
          \/ Lock(t, a, y) /\ pc' = [pc EXCEPT ![t] = "read"]
          \/ pc' = [pc EXCEPT ![t] = "abort"] /\ rd' = rd /\ wr' = wr
    BY <1>4 DEF SelectLock, Goto
  <2>3. CASE Lock(t, a, y) /\ pc' = [pc EXCEPT ![t] = "read"]
    <3>1. pc'[t] = "read" /\ \A u \in Thread \ {t} : pc'[u] = pc[u]
      BY <1>2, <2>3
    <3>2. a \in Addr /\ pc[t] \notin Ending /\ pc'[t] \notin Ending
      BY <2>1, <3>1 DEF Addr, Ending
    <3>3. \A b \in Addr : \A u \in Thread :
            \/ (u \in rd[b] => u \in rd'[b]) /\ (u \in wr[b] <=> u \in wr'[b])
            \/ u = t /\ (u \in rd[b] \cup wr[b] => u \in rd'[b] \cup wr'[b])
      BY <1>1, <2>3, <3>2, TakesLock
    <3> QED BY <2>1, <3>1, <3>2, <3>3, SameStep
  <2>4. CASE pc' = [pc EXCEPT ![t] = "abort"] /\ rd' = rd /\ wr' = wr
    BY <2>1, <2>4, PlaceStep DEF Ending
  <2> QED BY <2>2, <2>3, <2>4
<1>5. CASE SelectRead(t)
  BY <1>5, ReadStep
<1>6. CASE InsertRecord(t)
  <2>1. pc[t] = "run" /\ done' = done /\ hist' = hist /\ pc'[t] # "assert"
    BY <1>6 DEF InsertRecord, LockingInv, ThreadInv, PlaceOf
  <2>2. PICK a \in Addr : \/ Lock(t, a, "INSERT_ONLY") /\ pc' = pc
                          \/ pc' = [pc EXCEPT ![t] = "assert"]
    BY <1>6 DEF InsertRecord, Goto
  <2>3. Lock(t, a, "INSERT_ONLY") /\ pc' = pc
    BY <1>2, <2>1, <2>2
  <2>4. pc[t] \notin Ending
    BY <2>1 DEF Ending
  <2>5. \A b \in Addr : \A u \in Thread :
          \/ (u \in rd[b] => u \in rd'[b]) /\ (u \in wr[b] <=> u \in wr'[b])
          \/ u = t /\ (u \in rd[b] \cup wr[b] => u \in rd'[b] \cup wr'[b])
    BY <1>1, <2>3, TakesLock
  <2> QED BY <2>1, <2>3, <2>4, <2>5, SameStep
<1>7. CASE StartCommit(t)
  <2>1. /\ pc[t] = "run" /\ pc' = [pc EXCEPT ![t] = "commit"]
        /\ done' = done /\ rd' = rd /\ wr' = wr /\ hist' = hist
    BY <1>7 DEF StartCommit, Goto
  <2> QED BY <2>1, PlaceStep DEF Ending
<1>8. CASE WriteBack(t)
  <2>1. CASE acc[t][pos[t]].type = "READ_WRITE"
    BY <1>8, <2>1, WroteBackStep
  <2>2. CASE acc[t][pos[t]].type # "READ_WRITE"
    <3>1. /\ pc[t] = "commit" /\ pos[t] <= Len(acc[t]) /\ pc' = [pc EXCEPT ![t] = "unlock"]
          /\ done' = done /\ rd' = rd /\ wr' = wr
      BY <1>8 DEF WriteBack, Goto
    <3>2. acc[t][pos[t]].type # "DELETE_ONLY"
      <4>1. pos[t] \in DOMAIN acc[t]
        BY <1>1, <3>1, OneThread DEF ThreadInv, PlaceOf, Ending
      <4>2. acc[t][pos[t]] \in Access
        BY <1>1, <4>1, OneThread
      <4> QED BY <4>2 DEF Access, Working
    <3>3. hist' = hist
      BY <1>8, <2>2, <3>2 DEF WriteBack
    <3>4. pc'[t] = "unlock" /\ \A u \in Thread \ {t} : pc'[u] = pc[u]
      BY <1>2, <3>1
    <3> QED BY <3>1, <3>3, <3>4, SameStep DEF Ending
  <2> QED BY <2>1, <2>2
<1>9. CASE UnLockRecord(t) \/ AbortStep(t)
  <2>1. /\ pc[t] \in Ending /\ pc'[t] \in Ending /\ (pc'[t] = "abort" => pc[t] = "abort")
        /\ \A u \in Thread \ {t} : pc'[u] = pc[u]
    BY <1>2, <1>9 DEF UnLockRecord, AbortStep, Goto, Ending
  <2>2. done' = done /\ hist' = hist
    BY <1>9 DEF UnLockRecord, AbortStep
  <2>3. PICK a : a = acc[t][pos[t]].addr /\ ((rd' = rd /\ wr' = wr) \/ (UnLock(t, a) /\ pos[t] <= Len(acc[t])))
    BY <1>9 DEF UnLockRecord, AbortStep
  <2>4. CASE rd' = rd /\ wr' = wr
    BY <2>1, <2>2, <2>4, SameStep
  <2>5. CASE UnLock(t, a) /\ pos[t] <= Len(acc[t])
    <3>1. pos[t] \in DOMAIN acc[t]
      BY <1>1, <2>1, <2>5, OneThread DEF ThreadInv, PlaceOf
    <3>2. a \in Addr
      BY <1>1, <2>3, <3>1, OneThread
    <3>3. \A b \in Addr : \A u \in Thread :
            \/ (u \in rd[b] => u \in rd'[b]) /\ (u \in wr[b] <=> u \in wr'[b])
            \/ u = t /\ (u \in wr'[b] => u \in wr[b])
      BY <1>1, <2>5, <3>2, GivesLock
    <3> QED BY <2>1, <2>2, <3>3, SameStep
  <2> QED BY <2>3, <2>4, <2>5
<1>10. CASE EndCommit(t)
  <2>1. /\ pc[t] = "commit" /\ pc' = [pc EXCEPT ![t] = "idle"] /\ done' = [done EXCEPT ![t] = @ + 1]
        /\ rd' = rd /\ wr' = wr /\ hist' = AfterCommit(t, Of(t, "INSERT_ONLY"))
    BY <1>10 DEF EndCommit, Drop, Goto
  <2>2. done \in [Thread -> Nat]
    BY <1>1 DEF TypeOK
  <2>3. /\ pc'[t] = "idle" /\ (\A u \in Thread \ {t} : pc'[u] = pc[u] /\ done'[u] = done[u])
        /\ done'[t] = done[t] + 1 /\ done[t] \in Nat
    BY <1>2, <2>1, <2>2
  <2>4. Of(t, "INSERT_ONLY") \subseteq Addr
    BY <1>1, OneThread DEF Of
  <2>5. /\ hist'.writer = hist.writer /\ hist'.readers = hist.readers /\ hist'.before = hist.before
        /\ hist'.kept = hist.kept \cup Of(t, "INSERT_ONLY")
        /\ hist' = [writer |-> hist'.writer, readers |-> hist'.readers, before |-> hist'.before, kept |-> hist'.kept]
    BY <1>1, <2>1 DEF HistTyped, AfterCommit
  <2>6. HistTyped'
    <3>1. /\ hist.writer \in [Addr -> Txns \cup {NoTxn}] /\ hist.readers \in [Addr -> SUBSET Txns]
          /\ hist.before \in SUBSET ((Txns \cup {NoTxn}) \X Txns) /\ hist.kept \in SUBSET Addr
      BY <1>1 DEF HistTyped
    <3>2. hist' \in [writer : [Addr -> Txns \cup {NoTxn}], readers : [Addr -> SUBSET Txns],
                     before : SUBSET ((Txns \cup {NoTxn}) \X Txns), kept : SUBSET Addr]
      BY <2>4, <2>5, <3>1
    <3> QED BY <3>2 DEF HistTyped, Txns, NoTxn
  <2>7. Passed' = Passed
    <3>1. ASSUME NEW x \in Txns PROVE x \in Passed' <=> x \in Passed
      <4>1. x[1] \in Thread /\ x[2] \in Nat
        BY DEF Txns
      <4>2. CASE x[1] # t
        BY <2>3, <4>1, <4>2 DEF Passed
      <4>3. CASE x[1] = t
        <5>1. x \in Passed' <=> x[2] < done[t] + 1
          BY <2>3, <4>3 DEF Passed, Ending
        <5>2. x \in Passed <=> x[2] < done[t] \/ x[2] = done[t]
          BY <2>1, <4>3 DEF Passed, Ending
        <5> QED BY <2>3, <4>1, <5>1, <5>2
      <4> QED BY <4>2, <4>3
    <3>2. Passed \subseteq Txns /\ Passed' \subseteq Txns
      BY DEF Passed
    <3> QED BY <3>1, <3>2
  <2>8. pc[t] \in Ending /\ pc'[t] \notin Ending
    BY <2>1, <2>3 DEF Ending
  <2>9. \A a \in Addr : wr'[a] = wr[a] /\ rd'[a] = rd[a] /\ wr[a] \subseteq Thread
    BY <1>1, <2>1 DEF TypeOK
  <2>10. \A u \in Thread : pc[u] \notin Ending =>
           /\ done'[u] = done[u] /\ pc'[u] \notin Ending
           /\ \A a \in Addr : u \in rd[a] \cup wr[a] => u \in rd'[a] \cup wr'[a]
    BY <2>3, <2>8, <2>9
  <2>11. \A u \in Thread : pc'[u] \in Ending => done'[u] = done[u] /\ (pc'[u] = "abort" => pc[u] = "abort")
    BY <2>3, <2>8
  <2>12. \A a \in Addr : \A u \in wr'[a] : pc'[u] \in Ending => u \in wr[a]
    BY <2>9
  <2> QED BY <2>5, <2>6, <2>7, <2>10, <2>11, <2>12, QuietStep
<1>11. CASE EndAbort(t)
  BY <1>11, GivenUpStep
<1> QED BY <1>3, <1>4, <1>5, <1>6, <1>7, <1>8, <1>9, <1>10, <1>11

\* At the start nobody has taken a place.
LEMMA SerialInit == Init => SerialInv
<1> SUFFICES ASSUME Init PROVE SerialInv
  OBVIOUS
<1>1. LockingInv
  BY LockingInit
<1>2. /\ hist = [writer |-> [a \in Addr |-> NoTxn], readers |-> [a \in Addr |-> {}], before |-> {}, kept |-> {}]
      /\ \A t \in Thread : pc[t] = "idle" /\ done[t] = 0
      /\ \A a \in Addr : wr[a] = {}
  BY DEF Init
<1>3. Passed = {}
  <2>1. ASSUME NEW x \in Txns PROVE x \notin Passed
    <3>1. x[1] \in Thread /\ x[2] \in Nat
      BY DEF Txns
    <3> QED BY <1>2, <3>1 DEF Passed, Ending
  <2> QED BY <2>1 DEF Passed
<1>4. HistTyped
  BY <1>2 DEF HistTyped
<1>5. ReadersKnown /\ WritersKnown
  BY <1>2 DEF ReadersKnown, WritersKnown
<1>6. PICK r : r = [x \in Txns |-> 0]
  OBVIOUS
<1>7. Serial(r, 0)
  BY <1>2, <1>3, <1>6 DEF Serial, Ranks, EdgesUp, WriterLast
<1> QED BY <1>1, <1>4, <1>5, <1>7 DEF SerialInv

\* The places of some transactions have a last one.
LEMMA LastPlace ==
  ASSUME NEW S, S # {}, NEW r, NEW n \in Nat, \A x \in S : r[x] \in Nat /\ r[x] < n
  PROVE  \E x \in S : \A y \in S : ~(r[x] < r[y])
<1> DEFINE From(x) == r[x] .. n
           T == {From(x) : x \in S}
<1>1. T \subseteq SUBSET (0 .. n) /\ T # {}
  OBVIOUS
<1>2. PICK s \in T : \A q \in T : q \subseteq s => q = s
  <2>1. 0 \in Int /\ n \in Int
    OBVIOUS
  <2>2. IsFiniteSet(0 .. n)
    BY <2>1, FS_Interval
  <2> DEFINE I == 0 .. n
  <2>3. IsFiniteSet(I) /\ T \subseteq SUBSET I /\ T # {}
    BY <1>1, <2>2
  <2> HIDE DEF I, T
  <2> QED BY <2>3, SmallestSet
<1>3. PICK x \in S : s = From(x)
  OBVIOUS
<1>4. ASSUME NEW y \in S, r[x] < r[y] PROVE FALSE
  <2>1. From(y) \in T /\ From(y) \subseteq s
    BY <1>3, <1>4
  <2>2. r[x] \in s /\ r[x] \notin From(y)
    BY <1>3, <1>4
  <2> QED BY <1>2, <2>1, <2>2
<1> QED BY <1>4

\* Two-phase locking as TransactionManager2PL.cpp does it, with locks that work, is
\* serialisable, for any threads, records and accesses: no transactions precede each
\* other in a circle.
THEOREM LockingSerializable == ASSUME Working PROVE Spec => []Serializable
<1>1. SerialInv /\ [Next]_vars => SerialInv'
  <2> SUFFICES ASSUME SerialInv, [Next]_vars PROVE SerialInv'
    OBVIOUS
  <2>1. LockingInv'
    BY LockingStep DEF SerialInv
  <2>2. CASE UNCHANGED vars
    <3>1. pc' = pc /\ done' = done /\ rd' = rd /\ wr' = wr /\ hist' = hist
      BY <2>2 DEF vars, mgrVars
    <3>2. Passed' = Passed /\ \A u : Txn(u)' = Txn(u)
      BY <3>1 DEF Passed, Txn, Txns
    <3>3. PICK r, n : Serial(r, n)
      BY DEF SerialInv
    <3>4. HistTyped' /\ ReadersKnown' /\ WritersKnown'
      BY <3>1, <3>2 DEF SerialInv, HistTyped, ReadersKnown, WritersKnown, Txns, NoTxn
    <3>5. Serial(r, n)'
      BY <3>1, <3>2, <3>3 DEF Serial, Ranks, EdgesUp, WriterLast, Txns, NoTxn
    <3> QED BY <2>1, <3>4, <3>5 DEF SerialInv
  <2>3. CASE Next
    BY <2>1, <2>3, SerialStep DEF Next
  <2> QED BY <2>2, <2>3
<1>2. SerialInv => Serializable
  <2> SUFFICES ASSUME SerialInv PROVE Serializable
    OBVIOUS
  <2>1. PICK r, n : Serial(r, n)
    BY DEF SerialInv
  <2> DEFINE E == {e \in hist.before : e[1] # NoTxn}
  <2>2. ASSUME NEW S \in SUBSET {e[1] : e \in E}, S # {}
        PROVE  \E x \in S : \A y \in S : <<x, y>> \notin E
    <3>1. \A x \in S : x \in Passed /\ r[x] \in Nat /\ r[x] < n
      BY <2>1 DEF Serial, EdgesUp, Ranks, Passed
    <3>2. n \in Nat
      BY <2>1 DEF Serial, Ranks
    <3>3. PICK x \in S : \A y \in S : ~(r[x] < r[y])
      BY <2>2, <3>1, <3>2, LastPlace
    <3>4. ASSUME NEW y \in S, <<x, y>> \in E PROVE FALSE
      <4>1. PICK e \in hist.before : e = <<x, y>> /\ e[1] # NoTxn
        BY <3>4
      <4>2. e[1] = x /\ e[2] = y
        BY <4>1
      <4>3. r[x] < r[y]
        BY <2>1, <3>1, <4>1, <4>2 DEF Serial, EdgesUp
      <4> QED BY <3>3, <4>3
    <3> QED BY <3>4
  <2> QED BY <2>2 DEF Serializable
<1> QED BY <1>1, <1>2, SerialInit, PTL DEF Spec

------------------------------------------------------------------------------
(* Executor *)

\* The number of threads is a number, and the threads are those below it.
LEMMA WorkerIds == Workers \in Nat /\ \A t : t \in Worker <=> t \in Nat /\ t < Workers
<1>1. Workers \in Nat
  BY ExecutorAssumption, FS_CardinalityType DEF Workers
<1>2. Worker = 0 .. Workers - 1
  BY ExecutorAssumption DEF Workers
<1> QED BY <1>1, <1>2

\* The limit is at least one.
LEMMA LimitIs == FailLimit \in Nat /\ FailLimit >= 1
BY ExecutorAssumption

------------------------------------------------------------------------------
(* The inductive invariant *)

\* The flags that the main thread has passed are set; it lets the threads begin only
\* when it has passed all, and no thread gets further before that.
Started ==
  /\ main = "scan" /\ scan.all => \A u \in Worker : u < scan.at => ready[u]
  /\ begin => \A u \in Worker : ready[u]
  /\ \A t \in Worker : place[t] \notin {"prepare", "wait"} => begin

\* The time is taken before anybody is told to finish, and nobody exits before.
Ended ==
  /\ finish => stamp
  /\ \A t \in Worker : place[t] = "finish" => stamp
  /\ \A t \in Worker : place[t] = "exit" => finish
  /\ main = "report" => \A t \in Worker : place[t] = "exit"

\* How many failures thread t may have had, by its place in the current transaction.
Allowed(t) ==
  IF place[t] \in {"prepare", "wait", "next", "execute"} THEN FailLimit - 1 + 2 * idx[t]
  ELSE IF place[t] \in {"failed", "retry"} THEN FailLimit + 2 * idx[t]
  ELSE FailLimit + 1 + 2 * idx[t]

Failures == \A t \in Worker : cnt[t].abort <= Allowed(t)

\* The places of a thread.
Place == {"prepare", "wait", "next", "execute", "failed", "retry", "count", "done", "stamp",
          "finish", "exit"}

ExecInv == ExecTypeOK /\ Started /\ Ended /\ Failures

------------------------------------------------------------------------------
\* The initial states satisfy the invariant.
LEMMA ExecInitInv == ExecInit => ExecInv
<1> SUFFICES ASSUME ExecInit PROVE ExecInv
  OBVIOUS
<1>1. ExecTypeOK
  <2>1. scan \in [at : 0 .. Workers, all : BOOLEAN]
    BY WorkerIds DEF ExecInit
  <2> QED BY <2>1 DEF ExecInit, ExecTypeOK
<1>2. Started /\ Ended
  BY WorkerIds DEF ExecInit, Started, Ended
<1>3. Failures
  <2>1. ASSUME NEW t \in Worker PROVE cnt[t].abort = 0 /\ idx[t] = 0 /\ place[t] = "prepare"
    BY DEF ExecInit
  <2> QED BY <2>1, ExecutorAssumption DEF Failures, Allowed
<1> QED BY <1>1, <1>2, <1>3 DEF ExecInv

\* What the type invariant says of one thread.
LEMMA ExecOneThread ==
  ASSUME ExecTypeOK, NEW t \in Worker
  PROVE  /\ place[t] \in Place /\ idx[t] \in Nat /\ ready[t] \in BOOLEAN
         /\ cnt[t] \in [done : Nat, abort : Nat, abortMe : BOOLEAN]
         /\ cnt[t].abort \in Nat /\ cnt[t].done \in Nat /\ cnt[t].abortMe \in BOOLEAN
         /\ tally[t] \in [done : Nat, abort : Nat]
         /\ tally[t].done \in Nat /\ tally[t].abort \in Nat
         /\ total.done \in Nat /\ total.abort \in Nat
BY DEF ExecTypeOK, Place

\* A thread goes to a place of its program, and leaves having added its counts to the totals.
LEMMA Goes ==
  ASSUME ExecTypeOK, NEW t \in Worker, NEW l \in Place, Go(t, l)
  PROVE  place' \in [Worker -> Place]
BY DEF ExecTypeOK, Go, Place

LEMMA Leaves ==
  ASSUME ExecTypeOK, NEW t \in Worker, Leave(t)
  PROVE  place' \in [Worker -> Place] /\ total' \in [done : Nat, abort : Nat]
<1>1. "exit" \in Place
  BY DEF Place
<1>2. total.done + cnt[t].done \in Nat /\ total.abort + cnt[t].abort \in Nat
  BY ExecOneThread
<1> QED BY <1>1, <1>2, Goes DEF Leave

\* The main thread: one flag, the decision after the last flag, the join.
LEMMA MainInv == ASSUME ExecInv, Main PROVE ExecInv'
<1>1. CASE Scan
  <2>1. ExecTypeOK'
    BY <1>1, WorkerIds DEF ExecInv, ExecTypeOK, Scan, Scanned, thrVars
  <2>2. Started'
    <3>0. scan \in [at : 0 .. Workers, all : BOOLEAN] /\ scan.at \in Nat /\ main = "scan" /\ main' = "scan"
      BY <1>1, WorkerIds DEF ExecInv, ExecTypeOK, Scan
    <3>1. CASE ready[scan.at]
      <4>1. scan'.at = scan.at + 1 /\ scan'.all = scan.all
        BY <1>1, <3>0, <3>1 DEF Scan, Scanned
      <4>2. ASSUME scan.all, NEW u \in Worker, u < scan.at + 1 PROVE ready[u]
        <5>1. u < scan.at \/ u = scan.at
          BY <4>2, <3>0, WorkerIds
        <5> QED BY <5>1, <4>2, <3>0, <3>1 DEF ExecInv, Started
      <4> QED BY <4>1, <4>2, <1>1, <3>0 DEF ExecInv, Started, Scan, thrVars
    <3>2. CASE ~ready[scan.at]
      <4>1. scan'.all = FALSE
        BY <1>1, <3>2 DEF Scan, Scanned
      <4> QED BY <4>1, <1>1 DEF ExecInv, Started, Scan, thrVars
    <3> QED BY <3>1, <3>2
  <2>3. Ended' /\ Failures'
    BY <1>1 DEF ExecInv, Ended, Failures, Allowed, Scan, thrVars
  <2> QED BY <2>1, <2>2, <2>3 DEF ExecInv
<1>2. CASE Decide
  <2>1. ExecTypeOK'
    <3>1. scan' \in [at : 0 .. Workers, all : BOOLEAN]
      <4>1. scan' = scan \/ scan' = [at |-> 0, all |-> TRUE]
        BY <1>2 DEF Decide, ScanAgain
      <4>2. 0 \in 0 .. Workers
        BY WorkerIds
      <4>3. [at |-> 0, all |-> TRUE] \in [at : 0 .. Workers, all : BOOLEAN]
        BY <4>2
      <4>4. scan \in [at : 0 .. Workers, all : BOOLEAN]
        BY DEF ExecInv, ExecTypeOK
      <4> QED BY <4>1, <4>3, <4>4
    <3> QED BY <1>2, <3>1 DEF ExecInv, ExecTypeOK, Decide, thrVars
  <2>2. Started'
    <3>1. CASE scan.all
      <4>1. \A u \in Worker : ready[u]
        <5>1. main = "scan" /\ scan.at = Workers
          BY <1>2 DEF Decide
        <5>2. \A u \in Worker : u < Workers
          BY WorkerIds
        <5> QED BY <5>1, <5>2, <3>1 DEF ExecInv, Started
      <4>2. main' = "join" /\ begin' = TRUE /\ ready' = ready
        BY <1>2, <3>1 DEF Decide, thrVars
      <4> QED BY <4>1, <4>2 DEF Started
    <3>2. CASE ~scan.all
      <4>1. scan' = [at |-> 0, all |-> TRUE] /\ main' = main /\ begin' = begin /\ ready' = ready /\ place' = place
        BY <1>2, <3>2 DEF Decide, ScanAgain, thrVars
      <4>2. \A u \in Worker : ~(u < scan'.at)
        BY <4>1, WorkerIds
      <4> QED BY <4>1, <4>2 DEF ExecInv, Started
    <3> QED BY <3>1, <3>2
  <2>3. Ended' /\ Failures'
    BY <1>2 DEF ExecInv, Ended, Failures, Allowed, Decide, thrVars
  <2> QED BY <2>1, <2>2, <2>3 DEF ExecInv
<1>3. CASE Join
  BY <1>3 DEF ExecInv, ExecTypeOK, Started, Ended, Failures, Allowed, Join, thrVars
<1> QED BY <1>1, <1>2, <1>3 DEF Main

\* A step of thread t moves t alone: the failures of the others stay as they are.
LEMMA OthersFail ==
  ASSUME ExecInv, ExecTypeOK', NEW t \in Worker, cnt'[t].abort <= Allowed(t)',
         \A u \in Worker \ {t} : place'[u] = place[u] /\ idx'[u] = idx[u] /\ cnt'[u] = cnt[u]
  PROVE  Failures'
BY DEF ExecInv, Failures, Allowed

\* A thread up to the head of its loop.
LEMMA ExecBeginInv == ASSUME ExecInv, NEW t \in Worker, Ready(t) \/ Wait(t) \/ Take(t) PROVE ExecInv'
<1> USE DEF ExecInv, Ready, Wait, Take, Go, mainVars
<1>1. ExecTypeOK'
  <2>1. cnt' \in [Worker -> [done : Nat, abort : Nat, abortMe : BOOLEAN]]
    <3>1. cnt' = cnt \/ cnt' = [cnt EXCEPT ![t] = [cnt[t] EXCEPT !.abortMe = FALSE]]
      OBVIOUS
    <3>2. [cnt[t] EXCEPT !.abortMe = FALSE] \in [done : Nat, abort : Nat, abortMe : BOOLEAN]
      BY ExecOneThread
    <3> QED BY <3>1, <3>2 DEF ExecTypeOK
  <2>2. place' \in [Worker -> Place] /\ ready' \in [Worker -> BOOLEAN]
    BY DEF ExecTypeOK, Place
  <2> QED BY <2>1, <2>2 DEF ExecTypeOK, Place
<1>2. Started'
  <2>1. \A u \in Worker : ready[u] => ready'[u]
    BY DEF ExecTypeOK
  <2>2. \A u \in Worker : place'[u] \notin {"prepare", "wait"} => begin
    BY DEF ExecTypeOK, Started
  <2> QED BY <2>1, <2>2 DEF ExecTypeOK, Started
<1>3. Ended'
  BY DEF ExecTypeOK, Ended
<1>4. Failures'
  <2>1. /\ cnt'[t].abort = cnt[t].abort /\ idx'[t] = idx[t]
        /\ place[t] \in {"prepare", "wait", "next"} /\ place'[t] \in {"wait", "next", "execute", "stamp"}
        /\ \A u \in Worker \ {t} : place'[u] = place[u] /\ idx'[u] = idx[u] /\ cnt'[u] = cnt[u]
    BY DEF ExecTypeOK
  <2>2. cnt'[t].abort <= Allowed(t)'
    <3>1. cnt[t].abort \in Nat /\ idx[t] \in Nat /\ cnt[t].abort <= Allowed(t)
      BY ExecOneThread DEF Failures
    <3> QED BY <3>1, <2>1, LimitIs DEF Allowed
  <2> QED BY <1>1, <2>1, <2>2, OthersFail
<1> QED BY <1>1, <1>2, <1>3, <1>4

\* One Execute: a failure that does not end the transaction leaves the count at the
\* limit at most, except for the first failure of a transaction.
LEMMA ExecuteInv == ASSUME ExecInv, NEW t \in Worker, Execute(t) \/ Retry(t) PROVE ExecInv'
<1> USE DEF ExecInv, Execute, Retry, Succeed, Go, mainVars
<1>1. ExecTypeOK'
  <2>1. cnt' \in [Worker -> [done : Nat, abort : Nat, abortMe : BOOLEAN]]
    <3>1. (cnt[t].abort + 1 > FailLimit) \in BOOLEAN /\ cnt[t].abort + 1 \in Nat
      BY ExecOneThread, LimitIs
    <3>2. [cnt[t] EXCEPT !.abort = cnt[t].abort + 1] \in [done : Nat, abort : Nat, abortMe : BOOLEAN]
      BY <3>1, ExecOneThread
    <3>3. [cnt[t] EXCEPT !.abort = cnt[t].abort + 1, !.abortMe = (cnt[t].abort + 1 > FailLimit)]
            \in [done : Nat, abort : Nat, abortMe : BOOLEAN]
      BY <3>1, ExecOneThread
    <3>4. \/ cnt' = cnt
          \/ cnt' = [cnt EXCEPT ![t] = [cnt[t] EXCEPT !.abort = cnt[t].abort + 1]]
          \/ cnt' = [cnt EXCEPT ![t] = [cnt[t] EXCEPT !.abort = cnt[t].abort + 1,
                                                      !.abortMe = (cnt[t].abort + 1 > FailLimit)]]
      BY DEF GiveUp, ExecTypeOK
    <3>5. ASSUME NEW r \in [done : Nat, abort : Nat, abortMe : BOOLEAN]
          PROVE  [cnt EXCEPT ![t] = r] \in [Worker -> [done : Nat, abort : Nat, abortMe : BOOLEAN]]
      BY DEF ExecTypeOK
    <3>6. cnt \in [Worker -> [done : Nat, abort : Nat, abortMe : BOOLEAN]]
      BY DEF ExecTypeOK
    <3> QED BY ONLY <3>2, <3>3, <3>4, <3>5, <3>6
  <2>2. tally' \in [Worker -> [done : Nat, abort : Nat]]
    BY ExecOneThread DEF ExecTypeOK
  <2>3. place' \in [Worker -> Place]
    <3>1. \E l \in {"count", "failed"} : place' = [place EXCEPT ![t] = l]
      OBVIOUS
    <3>2. {"count", "failed"} \subseteq Place
      BY DEF Place
    <3> QED BY <3>1, <3>2, Goes DEF Go
  <2> QED BY <2>1, <2>2, <2>3 DEF ExecTypeOK, Place
<1>2. Started'
  BY DEF ExecTypeOK, Started
<1>3. Ended'
  BY DEF ExecTypeOK, Ended, GiveUp
<1>4. Failures'
  <2>0. \A u \in Worker \ {t} : place'[u] = place[u] /\ idx'[u] = idx[u] /\ cnt'[u] = cnt[u]
    BY DEF ExecTypeOK
  <2>1. idx'[t] = idx[t] /\ place'[t] \in {"count", "failed"}
    BY DEF ExecTypeOK
  <2>2. \/ place'[t] = "count" /\ cnt'[t] = cnt[t] /\ place[t] \in {"execute", "retry"}
        \/ place'[t] = "failed" /\ place[t] = "execute" /\ cnt'[t].abort = cnt[t].abort + 1
        \/ place'[t] = "count" /\ place[t] = "retry" /\ cnt'[t].abort = cnt[t].abort + 1
        \/ /\ place'[t] = "failed" /\ place[t] = "retry" /\ cnt'[t].abort = cnt[t].abort + 1
           /\ ~(cnt[t].abort + 1 > FailLimit)
    BY ExecOneThread DEF ExecTypeOK, GiveUp
  <2>3. cnt'[t].abort <= Allowed(t)'
    <3>1. cnt[t].abort \in Nat /\ idx[t] \in Nat /\ cnt[t].abort <= Allowed(t)
      BY ExecOneThread DEF Failures
    <3> QED BY <3>1, <2>1, <2>2, LimitIs DEF Allowed
  <2> QED BY <1>1, <2>0, <2>3, OthersFail
<1> QED BY <1>1, <1>2, <1>3, <1>4

\* The two places where a thread looks at is_finish_, and the counting between.
LEMMA LookInv == ASSUME ExecInv, NEW t \in Worker, Failed(t) \/ Count(t) \/ Done(t) PROVE ExecInv'
<1> USE DEF ExecInv, Failed, Count, Done, Leave, Go, mainVars
<1>1. ExecTypeOK'
  <2>1. cnt' \in [Worker -> [done : Nat, abort : Nat, abortMe : BOOLEAN]]
    <3>1. [cnt[t] EXCEPT !.done = cnt[t].done + 1] \in [done : Nat, abort : Nat, abortMe : BOOLEAN]
      BY ExecOneThread
    <3>2. cnt \in [Worker -> [done : Nat, abort : Nat, abortMe : BOOLEAN]]
      BY DEF ExecTypeOK
    <3>3. cnt' = cnt \/ cnt' = [cnt EXCEPT ![t] = [cnt[t] EXCEPT !.done = cnt[t].done + 1]]
      BY <3>2
    <3> QED BY ONLY <3>1, <3>2, <3>3
  <2>2. place' \in [Worker -> Place] /\ idx' \in [Worker -> Nat] /\ total' \in [done : Nat, abort : Nat]
    <3>0. /\ {"retry", "done", "next"} \subseteq Place
          /\ idx \in [Worker -> Nat] /\ total \in [done : Nat, abort : Nat]
      BY DEF ExecTypeOK, Place
    <3>1. CASE (Failed(t) \/ Done(t)) /\ finish
      <4>1. Leave(t) /\ UNCHANGED idx
        BY <3>1
      <4> QED BY <3>0, <4>1, Leaves
    <3>2. CASE Failed(t) /\ ~finish
      <4>1. UNCHANGED <<total, idx>> /\ place' = [place EXCEPT ![t] = "retry"]
        BY <3>2
      <4> QED BY <3>0, <4>1, Goes DEF Go
    <3>3. CASE Count(t)
      <4>1. UNCHANGED <<total, idx>> /\ place' = [place EXCEPT ![t] = "done"]
        BY <3>3
      <4> QED BY <3>0, <4>1, Goes DEF Go
    <3>4. CASE Done(t) /\ ~finish
      <4>1. UNCHANGED total /\ idx' = [idx EXCEPT ![t] = idx[t] + 1] /\ place' = [place EXCEPT ![t] = "next"]
        BY <3>4
      <4>2. idx' \in [Worker -> Nat]
        BY <3>0, <4>1
      <4> QED BY <3>0, <4>1, <4>2, Goes DEF Go
    <3> QED BY <3>1, <3>2, <3>3, <3>4
  <2> QED BY <2>1, <2>2 DEF ExecTypeOK, Place
<1>2. Started'
  BY DEF ExecTypeOK, Started
<1>3. Ended'
  BY DEF ExecTypeOK, Ended
<1>4. Failures'
  <2>0. \A u \in Worker \ {t} : place'[u] = place[u] /\ idx'[u] = idx[u] /\ cnt'[u] = cnt[u]
    BY DEF ExecTypeOK
  <2>1. /\ cnt'[t].abort = cnt[t].abort
        /\ \/ place[t] = "failed" /\ place'[t] \in {"exit", "retry"} /\ idx'[t] = idx[t]
           \/ place[t] = "count" /\ place'[t] = "done" /\ idx'[t] = idx[t]
           \/ place[t] = "done" /\ place'[t] = "exit" /\ idx'[t] = idx[t]
           \/ place[t] = "done" /\ place'[t] = "next" /\ idx'[t] = idx[t] + 1
    BY ExecOneThread DEF ExecTypeOK
  <2>2. cnt'[t].abort <= Allowed(t)'
    <3>1. cnt[t].abort \in Nat /\ idx[t] \in Nat /\ cnt[t].abort <= Allowed(t)
      BY ExecOneThread DEF Failures
    <3> QED BY <3>1, <2>1, LimitIs DEF Allowed
  <2> QED BY <1>1, <2>0, <2>2, OthersFail
<1> QED BY <1>1, <1>2, <1>3, <1>4

\* The end of a thread's batches.
LEMMA ExecEndInv == ASSUME ExecInv, NEW t \in Worker, Stamp(t) \/ Finish(t) PROVE ExecInv'
<1> USE DEF ExecInv, Stamp, Finish, Leave, Go, mainVars
<1>1. ExecTypeOK'
  <2>1. place' \in [Worker -> Place] /\ total' \in [done : Nat, abort : Nat]
    <3>1. CASE Stamp(t)
      <4>1. "finish" \in Place /\ total \in [done : Nat, abort : Nat] /\ total' = total
        BY <3>1 DEF ExecTypeOK, Place
      <4> QED BY <3>1, <4>1, Goes
    <3>2. CASE Finish(t)
      BY <3>2, Leaves
    <3> QED BY <3>1, <3>2
  <2> QED BY <2>1 DEF ExecTypeOK, Place
<1>2. Started'
  BY DEF ExecTypeOK, Started
<1>3. Ended'
  BY DEF ExecTypeOK, Ended
<1>4. Failures'
  <2>1. /\ cnt' = cnt /\ idx' = idx /\ place[t] \in {"stamp", "finish"} /\ place'[t] \in {"finish", "exit"}
        /\ \A u \in Worker \ {t} : place'[u] = place[u] /\ idx'[u] = idx[u] /\ cnt'[u] = cnt[u]
    BY DEF ExecTypeOK
  <2>2. cnt'[t].abort <= Allowed(t)'
    <3>1. cnt[t].abort \in Nat /\ idx[t] \in Nat /\ cnt[t].abort <= Allowed(t)
      BY ExecOneThread DEF Failures
    <3> QED BY <3>1, <2>1, LimitIs DEF Allowed
  <2> QED BY <1>1, <2>1, <2>2, OthersFail
<1> QED BY <1>1, <1>2, <1>3, <1>4

LEMMA ExecStepInv == ExecInv /\ [ExecNext]_execVars => ExecInv'
<1> SUFFICES ASSUME ExecInv, [ExecNext]_execVars PROVE ExecInv'
  OBVIOUS
<1>1. CASE Main
  BY <1>1, MainInv
<1>2. ASSUME NEW t \in Worker, WorkerStep(t) PROVE ExecInv'
  BY <1>2, ExecBeginInv, ExecuteInv, LookInv, ExecEndInv DEF WorkerStep
<1>3. CASE UNCHANGED execVars
  BY <1>3 DEF execVars, ExecInv, ExecTypeOK, Started, Ended, Failures, Allowed
<1> QED BY <1>1, <1>2, <1>3 DEF ExecNext

\* The invariant holds in every behaviour.
THEOREM ExecInvariant == ExecSpec => []ExecInv
BY ExecInitInv, ExecStepInv, PTL DEF ExecSpec

\* Type correctness: flags, counters and the index of the scan stay in their ranges.
THEOREM ExecTypeCorrect == ExecSpec => []ExecTypeOK
<1>1. ExecInv => ExecTypeOK
  BY DEF ExecInv
<1> QED BY <1>1, ExecInvariant, PTL

\* Whatever the order in which the main thread looks at the flags and the threads
\* set them, and whatever fails: no thread begins before all are ready, the report
\* never uses an end time that was not taken, and the failures of a thread are
\* bounded by the limit and its transactions, so that every repetition ends.
THEOREM ExecMeasured == ExecSpec => []Measured
<1>1. ExecInv => NoEarlyStart
  BY DEF ExecInv, Started, NoEarlyStart
<1>2. ExecInv => EndStamped
  BY ExecutorAssumption DEF ExecInv, Ended, EndStamped
<1>3. ExecInv => FailureBound
  <2>1. ASSUME ExecInv, NEW t \in Worker PROVE cnt[t].abort <= FailLimit + 1 + 2 * idx[t]
    <3>1. cnt[t].abort \in Nat /\ idx[t] \in Nat /\ cnt[t].abort <= Allowed(t)
      BY <2>1, ExecOneThread DEF ExecInv, Failures
    <3> QED BY <3>1, LimitIs DEF Allowed
  <2> QED BY <2>1 DEF FailureBound
<1>4. ExecInv => Measured
  BY <1>1, <1>2, <1>3 DEF Measured
<1> QED BY <1>4, ExecInvariant, PTL

------------------------------------------------------------------------------
(* The totals *)

\* What the threads that have left have added to the totals.
LeftDone == [t \in Worker |-> IF place[t] = "exit" THEN cnt[t].done ELSE 0]
LeftAbort == [t \in Worker |-> IF place[t] = "exit" THEN cnt[t].abort ELSE 0]

Summed ==
  \A f : /\ IsSum(f, LeftDone, Worker) => total.done = f[Worker]
         /\ IsSum(f, LeftAbort, Worker) => total.abort = f[Worker]

\* A thread counts what it executes, a success one step later; one that was given up
\* is not counted.
Counted(t) ==
  /\ tally[t].abort = cnt[t].abort
  /\ tally[t].done = IF place[t] = "count" /\ ~cnt[t].abortMe THEN cnt[t].done + 1 ELSE cnt[t].done
  /\ place[t] \in {"execute", "failed", "retry"} => ~cnt[t].abortMe

TotalsInv == ExecInv /\ Summed /\ \A t \in Worker : Counted(t)

\* The sum of the tallies is that of any function which agrees with them.
LEMMA DoneSum ==
  ASSUME NEW g, \A t \in Worker : g[t] = tally[t].done
  PROVE  \E f : IsSum(f, g, Worker) /\ MapThenSumSet(LAMBDA t : tally[t].done, Worker) = f[Worker]
<1> DEFINE Body(f) == [s \in SUBSET Worker |->
                         IF s = {} THEN 0 ELSE LET x == CHOOSE x \in s : TRUE IN tally[x].done + f[s \ {x}]]
           F == CHOOSE f : f = Body(f)
<1>1. MapThenSumSet(LAMBDA t : tally[t].done, Worker) = F[Worker]
  BY DEF MapThenSumSet, MapThenFoldSet
<1>2. ASSUME NEW f PROVE f = Body(f) <=> IsSum(f, g, Worker)
  <2>1. ASSUME NEW s \in SUBSET Worker, s # {} PROVE Pick(s) \in Worker
    BY <2>1, PickIn
  <2>2. \A s \in SUBSET Worker :
          Body(f)[s] = IF s = {} THEN 0 ELSE g[Pick(s)] + f[s \ {Pick(s)}]
    BY <2>1 DEF Pick
  <2>3. Body(f) = [s \in SUBSET Worker |-> Body(f)[s]]
    OBVIOUS
  <2> HIDE DEF Body
  <2> QED BY <2>2, <2>3 DEF IsSum
<1>3. \E f : f = Body(f)
  <2>1. IsFiniteSet(Worker)
    BY ExecutorAssumption
  <2> HIDE DEF Body
  <2> QED BY <1>2, <2>1, SumExists
<1>4. F = Body(F)
  <2> HIDE DEF Body
  <2> QED BY <1>3
<1> HIDE DEF F, Body
<1> QED BY <1>1, <1>2, <1>4

LEMMA AbortSum ==
  ASSUME NEW g, \A t \in Worker : g[t] = tally[t].abort
  PROVE  \E f : IsSum(f, g, Worker) /\ MapThenSumSet(LAMBDA t : tally[t].abort, Worker) = f[Worker]
<1> DEFINE Body(f) == [s \in SUBSET Worker |->
                         IF s = {} THEN 0 ELSE LET x == CHOOSE x \in s : TRUE IN tally[x].abort + f[s \ {x}]]
           F == CHOOSE f : f = Body(f)
<1>1. MapThenSumSet(LAMBDA t : tally[t].abort, Worker) = F[Worker]
  BY DEF MapThenSumSet, MapThenFoldSet
<1>2. ASSUME NEW f PROVE f = Body(f) <=> IsSum(f, g, Worker)
  <2>1. ASSUME NEW s \in SUBSET Worker, s # {} PROVE Pick(s) \in Worker
    BY <2>1, PickIn
  <2>2. \A s \in SUBSET Worker :
          Body(f)[s] = IF s = {} THEN 0 ELSE g[Pick(s)] + f[s \ {Pick(s)}]
    BY <2>1 DEF Pick
  <2>3. Body(f) = [s \in SUBSET Worker |-> Body(f)[s]]
    OBVIOUS
  <2> HIDE DEF Body
  <2> QED BY <2>2, <2>3 DEF IsSum
<1>3. \E f : f = Body(f)
  <2>1. IsFiniteSet(Worker)
    BY ExecutorAssumption
  <2> HIDE DEF Body
  <2> QED BY <1>2, <2>1, SumExists
<1>4. F = Body(F)
  <2> HIDE DEF Body
  <2> QED BY <1>3
<1> HIDE DEF F, Body
<1> QED BY <1>1, <1>2, <1>4

LEMMA LeftType ==
  ASSUME ExecTypeOK
  PROVE  LeftDone \in [Worker -> Nat] /\ LeftAbort \in [Worker -> Nat]
BY ExecOneThread DEF LeftDone, LeftAbort

LEMMA TotalsInit == ExecInit => TotalsInv
<1> SUFFICES ASSUME ExecInit PROVE TotalsInv
  OBVIOUS
<1>1. IsFiniteSet(Worker)
  BY ExecutorAssumption
<1>2. \A t \in Worker : LeftDone[t] = 0 /\ LeftAbort[t] = 0
  BY DEF ExecInit, LeftDone, LeftAbort
<1>3. total.done = 0 /\ total.abort = 0
  BY DEF ExecInit
<1>4. Summed
  BY <1>1, <1>2, <1>3, SumOfNone DEF Summed
<1>5. \A t \in Worker : Counted(t)
  BY DEF ExecInit, Counted
<1> QED BY <1>4, <1>5, ExecInitInv DEF TotalsInv

\* Nobody leaves.
LEMMA NobodyLeaves ==
  ASSUME Summed, total' = total,
         \A t \in Worker : /\ (place'[t] = "exit") <=> (place[t] = "exit")
                           /\ place[t] = "exit" => cnt'[t] = cnt[t]
  PROVE  Summed'
<1>1. LeftDone' = LeftDone /\ LeftAbort' = LeftAbort
  BY DEF LeftDone, LeftAbort
<1> QED BY <1>1 DEF Summed

\* A thread leaves.
LEMMA OneLeaves ==
  ASSUME Summed, ExecTypeOK, ExecTypeOK', NEW t \in Worker, place[t] # "exit", Leave(t), cnt' = cnt
  PROVE  Summed'
<1>1. IsFiniteSet(Worker) /\ LeftDone \in [Worker -> Nat] /\ LeftAbort \in [Worker -> Nat]
      /\ LeftDone' \in [Worker -> Nat] /\ LeftAbort' \in [Worker -> Nat]
  <2>1. \A u \in Worker : cnt'[u].done \in Nat /\ cnt'[u].abort \in Nat
    BY ExecOneThread
  <2> QED BY <2>1, ExecutorAssumption, LeftType DEF LeftDone, LeftAbort
<1>2. place'[t] = "exit" /\ \A u \in Worker \ {t} : place'[u] = place[u]
  BY DEF Leave, Go, ExecTypeOK
<1>3. /\ LeftDone[t] = 0 /\ LeftDone'[t] = cnt[t].done /\ \A u \in Worker \ {t} : LeftDone[u] = LeftDone'[u]
      /\ LeftAbort[t] = 0 /\ LeftAbort'[t] = cnt[t].abort /\ \A u \in Worker \ {t} : LeftAbort[u] = LeftAbort'[u]
  BY <1>2 DEF LeftDone, LeftAbort
<1>4. total'.done = total.done + cnt[t].done /\ total'.abort = total.abort + cnt[t].abort
  BY DEF Leave
<1>5. total.done \in Nat /\ total.abort \in Nat /\ cnt[t].done \in Nat /\ cnt[t].abort \in Nat
  BY ExecOneThread
<1>6. ASSUME NEW f, IsSum(f, LeftDone', Worker) PROVE total'.done = f[Worker]
  <2>1. PICK e : IsSum(e, LeftDone, Worker)
    BY <1>1, SumExists
  <2>2. f[Worker] + LeftDone[t] = e[Worker] + LeftDone'[t]
    BY <1>1, <1>3, <1>6, <2>1, SumChanges
  <2>3. e[Worker] = total.done
    BY <2>1 DEF Summed
  <2>4. f[Worker] \in Nat
    BY <1>1, <1>6, SumType
  <2>5. f[Worker] + 0 = total.done + cnt[t].done
    BY <1>3, <2>2, <2>3
  <2> QED BY <1>4, <1>5, <2>4, <2>5
<1>7. ASSUME NEW f, IsSum(f, LeftAbort', Worker) PROVE total'.abort = f[Worker]
  <2>1. PICK e : IsSum(e, LeftAbort, Worker)
    BY <1>1, SumExists
  <2>2. f[Worker] + LeftAbort[t] = e[Worker] + LeftAbort'[t]
    BY <1>1, <1>3, <1>7, <2>1, SumChanges
  <2>3. e[Worker] = total.abort
    BY <2>1 DEF Summed
  <2>4. f[Worker] \in Nat
    BY <1>1, <1>7, SumType
  <2>5. f[Worker] + 0 = total.abort + cnt[t].abort
    BY <1>3, <2>2, <2>3
  <2> QED BY <1>4, <1>5, <2>4, <2>5
<1> QED BY <1>6, <1>7 DEF Summed

LEMMA TotalsMain == ASSUME TotalsInv, Main, ExecInv' PROVE TotalsInv'
<1>1. place' = place /\ cnt' = cnt /\ total' = total /\ tally' = tally
  BY DEF Main, Scan, Decide, Join, thrVars
<1>2. Summed'
  BY <1>1, NobodyLeaves DEF TotalsInv
<1>3. \A t \in Worker : Counted(t)'
  BY <1>1 DEF TotalsInv, Counted
<1> QED BY <1>2, <1>3 DEF TotalsInv

\* The others' counts stay.
LEMMA OthersCounts ==
  ASSUME \A u \in Worker : Counted(u), NEW t \in Worker, Counted(t)',
         \A u \in Worker \ {t} : place'[u] = place[u] /\ cnt'[u] = cnt[u] /\ tally'[u] = tally[u]
  PROVE  \A u \in Worker : Counted(u)'
BY DEF Counted

\* A thread that stays.
LEMMA Stays ==
  ASSUME TotalsInv, ExecInv', NEW t \in Worker, total' = total, place[t] # "exit", NEW l \in Place \ {"exit"}, Go(t, l),
         Counted(t)', \A u \in Worker \ {t} : cnt'[u] = cnt[u] /\ tally'[u] = tally[u]
  PROVE  TotalsInv'
<1>1. place'[t] = l /\ \A u \in Worker \ {t} : place'[u] = place[u]
  BY DEF Go, TotalsInv, ExecInv, ExecTypeOK
<1>2. Summed'
  <2>1. \A u \in Worker : /\ (place'[u] = "exit") <=> (place[u] = "exit")
                          /\ place[u] = "exit" => cnt'[u] = cnt[u]
    BY <1>1
  <2> QED BY <2>1, NobodyLeaves DEF TotalsInv
<1>3. \A u \in Worker : Counted(u)'
  BY <1>1, OthersCounts DEF TotalsInv
<1> QED BY <1>2, <1>3 DEF TotalsInv

\* A thread that goes.
LEMMA GoesAway ==
  ASSUME TotalsInv, ExecInv', NEW t \in Worker, place[t] \in {"failed", "done", "finish"}, Leave(t), cnt' = cnt, tally' = tally
  PROVE  TotalsInv'
<1>0. place \in [Worker -> Place] /\ place[t] # "exit" /\ ExecTypeOK /\ ExecTypeOK' /\ Summed
  BY DEF TotalsInv, ExecInv, ExecTypeOK, Place
<1>1. place'[t] = "exit" /\ \A u \in Worker \ {t} : place'[u] = place[u]
  BY <1>0 DEF Go, Leave
<1>2. Summed'
  BY <1>0, OneLeaves
<1>3. Counted(t)
  BY DEF TotalsInv
<1>4. Counted(t)'
  BY <1>1, <1>3 DEF Counted
<1>5. \A u \in Worker : Counted(u)'
  BY <1>1, <1>4, OthersCounts DEF TotalsInv
<1> QED BY <1>2, <1>5 DEF TotalsInv

LEMMA TotalsStep == ASSUME TotalsInv, ExecInv', NEW t \in Worker, WorkerStep(t) PROVE TotalsInv'
<1>0. Counted(t) /\ ExecTypeOK /\ place \in [Worker -> Place]
  BY DEF TotalsInv, ExecInv, ExecTypeOK, Place
<1>1. /\ cnt \in [Worker -> [done : Nat, abort : Nat, abortMe : BOOLEAN]]
      /\ tally \in [Worker -> [done : Nat, abort : Nat]]
      /\ cnt[t].done \in Nat /\ cnt[t].abort \in Nat /\ tally[t].done \in Nat /\ tally[t].abort \in Nat
  BY <1>0, ExecOneThread DEF ExecTypeOK
<1>2. CASE Ready(t) \/ Wait(t) \/ Stamp(t)
  <2>1. PICK l \in {"wait", "next", "finish"} : Go(t, l)
    BY <1>2 DEF Ready, Wait, Stamp
  <2>2. place[t] \in {"prepare", "wait", "stamp"} /\ total' = total /\ cnt' = cnt /\ tally' = tally
    BY <1>2 DEF Ready, Wait, Stamp
  <2>3. place'[t] = l
    BY <1>0, <2>1 DEF Go
  <2>4. Counted(t)'
    BY <1>0, <2>2, <2>3 DEF Counted
  <2> QED BY <2>1, <2>2, <2>4, Stays DEF Place
<1>3. CASE Take(t)
  <2>1. PICK l \in {"execute", "stamp"} : Go(t, l) /\ cnt' = IF l = "execute" THEN [cnt EXCEPT ![t].abortMe = FALSE] ELSE cnt
    BY <1>3 DEF Take
  <2>2. place[t] = "next" /\ total' = total /\ tally' = tally
    BY <1>3 DEF Take
  <2>3. place'[t] = l
    BY <1>0, <2>1 DEF Go
  <2>4. /\ cnt'[t].done = cnt[t].done /\ cnt'[t].abort = cnt[t].abort
        /\ l = "execute" => ~cnt'[t].abortMe
        /\ \A u \in Worker \ {t} : cnt'[u] = cnt[u]
    BY <1>1, <2>1
  <2>5. Counted(t)'
    BY <1>0, <2>2, <2>3, <2>4 DEF Counted
  <2> QED BY <2>1, <2>2, <2>4, <2>5, Stays DEF Place
<1>4. CASE (Execute(t) \/ Retry(t)) /\ Succeed(t)
  <2>1. place[t] \in {"execute", "retry"} /\ total' = total /\ cnt' = cnt /\ Go(t, "count")
    BY <1>4 DEF Execute, Retry, Succeed
  <2>2. place'[t] = "count"
    BY <1>0, <2>1 DEF Go
  <2>3. tally'[t].done = tally[t].done + 1 /\ tally'[t].abort = tally[t].abort /\ \A u \in Worker \ {t} : tally'[u] = tally[u]
    BY <1>1, <1>4 DEF Succeed
  <2>4. Counted(t)'
    BY <1>0, <1>1, <2>1, <2>2, <2>3 DEF Counted
  <2> QED BY <2>1, <2>3, <2>4, Stays DEF Place
<1>5. CASE (Execute(t) \/ Retry(t)) /\ ~Succeed(t)
  <2>1. PICK l \in {"failed", "count"}, b \in BOOLEAN :
          /\ Go(t, l) /\ cnt' = [cnt EXCEPT ![t] = [done |-> cnt[t].done, abort |-> cnt[t].abort + 1, abortMe |-> b]]
          /\ b <=> l = "count"
    <3>1. CASE Execute(t)
      <4>1. ~cnt[t].abortMe /\ cnt[t].abortMe \in BOOLEAN
        BY <1>0, <3>1, ExecOneThread DEF Counted, Execute
      <4>2. cnt' = [cnt EXCEPT ![t] = [done |-> cnt[t].done, abort |-> cnt[t].abort + 1, abortMe |-> FALSE]] /\ Go(t, "failed")
        BY <1>1, <1>5, <3>1, <4>1 DEF Execute
      <4> QED BY <4>2
    <3>2. CASE Retry(t)
      <4>1. GiveUp(cnt[t].abort + 1) \in BOOLEAN
        BY DEF GiveUp
      <4>2. cnt' = [cnt EXCEPT ![t] = [done |-> cnt[t].done, abort |-> cnt[t].abort + 1, abortMe |-> GiveUp(cnt[t].abort + 1)]]
        BY <1>1, <1>5, <3>2 DEF Retry
      <4>3. Go(t, IF GiveUp(cnt[t].abort + 1) THEN "count" ELSE "failed")
        BY <1>5, <3>2 DEF Retry
      <4> QED BY <4>1, <4>2, <4>3
    <3> QED BY <1>5, <3>1, <3>2
  <2>2. place[t] \in {"execute", "retry"} /\ total' = total /\ tally' = [tally EXCEPT ![t].abort = @ + 1]
    BY <1>5 DEF Execute, Retry
  <2>3. place'[t] = l
    BY <1>0, <2>1 DEF Go
  <2>4. /\ tally'[t].done = tally[t].done /\ tally'[t].abort = tally[t].abort + 1
        /\ \A u \in Worker \ {t} : tally'[u] = tally[u]
    BY <1>1, <2>2
  <2>5. /\ cnt'[t].done = cnt[t].done /\ cnt'[t].abort = cnt[t].abort + 1 /\ cnt'[t].abortMe = b
        /\ \A u \in Worker \ {t} : cnt'[u] = cnt[u]
    BY <1>1, <2>1
  <2>6. Counted(t)'
    BY <1>0, <2>1, <2>2, <2>3, <2>4, <2>5 DEF Counted
  <2> QED BY <2>1, <2>2, <2>4, <2>5, <2>6, Stays DEF Place
<1>6. CASE Failed(t) /\ ~finish
  <2>1. place[t] = "failed" /\ total' = total /\ cnt' = cnt /\ tally' = tally /\ Go(t, "retry")
    BY <1>6 DEF Failed
  <2>2. place'[t] = "retry"
    BY <1>0, <2>1 DEF Go
  <2>3. Counted(t)'
    BY <1>0, <2>1, <2>2 DEF Counted
  <2> QED BY <2>1, <2>3, Stays DEF Place
<1>7. CASE Count(t)
  <2>1. place[t] = "count" /\ total' = total /\ tally' = tally /\ Go(t, "done")
        /\ cnt' = IF cnt[t].abortMe THEN cnt ELSE [cnt EXCEPT ![t].done = @ + 1]
    BY <1>7 DEF Count
  <2>2. place'[t] = "done"
    BY <1>0, <2>1 DEF Go
  <2>3. /\ cnt'[t].done = IF cnt[t].abortMe THEN cnt[t].done ELSE cnt[t].done + 1
        /\ cnt'[t].abort = cnt[t].abort /\ \A u \in Worker \ {t} : cnt'[u] = cnt[u]
    BY <1>1, <2>1
  <2>4. Counted(t)'
    BY <1>0, <2>1, <2>2, <2>3 DEF Counted
  <2> QED BY <2>1, <2>3, <2>4, Stays DEF Place
<1>8. CASE Done(t) /\ ~finish
  <2>1. place[t] = "done" /\ total' = total /\ cnt' = cnt /\ tally' = tally /\ Go(t, "next")
    BY <1>8 DEF Done
  <2>2. place'[t] = "next"
    BY <1>0, <2>1 DEF Go
  <2>3. Counted(t)'
    BY <1>0, <2>1, <2>2 DEF Counted
  <2> QED BY <2>1, <2>3, Stays DEF Place
<1>9. CASE Finish(t) \/ ((Failed(t) \/ Done(t)) /\ finish)
  <2>1. place[t] \in {"failed", "done", "finish"} /\ Leave(t) /\ cnt' = cnt /\ tally' = tally
    BY <1>9 DEF Finish, Failed, Done
  <2> QED BY <2>1, GoesAway
<1> QED BY <1>2, <1>3, <1>4, <1>5, <1>6, <1>7, <1>8, <1>9 DEF WorkerStep

\* TransactionExecutor.h reports what its threads did: every commit and every failure,
\* for any number of threads, also of those that were told to finish half way.
THEOREM ExecTotals == ExecSpec => []TotalsExact
<1>1. TotalsInv /\ [ExecNext]_execVars => TotalsInv'
  <2> SUFFICES ASSUME TotalsInv, [ExecNext]_execVars PROVE TotalsInv'
    OBVIOUS
  <2>1. ExecInv'
    BY ExecStepInv DEF TotalsInv
  <2>2. CASE UNCHANGED execVars
    <3>1. place' = place /\ cnt' = cnt /\ total' = total /\ tally' = tally
      BY <2>2 DEF execVars
    <3>2. Summed'
      BY <3>1, NobodyLeaves DEF TotalsInv
    <3>3. \A t \in Worker : Counted(t)'
      BY <3>1 DEF TotalsInv, Counted
    <3> QED BY <2>1, <3>2, <3>3 DEF TotalsInv
  <2>3. CASE Main
    BY <2>1, <2>3, TotalsMain
  <2>4. ASSUME NEW t \in Worker, WorkerStep(t) PROVE TotalsInv'
    BY <2>1, <2>4, TotalsStep
  <2> QED BY <2>2, <2>3, <2>4 DEF ExecNext
<1>2. TotalsInv => TotalsExact
  <2> SUFFICES ASSUME TotalsInv, main = "report" 
               PROVE  /\ total.done = MapThenSumSet(LAMBDA t : tally[t].done, Worker)
                      /\ total.abort = MapThenSumSet(LAMBDA t : tally[t].abort, Worker)
    BY DEF TotalsExact
  <2>1. \A t \in Worker : place[t] = "exit"
    BY DEF TotalsInv, ExecInv, Ended
  <2>2. \A t \in Worker : LeftDone[t] = tally[t].done /\ LeftAbort[t] = tally[t].abort
    BY <2>1 DEF LeftDone, LeftAbort, TotalsInv, Counted
  <2>3. PICK f : IsSum(f, LeftDone, Worker) /\ MapThenSumSet(LAMBDA t : tally[t].done, Worker) = f[Worker]
    BY <2>2, DoneSum
  <2>4. PICK g : IsSum(g, LeftAbort, Worker) /\ MapThenSumSet(LAMBDA t : tally[t].abort, Worker) = g[Worker]
    BY <2>2, AbortSum
  <2> QED BY <2>3, <2>4 DEF TotalsInv, Summed
<1> QED BY <1>1, <1>2, TotalsInit, PTL DEF ExecSpec

------------------------------------------------------------------------------
(* ClusterSync is a barrier.  The argument is about keys.  Operation k uses   *)
(* the keys of one or two rounds of PartitionNum keys each; the rounds before *)
(* its end are counted by Base(k), whatever the node.  Hence two nodes in the *)
(* same round are in the same operation, and a key tells round and partition. *)

\* The rounds of keys up to the end of operation k.
Fences(k) == {i \in 1 .. k : Plan[i] = "fence"}
Base(k) == k + Cardinality(Fences(k))

\* The rounds of the current operation that are still to come.
Ahead(s) == IF s = "idle" THEN 0 ELSE IF s = "broadcast" THEN 1 ELSE 2

\* The key of partition i in round n.
Key(n, i) == n * PartitionNum + i

\* sync_key_ follows from where a node is in the plan.
KeysInStep ==
  \A p \in Part :
    /\ phase[p] # "idle" => op[p] \in 1 .. Len(Plan)
    /\ phase[p] = "collect" => Plan[op[p]] = "fence"
    /\ key[p] = Key(Base(op[p]) - Ahead(phase[p]), 0)

\* A pair put by the master's broadcast of operation k.
IsBroadcast(x, k) ==
  /\ x.key = Key(Base(k) - 1, 0)
  /\ \A q \in B!Awaited(k) : op[q] >= k

\* A pair put by q for the master's collection in fence k.
IsFlag(x, k, q) ==
  /\ Plan[k] = "fence" /\ q # Master
  /\ x.key = Key(Base(k) - 2, q)
  /\ op[q] >= k

\* Every pair in the store says that those awaited have come.
Honest(x) == IsBroadcast(x, x.of) \/ \E q \in Part : IsFlag(x, x.of, q)

StoreHonest == \A x \in store : Honest(x)

\* The master's loop: those it has passed have come.
Collecting ==
  /\ phase[Master] # "collect" => at = 0
  /\ phase[Master] = "collect" => \A q \in Part : q < at => op[q] >= op[Master]
  /\ phase[Master] = "broadcast" => \A q \in B!Awaited(op[Master]) : op[q] >= op[Master]

SyncInv == SyncTypeOK /\ KeysInStep /\ StoreHonest /\ Collecting

------------------------------------------------------------------------------
\* What the assumption says of the partitions.
LEMMA PartFacts == Master \in Part /\ Part \subseteq Nat /\ PartitionNum \in Nat \ {0} /\ Len(Plan) \in Nat
BY ClusterSyncAssumption DEF Part, Master

\* Base counts: each operation takes one round, a fence two.
LEMMA BaseStep ==
  ASSUME NEW k \in Nat
  PROVE  /\ Base(k) \in Nat /\ Base(k) >= k
         /\ Base(k + 1) = Base(k) + (IF Plan[k + 1] = "fence" THEN 2 ELSE 1)
<1>1. ASSUME NEW n \in Nat PROVE IsFiniteSet(Fences(n)) /\ Cardinality(Fences(n)) \in Nat
  <2>1. IsFiniteSet(1 .. n)
    BY FS_Interval
  <2>2. Fences(n) \subseteq 1 .. n
    BY DEF Fences
  <2> QED BY <2>1, <2>2, FS_Subset, FS_CardinalityType
<1>2. CASE Plan[k + 1] = "fence"
  <2>1. Fences(k + 1) = Fences(k) \cup {k + 1} /\ k + 1 \notin Fences(k)
    BY <1>2 DEF Fences
  <2>2. Cardinality(Fences(k + 1)) = Cardinality(Fences(k)) + 1
    BY <1>1, <2>1, FS_AddElement
  <2> QED BY <1>1, <1>2, <2>2 DEF Base
<1>3. CASE Plan[k + 1] # "fence"
  <2>1. Fences(k + 1) = Fences(k)
    BY <1>3 DEF Fences
  <2> QED BY <1>1, <1>3, <2>1 DEF Base
<1> QED BY <1>2, <1>3

\* Base grows with every operation.
LEMMA BaseGrows ==
  ASSUME NEW j \in Nat, NEW k \in Nat, j < k
  PROVE  Base(j) < Base(k)
<1>1. IsFiniteSet(1 .. k) /\ Fences(k) \subseteq 1 .. k /\ Fences(j) \subseteq Fences(k)
  BY FS_Interval DEF Fences
<1>2. IsFiniteSet(Fences(k)) /\ IsFiniteSet(Fences(j))
  BY <1>1, FS_Subset
<1>3. Cardinality(Fences(j)) <= Cardinality(Fences(k))
  BY <1>1, <1>2, FS_Subset
<1>4. Cardinality(Fences(j)) \in Nat /\ Cardinality(Fences(k)) \in Nat
  BY <1>2, FS_CardinalityType
<1> QED BY <1>3, <1>4 DEF Base

\* Equal rounds, equal operations.
LEMMA BaseTells ==
  ASSUME NEW j \in Nat, NEW k \in Nat, Base(j) = Base(k)
  PROVE  j = k
<1>1. Base(j) \in Nat /\ Base(k) \in Nat
  BY BaseStep
<1> QED BY <1>1, BaseGrows

\* A key tells its round and its partition.
LEMMA KeyTells ==
  ASSUME NEW m \in Int, NEW n \in Int, NEW i \in Part, NEW j \in Part, Key(m, i) = Key(n, j)
  PROVE  m = n /\ i = j
<1> DEFINE P == PartitionNum
<1>1. P \in Nat /\ i \in Nat /\ j \in Nat /\ i < P /\ j < P
  BY ClusterSyncAssumption DEF Part
<1>2. (m - n) * P = j - i
  BY <1>1 DEF Key
<1>3. ASSUME m - n >= 1 PROVE FALSE
  <2>1. (m - n) * P >= P
    BY <1>1, <1>3
  <2> QED BY <1>1, <1>2, <2>1
<1>4. ASSUME m - n <= -1 PROVE FALSE
  <2>1. (m - n) * P <= -P
    BY <1>1, <1>4
  <2> QED BY <1>1, <1>2, <2>1
<1>5. m = n
  BY <1>3, <1>4
<1> QED BY <1>1, <1>5 DEF Key

\* The next round begins PartitionNum keys later.
LEMMA KeyNext ==
  ASSUME NEW n \in Int, NEW i \in Part
  PROVE  Key(n, 0) + PartitionNum = Key(n + 1, 0) /\ Key(n, 0) + i = Key(n, i) /\ Key(n, 0) \in Int
BY PartFacts DEF Key

\* Every round is a number, and its key too.
LEMMA RoundFacts ==
  ASSUME SyncTypeOK, KeysInStep, NEW p \in Part
  PROVE  /\ op[p] \in 0 .. Len(Plan) /\ Base(op[p]) \in Nat /\ Ahead(phase[p]) \in {0, 1, 2}
         /\ Base(op[p]) >= Ahead(phase[p])
         /\ key[p] = Key(Base(op[p]) - Ahead(phase[p]), 0)
<1>1. op[p] \in 0 .. Len(Plan) /\ phase[p] \in {"idle", "collect", "broadcast"} /\ op[p] \in Nat
  BY PartFacts DEF SyncTypeOK
<1>2. Base(op[p]) \in Nat /\ Base(op[p]) >= op[p]
  BY <1>1, BaseStep
<1>3. CASE phase[p] = "idle"
  BY <1>1, <1>2, <1>3 DEF Ahead, KeysInStep
<1>4. CASE phase[p] = "broadcast"
  BY <1>1, <1>2, <1>4 DEF Ahead, KeysInStep
<1>5. CASE phase[p] = "collect"
  <2>1. op[p] \in 1 .. Len(Plan) /\ Plan[op[p]] = "fence"
    BY <1>5 DEF KeysInStep
  <2>2. op[p] - 1 \in Nat /\ (op[p] - 1) + 1 = op[p]
    BY <1>1, <2>1
  <2>3. /\ Base(op[p] - 1) \in Nat
        /\ Base((op[p] - 1) + 1) = Base(op[p] - 1) + (IF Plan[(op[p] - 1) + 1] = "fence" THEN 2 ELSE 1)
    BY <2>2, BaseStep
  <2>4. Base(op[p]) = Base(op[p] - 1) + 2
    BY <2>1, <2>2, <2>3
  <2>5. Ahead(phase[p]) = 2 /\ key[p] = Key(Base(op[p]) - Ahead(phase[p]), 0)
    BY <1>5 DEF Ahead, KeysInStep
  <2> QED BY <1>1, <1>2, <2>3, <2>4, <2>5
<1> QED BY <1>1, <1>3, <1>4, <1>5

\* A pair stays honest while nodes go on.
LEMMA HonestKept ==
  ASSUME SyncTypeOK, SyncTypeOK', \A q \in Part : op'[q] >= op[q], NEW x \in store, Honest(x)
  PROVE  Honest(x)'
<1>1. x.of \in Nat /\ \A q \in Part : op[q] \in Nat /\ op'[q] \in Nat
  BY PartFacts DEF SyncTypeOK
<1>2. CASE IsBroadcast(x, x.of)
  <2>1. B!Awaited(x.of) \subseteq Part
    BY PartFacts DEF B!Awaited, Master
  <2>2. \A q \in B!Awaited(x.of) : op'[q] >= x.of
    BY <1>1, <1>2, <2>1 DEF IsBroadcast
  <2> QED BY <1>2, <2>2 DEF Honest, IsBroadcast, B!Awaited
<1>3. ASSUME NEW q \in Part, IsFlag(x, x.of, q) PROVE Honest(x)'
  BY <1>1, <1>3 DEF Honest, IsFlag
<1> QED BY <1>2, <1>3 DEF Honest

\* What a Get returns: in a broadcast the master's value for the same operation.
LEMMA GotBroadcast ==
  ASSUME SyncInv, NEW p \in Part, phase[p] = "broadcast", NEW x \in Got(key[p] + Master)
  PROVE  x.of = op[p] /\ \A q \in B!Awaited(op[p]) : op[q] >= op[p]
<1>1. x \in store /\ x.key = key[p] + Master /\ x.of \in 1 .. Len(Plan) /\ x.of \in Nat
  BY PartFacts DEF SyncInv, SyncTypeOK, Got
<1>2. op[p] \in Nat /\ Base(op[p]) \in Nat /\ Base(x.of) \in Nat /\ Master \in Part
  <2>1. Master \in Part /\ Len(Plan) \in Nat
    BY PartFacts
  <2>2. op[p] \in Nat
    BY <2>1 DEF SyncInv, SyncTypeOK
  <2> QED BY <1>1, <2>1, <2>2, BaseStep
<1>3. x.key = Key(Base(op[p]) - 1, Master)
  BY <1>1, <1>2, RoundFacts, KeyNext DEF SyncInv, Ahead
<1>4. ASSUME NEW q \in Part, IsFlag(x, x.of, q) PROVE FALSE
  BY <1>2, <1>3, <1>4, KeyTells DEF IsFlag
<1>5. IsBroadcast(x, x.of)
  BY <1>1, <1>4 DEF SyncInv, StoreHonest, Honest
<1>6. Base(op[p]) = Base(x.of)
  <2>1. Key(Base(op[p]) - 1, Master) = Key(Base(x.of) - 1, Master)
    BY <1>3, <1>5 DEF IsBroadcast, Master
  <2> QED BY <1>2, <2>1, KeyTells
<1>7. x.of = op[p]
  BY <1>1, <1>2, <1>6, BaseTells
<1> QED BY <1>5, <1>7 DEF IsBroadcast

\* What a Get returns: in a collection the flag of the partition asked for.
LEMMA GotFlag ==
  ASSUME SyncInv, phase[Master] = "collect", NEW q \in Part, q # Master, NEW x \in Got(key[Master] + q)
  PROVE  x.of = op[Master] /\ op[q] >= op[Master]
<1>1. x \in store /\ x.key = key[Master] + q /\ x.of \in 1 .. Len(Plan) /\ x.of \in Nat
  BY PartFacts DEF SyncInv, SyncTypeOK, Got
<1>2. op[Master] \in Nat /\ Base(op[Master]) \in Nat /\ Base(x.of) \in Nat /\ Master \in Part
  <2>1. Master \in Part /\ Len(Plan) \in Nat
    BY PartFacts
  <2>2. op[Master] \in Nat
    BY <2>1 DEF SyncInv, SyncTypeOK
  <2> QED BY <1>1, <2>1, <2>2, BaseStep
<1>3. x.key = Key(Base(op[Master]) - 2, q)
  BY <1>1, <1>2, RoundFacts, KeyNext DEF SyncInv, Ahead
<1>4. ~IsBroadcast(x, x.of)
  BY <1>2, <1>3, KeyTells DEF IsBroadcast, Master
<1>5. PICK r \in Part : IsFlag(x, x.of, r)
  BY <1>1, <1>4 DEF SyncInv, StoreHonest, Honest
<1>6. Base(op[Master]) = Base(x.of) /\ r = q
  <2>1. Key(Base(op[Master]) - 2, q) = Key(Base(x.of) - 2, r)
    BY <1>3, <1>5 DEF IsFlag
  <2>2. Base(op[Master]) - 2 \in Int /\ Base(x.of) - 2 \in Int
    BY <1>2
  <2>3. Base(op[Master]) - 2 = Base(x.of) - 2 /\ q = r
    BY <2>1, <2>2, KeyTells
  <2> QED BY <1>2, <2>3
<1>7. x.of = op[Master]
  BY <1>1, <1>2, <1>6, BaseTells
<1> QED BY <1>5, <1>6, <1>7 DEF IsFlag

\* A node is at the start: nothing is put, all keys are 0.
LEMMA SyncInitInv == SyncInit => SyncInv
<1> SUFFICES ASSUME SyncInit PROVE SyncInv
  OBVIOUS
<1>1. SyncTypeOK /\ StoreHonest
  BY PartFacts DEF SyncInit, SyncTypeOK, StoreHonest
<1>2. Base(0) = 0
  <2>1. Fences(0) = {}
    BY DEF Fences
  <2> QED BY <2>1, FS_EmptySet DEF Base
<1>3. KeysInStep
  <2>1. Key(0, 0) = 0
    BY PartFacts DEF Key
  <2> QED BY <1>2, <2>1 DEF SyncInit, KeysInStep, Ahead
<1>4. Collecting
  BY PartFacts DEF SyncInit, Collecting
<1> QED BY <1>1, <1>3, <1>4 DEF SyncInv

\* main comes to its next operation: the rounds of the operation are now ahead.
LEMMA EnterInv == ASSUME SyncInv, NEW p \in Part, Enter(p) PROVE SyncInv'
<1>1. /\ op[p] \in Nat /\ op[p] < Len(Plan) /\ phase[p] = "idle" /\ op'[p] = op[p] + 1
      /\ phase'[p] = IF Plan[op[p] + 1] = "fence" THEN "collect" ELSE "broadcast"
      /\ key' = key /\ at' = at /\ store' = store
  BY PartFacts DEF Enter, SyncInv, SyncTypeOK
<1>2. ASSUME NEW q \in Part, q # p PROVE op'[q] = op[q] /\ phase'[q] = phase[q]
  BY <1>2 DEF Enter, SyncInv, SyncTypeOK
<1>3. SyncTypeOK'
  BY PartFacts, <1>1 DEF Enter, SyncInv, SyncTypeOK
<1>4. \A q \in Part : op'[q] >= op[q] /\ op[q] \in Nat /\ op'[q] \in Nat
  <2>1. \A q \in Part : op[q] \in Nat
    BY PartFacts DEF SyncInv, SyncTypeOK
  <2> QED BY <1>1, <1>2, <2>1
<1>5. KeysInStep'
  <2> SUFFICES ASSUME NEW q \in Part
               PROVE  /\ phase'[q] # "idle" => op'[q] \in 1 .. Len(Plan)
                      /\ phase'[q] = "collect" => Plan[op'[q]] = "fence"
                      /\ key[q] = Key(Base(op'[q]) - Ahead(phase'[q]), 0)
    BY <1>1 DEF KeysInStep
  <2>1. CASE q # p
    BY <1>2, <2>1 DEF SyncInv, KeysInStep
  <2>2. CASE q = p
    <3>1. /\ Base(op[p]) \in Nat
          /\ Base(op[p] + 1) = Base(op[p]) + (IF Plan[op[p] + 1] = "fence" THEN 2 ELSE 1)
      BY <1>1, BaseStep
    <3>2. Base(op'[p]) - Ahead(phase'[p]) = Base(op[p]) - Ahead(phase[p])
      BY <1>1, <3>1 DEF Ahead
    <3>3. key[p] = Key(Base(op[p]) - Ahead(phase[p]), 0)
      BY DEF SyncInv, KeysInStep
    <3> QED BY <1>1, <2>2, <3>2, <3>3, PartFacts
  <2> QED BY <2>1, <2>2
<1>6. StoreHonest'
  BY <1>1, <1>3, <1>4, HonestKept DEF SyncInv, StoreHonest
<1>7. Collecting'
  <2>1. CASE p # Master
    <3>1. phase'[Master] = phase[Master] /\ op'[Master] = op[Master]
      BY <1>2, <2>1, PartFacts
    <3>2. B!Awaited(op[Master]) \subseteq Part
      BY PartFacts DEF B!Awaited, Master
    <3>3. \A q \in Part : op[q] >= op[Master] => op'[q] >= op[Master]
      BY <1>4, PartFacts
    <3> QED BY <1>1, <3>1, <3>2, <3>3 DEF SyncInv, Collecting, B!Awaited
  <2>2. CASE p = Master
    <3>1. at' = 0
      BY <1>1, <2>2 DEF SyncInv, Collecting
    <3>2. phase'[Master] = "broadcast" => B!Awaited(op'[Master]) = {Master}
      BY <1>1, <2>2 DEF B!Awaited, Master
    <3>3. op'[Master] \in Nat
      BY <1>1, <2>2
    <3> QED BY <3>1, <3>2, <3>3, PartFacts DEF Collecting, B!Awaited
  <2> QED BY <2>1, <2>2
<1> QED BY <1>3, <1>5, <1>6, <1>7 DEF SyncInv

\* The master passes the next partition: its flag is there, so it has come.
LEMMA CollectInv == ASSUME SyncInv, NEW p \in Part, Collect(p) PROVE SyncInv'
<1>1. /\ p = Master /\ phase[Master] = "collect" /\ at \in Nat /\ at < PartitionNum /\ at' = at + 1
      /\ phase' = phase /\ op' = op /\ key' = key /\ store' = store
  BY DEF Collect, SyncInv, SyncTypeOK
<1>2. SyncTypeOK' /\ KeysInStep' /\ StoreHonest'
  BY <1>1, PartFacts DEF SyncInv, SyncTypeOK, KeysInStep, StoreHonest, Honest, IsBroadcast, IsFlag, B!Awaited
<1>3. at \in Part /\ op[Master] \in Nat
  BY <1>1, PartFacts DEF Part, SyncInv, SyncTypeOK
<1>4. op[at] >= op[Master]
  <2>1. CASE at = Master
    BY <1>3, <2>1
  <2>2. CASE at # Master
    <3>1. Got(key[Master] + at) # {}
      BY <1>1, <2>2 DEF Collect
    <3> QED BY <1>1, <1>3, <2>2, <3>1, GotFlag
  <2> QED BY <2>1, <2>2
<1>5. Collecting'
  <2>1. ASSUME NEW q \in Part, q < at + 1 PROVE op[q] >= op[Master]
    <3>1. q < at \/ q = at
      BY <1>1, <2>1, PartFacts
    <3> QED BY <1>1, <1>4, <3>1 DEF SyncInv, Collecting
  <2> QED BY <1>1, <2>1 DEF Collecting
<1> QED BY <1>2, <1>5 DEF SyncInv

\* A node that ends a round moves its key on by one round.
LEMMA RoundEnds ==
  ASSUME SyncInv, NEW p \in Part, NextKey(p), op' = op, NEW s \in {"idle", "broadcast"},
         phase[p] # "idle", phase' = [phase EXCEPT ![p] = s], Ahead(phase[p]) = Ahead(s) + 1
  PROVE  KeysInStep' /\ key' \in [Part -> Nat] /\ phase' \in [Part -> {"idle", "collect", "broadcast"}]
<1>1. key'[p] = key[p] + PartitionNum /\ \A q \in Part : q # p => key'[q] = key[q]
  BY DEF NextKey, SyncInv, SyncTypeOK
<1>2. phase'[p] = s /\ \A q \in Part : q # p => phase'[q] = phase[q]
  BY DEF SyncInv, SyncTypeOK
<1>3. ASSUME NEW q \in Part
      PROVE  /\ phase'[q] # "idle" => op[q] \in 1 .. Len(Plan)
             /\ phase'[q] = "collect" => Plan[op[q]] = "fence"
             /\ key'[q] = Key(Base(op[q]) - Ahead(phase'[q]), 0)
  <2>1. CASE q # p
    BY <1>1, <1>2, <2>1 DEF SyncInv, KeysInStep
  <2>2. CASE q = p
    <3>1. Base(op[p]) \in Nat /\ Ahead(phase[p]) \in {0, 1, 2} /\ Ahead(s) \in {0, 1}
      BY RoundFacts DEF SyncInv, Ahead
    <3>2. (Base(op[p]) - Ahead(phase[p])) + 1 = Base(op[p]) - Ahead(s)
      BY <3>1
    <3>3. key[p] = Key(Base(op[p]) - Ahead(phase[p]), 0)
      BY DEF SyncInv, KeysInStep
    <3>4. key'[p] = Key((Base(op[p]) - Ahead(phase[p])) + 1, 0)
      <4>1. Base(op[p]) - Ahead(phase[p]) \in Int /\ Master \in Part
        BY <3>1, PartFacts
      <4> QED BY <1>1, <3>3, <4>1, KeyNext
    <3>5. phase'[p] # "collect" /\ op[p] \in 1 .. Len(Plan)
      BY <1>2 DEF SyncInv, KeysInStep
    <3> QED BY <1>2, <2>2, <3>2, <3>4, <3>5
  <2> QED BY <2>1, <2>2
<1>4. KeysInStep'
  BY <1>3 DEF KeysInStep
<1>5. key' \in [Part -> Nat]
  BY PartFacts DEF NextKey, SyncInv, SyncTypeOK
<1>6. phase' \in [Part -> {"idle", "collect", "broadcast"}]
  BY DEF SyncInv, SyncTypeOK
<1> QED BY <1>4, <1>5, <1>6

\* The master has passed everybody.
LEMMA CollectedInv == ASSUME SyncInv, NEW p \in Part, Collected(p) PROVE SyncInv'
<1>1. /\ p = Master /\ phase[Master] = "collect" /\ at = PartitionNum /\ at' = 0 /\ NextKey(p)
      /\ phase' = [phase EXCEPT ![p] = "broadcast"] /\ op' = op /\ store' = store
  BY DEF Collected
<1>2. KeysInStep' /\ key' \in [Part -> Nat] /\ phase' \in [Part -> {"idle", "collect", "broadcast"}]
  <2>1. Ahead(phase[p]) = Ahead("broadcast") + 1 /\ phase[p] # "idle"
    BY <1>1 DEF Ahead
  <2> QED BY <1>1, <2>1, RoundEnds
<1>3. SyncTypeOK'
  BY <1>1, <1>2, PartFacts DEF SyncInv, SyncTypeOK
<1>4. StoreHonest'
  BY <1>1 DEF SyncInv, StoreHonest, Honest, IsBroadcast, IsFlag, B!Awaited
<1>5. Collecting'
  <2>1. \A q \in Part : op[q] >= op[Master]
    <3>1. \A q \in Part : q < at
      BY <1>1, PartFacts DEF Part
    <3> QED BY <1>1, <3>1 DEF SyncInv, Collecting
  <2>2. phase'[Master] = "broadcast" /\ B!Awaited(op[Master]) \subseteq Part
    BY <1>1, PartFacts DEF SyncInv, SyncTypeOK, B!Awaited, Master
  <2> QED BY <1>1, <2>1, <2>2 DEF Collecting, B!Awaited
<1> QED BY <1>2, <1>3, <1>4, <1>5 DEF SyncInv

\* What a Put adds to the store is its own pair.
LEMMA PutHonest ==
  ASSUME SyncInv, NEW k \in Nat, NEW v \in 1 .. Len(Plan), Put(k, v), op' = op,
         Honest([key |-> k, of |-> v])
  PROVE  StoreHonest' /\ store' \subseteq [key : Nat, of : 1 .. Len(Plan)]
<1>1. \A x \in store' : x \in store \/ x = [key |-> k, of |-> v]
  BY DEF Put
<1>2. \A x \in store' : Honest(x)
  BY <1>1 DEF SyncInv, StoreHonest
<1>3. StoreHonest'
  BY <1>2 DEF StoreHonest, Honest, IsBroadcast, IsFlag, B!Awaited
<1>4. store' \subseteq [key : Nat, of : 1 .. Len(Plan)]
  BY <1>1 DEF SyncInv, SyncTypeOK
<1> QED BY <1>3, <1>4

\* A node puts its flag.
LEMMA ReportInv == ASSUME SyncInv, NEW p \in Part, Report(p) PROVE SyncInv'
<1>1. /\ p # Master /\ phase[p] = "collect" /\ at' = at /\ NextKey(p) /\ Put(key[p] + p, op[p])
      /\ phase' = [phase EXCEPT ![p] = "broadcast"] /\ op' = op
  BY DEF Report, Flag
<1>2. KeysInStep' /\ key' \in [Part -> Nat] /\ phase' \in [Part -> {"idle", "collect", "broadcast"}]
  <2>1. Ahead(phase[p]) = Ahead("broadcast") + 1 /\ phase[p] # "idle"
    BY <1>1 DEF Ahead
  <2> QED BY <1>1, <2>1, RoundEnds
<1>3. key[p] + p \in Nat /\ op[p] \in 1 .. Len(Plan) /\ op[p] \in Nat /\ Plan[op[p]] = "fence"
  BY <1>1, PartFacts DEF SyncInv, SyncTypeOK, KeysInStep
<1>4. key[p] + p = Key(Base(op[p]) - 2, p)
  BY <1>1, RoundFacts, KeyNext DEF SyncInv, Ahead
<1>5. Honest([key |-> key[p] + p, of |-> op[p]])
  BY <1>1, <1>3, <1>4 DEF Honest, IsFlag
<1>6. StoreHonest' /\ store' \subseteq [key : Nat, of : 1 .. Len(Plan)]
  BY <1>1, <1>3, <1>5, PutHonest
<1>7. SyncTypeOK'
  BY <1>1, <1>2, <1>6 DEF SyncInv, SyncTypeOK
<1>8. Collecting'
  <2>1. phase'[Master] = phase[Master]
    BY <1>1, PartFacts DEF SyncInv, SyncTypeOK
  <2> QED BY <1>1, <2>1 DEF SyncInv, Collecting, B!Awaited
<1> QED BY <1>2, <1>6, <1>7, <1>8 DEF SyncInv

\* The master puts the value that the others wait for.
LEMMA BroadcastInv == ASSUME SyncInv, NEW p \in Part, Broadcast(p) PROVE SyncInv'
<1>1. /\ p = Master /\ phase[p] = "broadcast" /\ at' = at /\ NextKey(p) /\ Put(key[p] + p, op[p])
      /\ phase' = [phase EXCEPT ![p] = "idle"] /\ op' = op
  BY DEF Broadcast
<1>2. KeysInStep' /\ key' \in [Part -> Nat] /\ phase' \in [Part -> {"idle", "collect", "broadcast"}]
  <2>1. Ahead(phase[p]) = Ahead("idle") + 1 /\ phase[p] # "idle"
    BY <1>1 DEF Ahead
  <2> QED BY <1>1, <2>1, RoundEnds
<1>3. key[p] + p \in Nat /\ op[p] \in 1 .. Len(Plan)
  BY <1>1, PartFacts DEF SyncInv, SyncTypeOK, KeysInStep
<1>4. key[p] + p = Key(Base(op[p]) - 1, 0)
  <2>1. Base(op[p]) \in Nat /\ key[p] = Key(Base(op[p]) - 1, 0)
    BY <1>1, RoundFacts DEF SyncInv, Ahead
  <2> QED BY <1>1, <2>1, PartFacts DEF Key, Master
<1>5. Honest([key |-> key[p] + p, of |-> op[p]])
  BY <1>1, <1>4 DEF SyncInv, Collecting, Honest, IsBroadcast
<1>6. StoreHonest' /\ store' \subseteq [key : Nat, of : 1 .. Len(Plan)]
  BY <1>1, <1>3, <1>5, PutHonest
<1>7. SyncTypeOK'
  BY <1>1, <1>2, <1>6 DEF SyncInv, SyncTypeOK
<1>8. Collecting'
  BY <1>1 DEF SyncInv, SyncTypeOK, Collecting
<1> QED BY <1>2, <1>6, <1>7, <1>8 DEF SyncInv

\* Another node gets it.
LEMMA ReceiveInv == ASSUME SyncInv, NEW p \in Part, Receive(p) PROVE SyncInv'
<1>1. /\ p # Master /\ phase[p] = "broadcast" /\ at' = at /\ NextKey(p) /\ store' = store
      /\ phase' = [phase EXCEPT ![p] = "idle"] /\ op' = op
  BY DEF Receive
<1>2. KeysInStep' /\ key' \in [Part -> Nat] /\ phase' \in [Part -> {"idle", "collect", "broadcast"}]
  <2>1. Ahead(phase[p]) = Ahead("idle") + 1 /\ phase[p] # "idle"
    BY <1>1 DEF Ahead
  <2> QED BY <1>1, <2>1, RoundEnds
<1>3. SyncTypeOK'
  BY <1>1, <1>2 DEF SyncInv, SyncTypeOK
<1>4. StoreHonest'
  BY <1>1 DEF SyncInv, StoreHonest, Honest, IsBroadcast, IsFlag, B!Awaited
<1>5. Collecting'
  <2>1. phase'[Master] = phase[Master]
    BY <1>1, PartFacts DEF SyncInv, SyncTypeOK
  <2> QED BY <1>1, <2>1 DEF SyncInv, Collecting, B!Awaited
<1> QED BY <1>2, <1>3, <1>4, <1>5 DEF SyncInv

\* Every step keeps the invariant.
LEMMA SyncNextInv == SyncInv /\ [SyncNext]_syncVars => SyncInv'
<1> SUFFICES ASSUME SyncInv, [SyncNext]_syncVars PROVE SyncInv'
  OBVIOUS
<1>1. CASE UNCHANGED syncVars
  BY <1>1 DEF syncVars, SyncInv, SyncTypeOK, KeysInStep, StoreHonest, Honest, IsBroadcast, IsFlag, Collecting, B!Awaited
<1>2. CASE SyncNext
  BY <1>2, EnterInv, CollectInv, CollectedInv, ReportInv, BroadcastInv, ReceiveInv DEF SyncNext, NodeStep
<1> QED BY <1>1, <1>2

\* The invariant holds always.
LEMMA SyncAlways == SyncSpec => []SyncInv
BY SyncInitInv, SyncNextInv, PTL DEF SyncSpec

------------------------------------------------------------------------------
\* The counters and the store of ClusterSync stay well typed.
THEOREM SyncTypeCorrect == SyncSpec => []SyncTypeOK
<1>1. SyncInv => SyncTypeOK
  BY DEF SyncInv
<1> QED BY <1>1, SyncAlways, PTL

\* Whatever Get of MasterCollect or MasterBroadcast returns was put for the very
\* operation that the caller is in: keys are never used twice.
THEOREM SyncRightValue == SyncSpec => []RightValue
<1>1. SyncInv => RightValue
  BY GotBroadcast, GotFlag DEF RightValue
<1> QED BY <1>1, SyncAlways, PTL

\* The operations that a node has finished, as the barrier sees them.
Gone == [p \in Part |-> IF phase[p] = "idle" THEN op[p] ELSE op[p] - 1]

\* A step of ClusterSync is a step of the barrier, or none.
LEMMA BarrierStep == SyncInv /\ [SyncNext]_syncVars => [B!Next]_<<op, Gone>>
<1> SUFFICES ASSUME SyncInv, [SyncNext]_syncVars PROVE B!Next \/ (op' = op /\ Gone' = Gone)
  OBVIOUS
<1>1. \A q \in Part : op[q] \in Nat /\ Gone[q] = IF phase[q] = "idle" THEN op[q] ELSE op[q] - 1
  BY PartFacts DEF SyncInv, SyncTypeOK, Gone
<1>2. ASSUME NEW p \in Part, Enter(p) PROVE B!Come(p)
  <2>1. phase[p] = "idle" /\ op[p] < Len(Plan) /\ op' = [op EXCEPT ![p] = @ + 1] /\ phase'[p] # "idle"
    BY <1>2 DEF Enter, SyncInv, SyncTypeOK
  <2>2. \A q \in Part : q # p => phase'[q] = phase[q] /\ op'[q] = op[q]
    BY <1>2 DEF Enter, SyncInv, SyncTypeOK
  <2>3. op'[p] - 1 = op[p]
    BY <1>1, <2>1 DEF SyncInv, SyncTypeOK
  <2>4. Gone' = Gone
    BY <2>1, <2>2, <2>3 DEF Gone
  <2> QED BY <1>1, <2>1, <2>4 DEF B!Come, Gone
<1>3. ASSUME NEW p \in Part, Broadcast(p) \/ Receive(p) PROVE B!Go(p)
  <2>1. phase[p] = "broadcast" /\ phase' = [phase EXCEPT ![p] = "idle"] /\ op' = op
    BY <1>3 DEF Broadcast, Receive
  <2>2. \A q \in B!Awaited(op[p]) : op[q] >= op[p]
    <3>1. CASE Broadcast(p)
      BY <2>1, <3>1 DEF Broadcast, SyncInv, Collecting
    <3>2. CASE Receive(p)
      BY <2>1, <3>2, GotBroadcast DEF Receive
    <3> QED BY <1>3, <3>1, <3>2
  <2>3. Gone[p] = op[p] - 1 /\ op[p] = Gone[p] + 1
    BY <1>1, <2>1
  <2>4. Gone' = [Gone EXCEPT ![p] = Gone[p] + 1]
    BY <2>1, <2>3 DEF Gone, SyncInv, SyncTypeOK
  <2> QED BY <2>1, <2>2, <2>3, <2>4 DEF B!Go, Gone
<1>4. ASSUME NEW p \in Part, Collect(p) \/ Collected(p) \/ Report(p) PROVE op' = op /\ Gone' = Gone
  BY <1>4 DEF Collect, Collected, Report, Gone, SyncInv, SyncTypeOK
<1>5. CASE UNCHANGED syncVars
  BY <1>5 DEF syncVars, Gone
<1>6. CASE SyncNext
  BY <1>2, <1>3, <1>4, <1>6 DEF SyncNext, NodeStep, B!Next
<1> QED BY <1>5, <1>6

\* A fence of ClusterSync holds every node back until all have come, a broadcast
\* until the master has: the nodes go through main as through a barrier.
THEOREM SyncIsBarrier == SyncSpec => IsBarrier
<1>1. SyncInit => B!Init
  BY DEF SyncInit, B!Init
<1>2. SyncSpec => [][B!Next]_<<op, Gone>>
  BY BarrierStep, SyncAlways, PTL DEF SyncSpec
<1> QED BY <1>1, <1>2, PTL DEF SyncSpec, IsBarrier, B!Spec, Gone

------------------------------------------------------------------------------
(* Division *)

LEMMA SourceProduct ==
  /\ \A b, c \in Nat : b * c \in Nat
  /\ \A b, x, y \in Nat : x <= y => b * x <= b * y
  /\ \A b, x \in Nat : b * (x + 1) = b * x + b
OBVIOUS

\* A number below b after the multiple b * q.
LEMMA Divided ==
  ASSUME NEW b \in Nat \ {0}, NEW q \in Nat, NEW r \in 0 .. b - 1
  PROVE  (b * q + r) \div b = q /\ (b * q + r) % b = r
OBVIOUS

LEMMA Quotient ==
  ASSUME NEW a \in Nat, NEW b \in Nat \ {0}
  PROVE  \E q \in Nat, r \in 0 .. b - 1 : a = b * q + r /\ a \div b = q /\ a % b = r
<1> DEFINE q == a \div b
           r == a - b * q
<1>1. q \in Nat /\ b * q \in Nat /\ r \in 0 .. b - 1
  OBVIOUS
<1>2. a = b * q + r
  BY <1>1
<1> HIDE DEF q, r
<1>3. (b * q + r) \div b = q /\ (b * q + r) % b = r
  BY <1>1, Divided
<1> QED BY <1>1, <1>2, <1>3

\* Counting modulo b.
LEMMA NextModulo ==
  ASSUME NEW a \in Nat, NEW b \in Nat \ {0}
  PROVE  /\ a % b \in 0 .. b - 1
         /\ (a + 1) % b = IF (a % b) + 1 = b THEN 0 ELSE (a % b) + 1
<1>1. PICK q \in Nat, r \in 0 .. b - 1 : a = b * q + r /\ a % b = r
  BY Quotient
<1>2. CASE r + 1 = b
  <2>1. a + 1 = b * (q + 1) + 0 /\ q + 1 \in Nat /\ 0 \in 0 .. b - 1
    BY <1>1, <1>2, SourceProduct
  <2>2. (b * (q + 1) + 0) % b = 0
    BY <2>1, Divided
  <2> QED BY <1>1, <1>2, <2>1, <2>2
<1>3. CASE r + 1 # b
  <2>1. a + 1 = b * q + (r + 1) /\ r + 1 \in 0 .. b - 1
    BY <1>1, <1>3, SourceProduct
  <2>2. (b * q + (r + 1)) % b = r + 1
    BY <2>1, Divided
  <2> QED BY <1>1, <1>3, <2>1, <2>2
<1> QED BY <1>2, <1>3

\* Counting round a circle.
LEMMA NextRound ==
  ASSUME NEW b \in Nat \ {0}, NEW a \in 0 .. b - 1
  PROVE  /\ (a + 1) % b = IF a + 1 = b THEN 0 ELSE a + 1
         /\ (a + 1) % b \in 0 .. b - 1
<1>1. a = b * 0 + a
  OBVIOUS
<1>2. (b * 0 + a) % b = a
  BY Divided
<1>3. a % b = a /\ a \in Nat
  BY <1>1, <1>2
<1>4. (a + 1) % b = IF a + 1 = b THEN 0 ELSE a + 1
  <2>1. (a + 1) % b = IF (a % b) + 1 = b THEN 0 ELSE (a % b) + 1
    BY <1>3, NextModulo
  <2> QED BY <1>3, <2>1
<1>5. (IF a + 1 = b THEN 0 ELSE a + 1) \in 0 .. b - 1
  OBVIOUS
<1> QED BY <1>4, <1>5

------------------------------------------------------------------------------
(* The warehouses *)

\* The share of a node is large enough.
LEMMA ShareIs ==
  ASSUME NEW n \in Nat \ {0}
  PROVE  PerPartition(n) \in Nat \ {0} /\ n <= PerPartition(n) * Partitions
<1>1. Partitions \in Nat \ {0}
  BY TxnSourceAssumption
<1>2. n + Partitions - 1 \in Nat
  BY <1>1
<1>3. PICK q \in Nat, r \in 0 .. Partitions - 1 :
        n + Partitions - 1 = Partitions * q + r /\ (n + Partitions - 1) \div Partitions = q
  BY <1>1, <1>2, Quotient
<1>4. n <= Partitions * q /\ Partitions * q = q * Partitions
  BY <1>1, <1>3
<1>5. q # 0
  BY <1>1, <1>4
<1> QED BY <1>3, <1>4, <1>5 DEF PerPartition

\* The warehouses of a node are those whose number, divided by the share, is the node's.
LEMMA OwnerIs ==
  ASSUME NEW n \in Nat \ {0}, NEW w \in 1 .. n, NEW p \in Nat
  PROVE  w \in StartingWarehouse(n, p) .. EndingWarehouse(n, p) <=> (w - 1) \div PerPartition(n) = p
<1> DEFINE m == PerPartition(n)
<1>1. m \in Nat \ {0}
  BY ShareIs
<1> HIDE DEF m
<1>2. PICK q \in Nat, r \in 0 .. m - 1 : w - 1 = m * q + r /\ (w - 1) \div m = q
  BY <1>1, Quotient
<1>3. m * p \in Nat /\ m * q \in Nat
  BY <1>1, SourceProduct
<1>4. w \in StartingWarehouse(n, p) .. EndingWarehouse(n, p) <=> 1 + m * p <= w /\ w <= m * p + m
  <2>1. StartingWarehouse(n, p) = 1 + m * p
    BY DEF StartingWarehouse, m
  <2>2. EndingWarehouse(n, p) = IF 1 + m * p + m - 1 > n THEN n ELSE 1 + m * p + m - 1
    BY <2>1 DEF EndingWarehouse, m
  <2> QED BY <1>1, <1>3, <2>1, <2>2
<1>5. CASE q = p
  BY <1>1, <1>2, <1>3, <1>4, <1>5 DEF m
<1>6. CASE q < p
  <2>1. m * (q + 1) <= m * p /\ m * (q + 1) = m * q + m
    BY <1>1, <1>6, SourceProduct
  <2> QED BY <1>1, <1>2, <1>3, <1>4, <1>6, <2>1 DEF m
<1>7. CASE p < q
  <2>1. m * (p + 1) <= m * q /\ m * (p + 1) = m * p + m
    BY <1>1, <1>7, SourceProduct
  <2> QED BY <1>1, <1>2, <1>3, <1>4, <1>7, <2>1 DEF m
<1> QED BY <1>5, <1>6, <1>7

\* Every warehouse has an owner.
LEMMA OneOwner == ASSUME NEW n \in Nat \ {0}, n = wh PROVE Partitioned
<1>0. Partitions \in Nat \ {0}
  BY TxnSourceAssumption
<1>1. ASSUME NEW w \in 1 .. n
      PROVE  \E p \in 0 .. Partitions - 1 :
               {q \in 0 .. Partitions - 1 : w \in StartingWarehouse(n, q) .. EndingWarehouse(n, q)} = {p}
  <2> DEFINE m == PerPartition(n)
             p == (w - 1) \div m
  <2>1. m \in Nat \ {0} /\ n <= m * Partitions
    BY ShareIs
  <2> HIDE DEF m
  <2>2. p \in Nat
    BY <2>1, Quotient
  <2>3. ASSUME Partitions <= p PROVE FALSE
    <3>1. PICK q \in Nat, r \in 0 .. m - 1 : w - 1 = m * q + r /\ p = q
      BY <2>1, Quotient
    <3>2. m * Partitions <= m * q /\ m * Partitions \in Nat /\ m * q \in Nat
      BY <1>0, <2>1, <2>3, <3>1, SourceProduct
    <3> QED BY <2>1, <3>1, <3>2
  <2>4. p \in 0 .. Partitions - 1
    BY <1>0, <2>2, <2>3
  <2>5. \A q \in 0 .. Partitions - 1 : w \in StartingWarehouse(n, q) .. EndingWarehouse(n, q) <=> q = p
    BY OwnerIs DEF m
  <2> HIDE DEF p
  <2> QED BY <2>4, <2>5
<1> QED BY <1>1 DEF Partitioned

------------------------------------------------------------------------------
(* Sequences of batches *)

\* f[i] is what the first i batches of s are one after the other, for i up to n.
IsFlat(f, s, n) == f = [i \in 1 .. n |-> IF i = 1 THEN s[i] ELSE f[i - 1] \o s[i]]

\* A set of numbers has a least one.
LEMMA LeastNumber ==
  ASSUME NEW A, A \subseteq Nat, A # {}
  PROVE  \E m \in A : \A k \in A : m <= k
<1>1. PICK n \in Nat : n \in A
  OBVIOUS
<1> DEFINE I == 0 .. n
           Bad == {0 .. k : k \in A \cap I}
<1>2. IsFiniteSet(I)
  <2>1. 0 \in Int /\ n \in Int
    OBVIOUS
  <2> QED BY <2>1, FS_Interval
<1>3. Bad \subseteq SUBSET I /\ Bad # {}
  BY <1>1
<1>4. PICK s \in Bad : \A q \in Bad : q \subseteq s => q = s
  <2> HIDE DEF I, Bad
  <2> QED BY <1>2, <1>3, SmallestSet
<1>5. PICK m \in A \cap I : s = 0 .. m
  BY <1>4
<1>6. ASSUME NEW k \in A, ~(m <= k) PROVE FALSE
  <2>1. k \in Nat /\ m \in Nat /\ k < m /\ k \in I
    BY <1>1, <1>5, <1>6
  <2>2. 0 .. k \in Bad /\ 0 .. k \subseteq s /\ m \in s /\ m \notin 0 .. k
    BY <1>5, <1>6, <2>1
  <2> QED BY <1>4, <2>2
<1> QED BY <1>5, <1>6

LEMMA FlatSame ==
  ASSUME NEW s, NEW n \in Nat, NEW f, NEW g, IsFlat(f, s, n), IsFlat(g, s, n)
  PROVE  f = g
<1> DEFINE A == {i \in 1 .. n : f[i] # g[i]}
<1>1. \A i \in 1 .. n : /\ f[i] = IF i = 1 THEN s[i] ELSE f[i - 1] \o s[i]
                        /\ g[i] = IF i = 1 THEN s[i] ELSE g[i - 1] \o s[i]
  BY DEF IsFlat
<1>2. ASSUME A # {} PROVE FALSE
  <2>1. PICK m \in A : \A k \in A : m <= k
    <3>1. A \subseteq Nat
      OBVIOUS
    <3> HIDE DEF A
    <3> QED BY <1>2, <3>1, LeastNumber
  <2>2. m \in 1 .. n /\ f[m] # g[m]
    BY <2>1
  <2>3. m # 1
    BY <1>1, <2>2
  <2>4. m - 1 \in 1 .. n /\ m - 1 \notin A
    BY <2>1, <2>2, <2>3
  <2>5. f[m - 1] = g[m - 1]
    BY <2>4
  <2> QED BY <1>1, <2>2, <2>3, <2>5
<1>3. f = [i \in 1 .. n |-> f[i]] /\ g = [i \in 1 .. n |-> g[i]]
  BY DEF IsFlat
<1> QED BY <1>2, <1>3

\* One more batch.
FlatMore(f, s, n) == [i \in 1 .. n + 1 |-> IF i <= n THEN f[i] ELSE IF n = 0 THEN s[n + 1] ELSE f[n] \o s[n + 1]]

LEMMA FlatNext ==
  ASSUME NEW s, NEW n \in Nat, NEW f, IsFlat(f, s, n)
  PROVE  IsFlat(FlatMore(f, s, n), s, n + 1)
<1> DEFINE h == FlatMore(f, s, n)
<1>1. \A i \in 1 .. n : f[i] = IF i = 1 THEN s[i] ELSE f[i - 1] \o s[i]
  BY DEF IsFlat
<1>2. ASSUME NEW i \in 1 .. n + 1 PROVE h[i] = IF i = 1 THEN s[i] ELSE h[i - 1] \o s[i]
  <2>1. CASE i \in 1 .. n
    <3>1. h[i] = f[i] /\ (i # 1 => h[i - 1] = f[i - 1])
      BY <2>1 DEF FlatMore
    <3> HIDE DEF h
    <3> QED BY <1>1, <2>1, <3>1
  <2>2. CASE i = n + 1
    <3>1. h[i] = IF n = 0 THEN s[n + 1] ELSE f[n] \o s[n + 1]
      BY <2>2 DEF FlatMore
    <3>2. n # 0 => h[n] = f[n]
      BY <2>2 DEF FlatMore
    <3>3. i - 1 = n
      BY <2>2
    <3> HIDE DEF h
    <3> QED BY <2>2, <3>1, <3>2, <3>3
  <2> QED BY <2>1, <2>2
<1>3. h = [i \in 1 .. n + 1 |-> h[i]]
  BY DEF FlatMore
<1> HIDE DEF h
<1>4. IsFlat(h, s, n + 1)
  BY <1>2, <1>3 DEF IsFlat
<1> QED BY <1>4 DEF h

LEMMA FlatExists == ASSUME NEW s, NEW n \in Nat PROVE \E f : IsFlat(f, s, n)
<1> DEFINE A == {k \in Nat : ~ \E f : IsFlat(f, s, k)}
<1>1. SUFFICES ASSUME A # {} PROVE FALSE
  OBVIOUS
<1>2. PICK m \in A : \A k \in A : m <= k
  <2>1. A \subseteq Nat
    OBVIOUS
  <2> HIDE DEF A
  <2> QED BY <1>1, <2>1, LeastNumber
<1>3. m # 0
  <2>1. IsFlat([i \in {} |-> 0], s, 0)
    <3>1. 1 .. 0 = {}
      OBVIOUS
    <3> QED BY <3>1 DEF IsFlat
  <2> QED BY <1>2, <2>1
<1>4. m - 1 \in Nat /\ m - 1 \notin A /\ m = (m - 1) + 1
  BY <1>2, <1>3
<1>5. PICK f : IsFlat(f, s, m - 1)
  BY <1>4
<1>6. IsFlat(FlatMore(f, s, m - 1), s, m)
  BY <1>4, <1>5, FlatNext
<1> QED BY <1>2, <1>6

\* What FlattenSeq is.
LEMMA FlattenIs ==
  ASSUME NEW s, NEW n \in Nat \ {0}, Len(s) = n, NEW f, IsFlat(f, s, n)
  PROVE  FlattenSeq(s) = f[n]
<1> DEFINE F == CHOOSE g : g = [i \in 1 .. Len(s) |-> IF i = 1 THEN s[i] ELSE g[i - 1] \o s[i]]
<1>1. FlattenSeq(s) = F[Len(s)]
  BY DEF FlattenSeq
<1>2. IsFlat(F, s, n)
  <2>1. \E g : g = [i \in 1 .. Len(s) |-> IF i = 1 THEN s[i] ELSE g[i - 1] \o s[i]]
    BY DEF IsFlat
  <2>2. F = [i \in 1 .. Len(s) |-> IF i = 1 THEN s[i] ELSE F[i - 1] \o s[i]]
    BY <2>1
  <2> HIDE DEF F
  <2> QED BY <2>2 DEF IsFlat
<1> HIDE DEF F
<1>3. F = f
  BY <1>2, FlatSame
<1> QED BY <1>1, <1>3

LEMMA FlattenNone == FlattenSeq(<<>>) = <<>>
BY DEF FlattenSeq

\* A batch is appended.
LEMMA FlattenAppend ==
  ASSUME NEW S, NEW s \in Seq(Seq(S)), NEW b \in Seq(S), FlattenSeq(s) \in Seq(S)
  PROVE  FlattenSeq(Append(s, b)) = FlattenSeq(s) \o b
<1> DEFINE n == Len(s)
           a == Append(s, b)
<1>1. n \in Nat /\ Len(a) = n + 1 /\ a[n + 1] = b /\ \A i \in 1 .. n : a[i] = s[i]
  OBVIOUS
<1> HIDE DEF a
<1>2. PICK f : IsFlat(f, s, n)
  BY <1>1, FlatExists
<1>3. IsFlat(f, a, n)
  <2>1. \A i \in 1 .. n : f[i] = IF i = 1 THEN a[i] ELSE f[i - 1] \o a[i]
    BY <1>1, <1>2 DEF IsFlat
  <2>2. f = [i \in 1 .. n |-> f[i]]
    BY <1>2 DEF IsFlat
  <2> HIDE DEF n
  <2> QED BY <2>1, <2>2 DEF IsFlat
<1>4. FlattenSeq(a) = FlatMore(f, a, n)[n + 1]
  <2>1. IsFlat(FlatMore(f, a, n), a, n + 1)
    BY <1>1, <1>3, FlatNext
  <2>2. n + 1 \in Nat \ {0} /\ Len(a) = n + 1
    BY <1>1
  <2> QED BY <2>1, <2>2, FlattenIs
<1>5. FlatMore(f, a, n)[n + 1] = IF n = 0 THEN b ELSE f[n] \o b
  BY <1>1 DEF FlatMore
<1>6. CASE n = 0
  <2>1. s = <<>>
    BY <1>6
  <2>2. FlattenSeq(s) \o b = b
    BY <2>1, FlattenNone
  <2> QED BY <1>4, <1>5, <1>6, <2>2 DEF a
<1>7. CASE n # 0
  <2>1. FlattenSeq(s) = f[n]
    BY <1>1, <1>2, <1>7, FlattenIs
  <2> QED BY <1>4, <1>5, <1>7, <2>1 DEF a
<1> QED BY <1>6, <1>7

------------------------------------------------------------------------------
(* The invariant *)

Lens == [t \in DOMAIN input |-> Len(Given(t))]

SourceTyped ==
  /\ wh \in Warehouses /\ me \in 0 .. Partitions - 1 /\ cores \in Threads
  /\ turn \in 0 .. NumTxn /\ tid \in 0 .. cores - 1 /\ curr \in 0 .. cores - 1
  /\ DOMAIN input = 0 .. cores - 1
  /\ spc \in {"fill", "generate", "done", "assert"}

\* What has been dealt, and the batch that is being filled, is of the thread's own.
OwnBatches ==
  /\ input = [t \in DOMAIN input |-> input[t]]
  /\ \A t \in DOMAIN input : input[t] \in Seq(Seq(Homes(t))) /\ Given(t) \in Seq(Homes(t))
  /\ tuples \in Seq(Homes(tid))

\* All threads have had q transactions, and those whose turn has been a batch more.
Rounds(q) == \A t \in DOMAIN input : Len(Given(t)) = IF t < curr THEN q + Batch ELSE q

Evenly ==
  \/ /\ spc # "done" /\ tid = curr /\ Len(tuples) = turn % Batch
     /\ \E q \in Nat : Rounds(q)
  \/ /\ spc = "done" /\ tuples = <<>> /\ turn = NumTxn
     /\ \E q \in Nat : \A t \in DOMAIN input : Len(Given(t)) \in q .. q + Batch

AllDealt == \A f : IsSum(f, Lens, DOMAIN input) => f[DOMAIN input] + Len(tuples) = turn

SourceInv == SourceTyped /\ OwnBatches /\ Evenly /\ AllDealt

\* The constants.
LEMMA SourceNumbers ==
  ASSUME SourceTyped
  PROVE  /\ wh \in Nat \ {0} /\ me \in Nat /\ cores \in Nat \ {0} /\ Partitions \in Nat \ {0}
         /\ Batch \in Nat \ {0} /\ NumTxn \in Nat /\ turn \in Nat /\ tid \in Nat /\ curr \in Nat
         /\ turn % Batch \in 0 .. Batch - 1
         /\ IsFiniteSet(DOMAIN input)
<1>1. /\ wh \in Nat \ {0} /\ me \in Nat /\ cores \in Nat \ {0} /\ Partitions \in Nat \ {0}
      /\ Batch \in Nat \ {0} /\ NumTxn \in Nat /\ turn \in Nat /\ tid \in Nat /\ curr \in Nat
  BY TxnSourceAssumption DEF SourceTyped
<1>2. turn % Batch \in 0 .. Batch - 1
  BY <1>1, NextModulo
<1>3. IsFiniteSet(0 .. cores - 1)
  <2>1. 0 \in Int /\ cores - 1 \in Int
    BY <1>1
  <2> QED BY <2>1, FS_Interval
<1> QED BY <1>1, <1>2, <1>3 DEF SourceTyped

LEMMA LensType == ASSUME OwnBatches PROVE Lens \in [DOMAIN input -> Nat]
<1>1. \A t \in DOMAIN input : Len(Given(t)) \in Nat
  BY LenProperties DEF OwnBatches
<1> QED BY <1>1 DEF Lens

\* The total is the sum of the lengths.
LEMMA TotalIs ==
  ASSUME IsFiniteSet(DOMAIN input)
  PROVE  \E f : IsSum(f, Lens, DOMAIN input) /\ Total = f[DOMAIN input]
<1> DEFINE Body(f) == [s \in SUBSET DOMAIN input |->
                         IF s = {} THEN 0 ELSE LET x == CHOOSE x \in s : TRUE IN Len(Given(x)) + f[s \ {x}]]
           F == CHOOSE f : f = Body(f)
<1>1. Total = F[DOMAIN input]
  BY DEF Total, MapThenSumSet, MapThenFoldSet
<1>2. ASSUME NEW f PROVE f = Body(f) <=> IsSum(f, Lens, DOMAIN input)
  <2>1. ASSUME NEW s \in SUBSET DOMAIN input, s # {} PROVE Pick(s) \in DOMAIN input
    BY <2>1, PickIn
  <2>2. \A s \in SUBSET DOMAIN input :
          Body(f)[s] = IF s = {} THEN 0 ELSE Lens[Pick(s)] + f[s \ {Pick(s)}]
    BY <2>1 DEF Pick, Lens
  <2>3. Body(f) = [s \in SUBSET DOMAIN input |-> Body(f)[s]]
    OBVIOUS
  <2> HIDE DEF Body
  <2> QED BY <2>2, <2>3 DEF IsSum
<1>3. \E f : f = Body(f)
  <2> HIDE DEF Body
  <2> QED BY <1>2, SumExists
<1>4. F = Body(F)
  <2> HIDE DEF Body
  <2> QED BY <1>3
<1> HIDE DEF F, Body
<1> QED BY <1>1, <1>2, <1>4

LEMMA SourceInitInv == SourceInit => SourceInv
<1> SUFFICES ASSUME SourceInit PROVE SourceInv
  OBVIOUS
<1>1. SourceTyped
  BY TxnSourceAssumption DEF SourceInit, SourceTyped
<1>2. DOMAIN input = 0 .. cores - 1 /\ \A t \in DOMAIN input : input[t] = <<>> /\ Given(t) = <<>>
  BY FlattenNone DEF SourceInit, Given
<1>3. OwnBatches
  <2>1. input = [t \in DOMAIN input |-> input[t]] /\ tuples = <<>>
    BY DEF SourceInit
  <2>2. ASSUME NEW S PROVE <<>> \in Seq(S)
    OBVIOUS
  <2> QED BY <1>2, <2>1, <2>2 DEF OwnBatches
<1>4. Evenly
  <2>1. turn = 0 /\ tid = 0 /\ curr = 0 /\ tuples = <<>> /\ spc = "fill"
    BY DEF SourceInit
  <2>2. 0 % Batch = 0
    <3>1. Batch \in Nat \ {0}
      BY TxnSourceAssumption
    <3>2. 0 \in 0 .. Batch - 1 /\ Batch * 0 + 0 = 0
      BY <3>1
    <3>3. (Batch * 0 + 0) % Batch = 0
      BY <3>1, <3>2, Divided
    <3> QED BY <3>2, <3>3
  <2>3. Rounds(0)
    <3>1. \A t \in DOMAIN input : ~(t < 0)
      BY <1>2, TxnSourceAssumption DEF SourceInit
    <3> QED BY <1>2, <2>1, <3>1 DEF Rounds
  <2> QED BY <2>1, <2>2, <2>3 DEF Evenly
<1>5. AllDealt
  <2>1. IsFiniteSet(DOMAIN input)
    BY <1>1, SourceNumbers
  <2>2. \A t \in DOMAIN input : Lens[t] = 0
    BY <1>2 DEF Lens
  <2>3. \A f : IsSum(f, Lens, DOMAIN input) => f[DOMAIN input] = 0
    BY <2>1, <2>2, SumOfNone
  <2> QED BY <2>3 DEF AllDealt, SourceInit
<1> QED BY <1>1, <1>3, <1>4, <1>5 DEF SourceInv

\* Nothing is handed out.
LEMMA SourceQuiet ==
  ASSUME OwnBatches, wh' = wh, me' = me, cores' = cores, input' = input
  PROVE  /\ Lens' = Lens
         /\ \A t : Homes(t)' = Homes(t) /\ Given(t)' = Given(t)
         /\ \A t \in DOMAIN input : input'[t] \in Seq(Seq(Homes(t)')) /\ Given(t)' \in Seq(Homes(t)')
<1>1. \A t : Homes(t)' = Homes(t)
  BY DEF Homes, Mine
<1>2. \A t : Given(t)' = Given(t)
  BY DEF Given
<1>3. Lens' = Lens
  BY <1>2 DEF Lens
<1> QED BY <1>1, <1>2, <1>3 DEF OwnBatches

\* Batch b goes to thread c.
LEMMA SourcePush ==
  ASSUME OwnBatches, IsFiniteSet(DOMAIN input), wh' = wh, me' = me, cores' = cores, NEW c \in DOMAIN input,
         NEW b \in Seq(Homes(c)), input' = [input EXCEPT ![c] = Append(@, b)]
  PROVE  /\ \A t : Homes(t)' = Homes(t)
         /\ DOMAIN input' = DOMAIN input /\ input' = [t \in DOMAIN input' |-> input'[t]]
         /\ \A t \in DOMAIN input : input'[t] \in Seq(Seq(Homes(t)')) /\ Given(t)' \in Seq(Homes(t)')
         /\ \A t \in DOMAIN input : Len(Given(t)') = IF t = c THEN Len(Given(t)) + Len(b) ELSE Len(Given(t))
<1>1. \A t : Homes(t)' = Homes(t)
  BY DEF Homes, Mine
<1>2. DOMAIN input' = DOMAIN input /\ input' = [t \in DOMAIN input' |-> input'[t]]
      /\ input'[c] = Append(input[c], b) /\ \A t \in DOMAIN input \ {c} : input'[t] = input[t]
  BY DEF OwnBatches
<1>3. input[c] \in Seq(Seq(Homes(c))) /\ FlattenSeq(input[c]) \in Seq(Homes(c))
  BY DEF OwnBatches, Given
<1>4. FlattenSeq(Append(input[c], b)) = FlattenSeq(input[c]) \o b
  BY <1>3, FlattenAppend
<1>5. /\ input'[c] \in Seq(Seq(Homes(c))) /\ Given(c)' \in Seq(Homes(c))
      /\ Len(Given(c)') = Len(Given(c)) + Len(b)
  <2>1. Given(c)' = FlattenSeq(input[c]) \o b
    BY <1>2, <1>4 DEF Given
  <2>2. Append(input[c], b) \in Seq(Seq(Homes(c)))
    BY <1>3
  <2>3. /\ FlattenSeq(input[c]) \o b \in Seq(Homes(c))
        /\ Len(FlattenSeq(input[c]) \o b) = Len(FlattenSeq(input[c])) + Len(b)
    BY <1>3, ConcatProperties
  <2> QED BY <1>2, <2>1, <2>2, <2>3 DEF Given
<1>6. ASSUME NEW t \in DOMAIN input, t # c
      PROVE  input'[t] \in Seq(Seq(Homes(t))) /\ Given(t)' = Given(t) /\ Given(t) \in Seq(Homes(t))
  BY <1>2, <1>6 DEF OwnBatches, Given
<1> QED BY <1>1, <1>2, <1>5, <1>6

LEMMA Cancelled ==
  ASSUME NEW x \in Nat, NEW y \in Nat, NEW l \in Nat, NEW m \in Nat, NEW n \in Nat, x + l = y + (l + (m + n))
  PROVE  x = y + (m + n)
OBVIOUS

LEMMA Regrouped ==
  ASSUME NEW x, NEW y \in Nat, NEW m \in Nat, NEW n \in Nat, NEW z, x = y + (m + n), y + m = z
  PROVE  x + 0 = z + n
OBVIOUS

\* So the total grows by its length.
LEMMA SourceTotal ==
  ASSUME OwnBatches, AllDealt, IsFiniteSet(DOMAIN input), wh' = wh, me' = me, cores' = cores, NEW c \in DOMAIN input,
         NEW b \in Seq(Homes(c)), input' = [input EXCEPT ![c] = Append(@, b)], NEW n \in Nat, turn \in Nat,
         Len(b) = Len(tuples) + n, turn' = turn + n, Len(tuples') = 0, tuples \in Seq(Homes(tid))
  PROVE  AllDealt'
<1>1. DOMAIN input' = DOMAIN input
      /\ \A t \in DOMAIN input : Len(Given(t)') = IF t = c THEN Len(Given(t)) + Len(b) ELSE Len(Given(t))
  BY SourcePush
<1>2. \A t \in DOMAIN input : Lens'[t] = IF t = c THEN Lens[t] + Len(b) ELSE Lens[t]
  BY <1>1 DEF Lens
<1>3. Len(b) \in Nat /\ Len(tuples) \in Nat
  BY LenProperties
<1>4. Lens \in [DOMAIN input -> Nat]
  BY LensType
<1>5. Lens' \in [DOMAIN input -> Nat]
  <2>1. Lens' = [t \in DOMAIN input |-> Lens'[t]]
    BY <1>1 DEF Lens
  <2>2. ASSUME NEW t \in DOMAIN input PROVE Lens'[t] \in Nat
    <3>1. Lens[t] \in Nat /\ Lens[t] + Len(b) \in Nat
      BY <1>3, <1>4
    <3> QED BY <1>2, <3>1
  <2> QED BY <2>1, <2>2
<1>6. ASSUME NEW f, IsSum(f, Lens', DOMAIN input) PROVE f[DOMAIN input] + Len(tuples') = turn'
  <2>1. PICK e : IsSum(e, Lens, DOMAIN input)
    BY SumExists
  <2>2. f[DOMAIN input] + Lens[c] = e[DOMAIN input] + Lens'[c]
    <3>1. PICK D, g, h : D = DOMAIN input /\ g = Lens /\ h = Lens'
      OBVIOUS
    <3>2. IsFiniteSet(D) /\ c \in D /\ g \in [D -> Nat] /\ h \in [D -> Nat] /\ IsSum(e, g, D) /\ IsSum(f, h, D)
      BY <1>4, <1>5, <1>6, <2>1, <3>1
    <3>3. \A u \in D \ {c} : g[u] = h[u]
      BY <1>2, <3>1
    <3>4. f[D] + g[c] = e[D] + h[c]
      BY ONLY <3>2, <3>3, SumChanges, SMTT(30)
    <3> QED BY <3>1, <3>4
  <2>3. e[DOMAIN input] + Len(tuples) = turn
    BY <2>1 DEF AllDealt
  <2>4. f[DOMAIN input] \in Nat /\ e[DOMAIN input] \in Nat
    BY <1>4, <1>5, <1>6, <2>1, SumType
  <2>5. Lens'[c] = Lens[c] + Len(b) /\ Lens[c] \in Nat /\ n \in Nat
    BY <1>2, <1>4
  <2>6. f[DOMAIN input] = e[DOMAIN input] + (Len(tuples) + n)
    <3>1. f[DOMAIN input] + Lens[c] = e[DOMAIN input] + (Lens[c] + (Len(tuples) + n))
      BY <2>2, <2>5
    <3>2. PICK x, y, l, m : x = f[DOMAIN input] /\ y = e[DOMAIN input] /\ l = Lens[c] /\ m = Len(tuples)
      OBVIOUS
    <3>3. x \in Nat /\ y \in Nat /\ l \in Nat /\ m \in Nat /\ n \in Nat
      BY ONLY <1>3, <2>4, <2>5, <3>2
    <3>4. x + l = y + (l + (m + n))
      BY ONLY <3>1, <3>2
    <3>5. x = y + (m + n)
      BY ONLY <3>3, <3>4, Cancelled
    <3> QED BY ONLY <3>2, <3>5
  <2>7. f[DOMAIN input] + 0 = turn + n
    BY <1>3, <2>3, <2>4, <2>6, Regrouped
  <2> QED BY <2>7
<1> QED BY <1>1, <1>6 DEF AllDealt

\* A step that deals nothing.
LEMMA SourceIdle ==
  ASSUME SourceInv, SourceTyped', wh' = wh, me' = me, cores' = cores, input' = input, curr' = curr, tid' = tid,
         tuples' = tuples, turn' = turn, spc # "done" <=> spc' # "done"
  PROVE  SourceInv'
<1>1. OwnBatches /\ Evenly /\ AllDealt
  BY DEF SourceInv
<1>2. /\ Lens' = Lens
      /\ \A t : Homes(t)' = Homes(t) /\ Given(t)' = Given(t)
      /\ \A t \in DOMAIN input : input'[t] \in Seq(Seq(Homes(t)')) /\ Given(t)' \in Seq(Homes(t)')
  BY <1>1, SourceQuiet
<1>3. OwnBatches'
  <2>1. tuples' \in Seq(Homes(tid)')
    BY <1>1, <1>2 DEF OwnBatches
  <2>2. input' = [t \in DOMAIN input' |-> input'[t]]
    BY <1>1 DEF OwnBatches
  <2> QED BY <1>2, <2>1, <2>2 DEF OwnBatches
<1>4. Evenly'
  <2>1. \A q : Rounds(q) => Rounds(q)'
    BY <1>2 DEF Rounds
  <2> QED BY <1>1, <1>2, <2>1 DEF Evenly
<1>5. AllDealt'
  BY <1>1, <1>2 DEF AllDealt
<1> QED BY <1>3, <1>4, <1>5 DEF SourceInv

\* A transaction is added to the batch.
LEMMA SourceAdds ==
  ASSUME SourceInv, SourceTyped', spc = "generate", spc' = spc, wh' = wh, me' = me, cores' = cores, input' = input,
         curr' = curr, tid' = tid, NEW w \in Homes(tid), tuples' = Append(tuples, w), turn' = turn + 1,
         (turn + 1) % Batch # 0
  PROVE  SourceInv'
<1>1. OwnBatches /\ Evenly /\ AllDealt /\ SourceTyped
  BY DEF SourceInv
<1>2. /\ Lens' = Lens
      /\ \A t : Homes(t)' = Homes(t) /\ Given(t)' = Given(t)
      /\ \A t \in DOMAIN input : input'[t] \in Seq(Seq(Homes(t)')) /\ Given(t)' \in Seq(Homes(t)')
  BY <1>1, SourceQuiet
<1>3. tuples \in Seq(Homes(tid)) /\ tuples' \in Seq(Homes(tid)) /\ Len(tuples') = Len(tuples) + 1 /\ Len(tuples) \in Nat
  BY <1>1 DEF OwnBatches
<1>4. turn \in Nat /\ Batch \in Nat \ {0} /\ turn % Batch \in 0 .. Batch - 1
  BY <1>1, SourceNumbers
<1>5. OwnBatches'
  <2>1. tuples' \in Seq(Homes(tid)')
    BY <1>2, <1>3
  <2>2. input' = [t \in DOMAIN input' |-> input'[t]]
    BY <1>1 DEF OwnBatches
  <2> QED BY <1>2, <2>1, <2>2 DEF OwnBatches
<1>6. Evenly'
  <2>1. \A q : Rounds(q) => Rounds(q)'
    BY <1>2 DEF Rounds
  <2>2. Len(tuples') = turn' % Batch
    <3>1. (turn + 1) % Batch = IF (turn % Batch) + 1 = Batch THEN 0 ELSE (turn % Batch) + 1
      BY <1>4, NextModulo
    <3>2. Len(tuples) = turn % Batch
      BY <1>1 DEF Evenly
    <3>3. (turn + 1) % Batch = Len(tuples) + 1
      BY <3>1, <3>2
    <3> QED BY <1>3, <3>3
  <2> QED BY <1>1, <2>1, <2>2 DEF Evenly
<1>7. AllDealt'
  <2>1. ASSUME NEW f, IsSum(f, Lens', DOMAIN input') PROVE f[DOMAIN input'] + Len(tuples') = turn'
    <3>1. f[DOMAIN input] + Len(tuples) = turn
      BY <1>1, <1>2, <2>1 DEF AllDealt
    <3>2. f[DOMAIN input] \in Nat
      BY <1>1, <1>2, <2>1, LensType, SourceNumbers, SumType
    <3>3. f[DOMAIN input] + (Len(tuples) + 1) = turn + 1
      BY ONLY <1>3, <3>1, <3>2, Regrouped
    <3>4. DOMAIN input' = DOMAIN input
      OBVIOUS
    <3> QED BY <1>3, <3>3, <3>4
  <2> QED BY <2>1 DEF AllDealt
<1> QED BY <1>5, <1>6, <1>7 DEF SourceInv

\* A batch is full, and goes to the thread it is for.
LEMMA SourceFull ==
  ASSUME SourceInv, SourceTyped', spc = "generate", spc' = spc, wh' = wh, me' = me, cores' = cores,
         NEW w \in Homes(tid), NEW c, c = curr,
         input' = [input EXCEPT ![c] = Append(@, Append(tuples, w))], tuples' = <<>>,
         curr' = (curr + 1) % cores, tid' = (tid + 1) % cores, turn' = turn + 1, (turn + 1) % Batch = 0
  PROVE  SourceInv'
<1>1. OwnBatches /\ Evenly /\ AllDealt /\ SourceTyped
  BY DEF SourceInv
<1>2. /\ turn \in Nat /\ Batch \in Nat \ {0} /\ turn % Batch \in 0 .. Batch - 1 /\ cores \in Nat \ {0}
      /\ IsFiniteSet(DOMAIN input) /\ c \in 0 .. cores - 1 /\ c \in DOMAIN input /\ tid = c
  BY <1>1, SourceNumbers DEF SourceTyped, Evenly
<1> DEFINE b == Append(tuples, w)
<1>3. b \in Seq(Homes(c)) /\ Len(b) = Len(tuples) + 1 /\ Len(tuples) \in Nat
  <2>1. tuples \in Seq(Homes(c)) /\ w \in Homes(c)
    BY <1>1, <1>2 DEF OwnBatches
  <2> QED BY <2>1
<1>4. Len(b) = Batch
  <2>1. (turn + 1) % Batch = IF (turn % Batch) + 1 = Batch THEN 0 ELSE (turn % Batch) + 1
    BY <1>2, NextModulo
  <2>2. Len(tuples) = turn % Batch
    BY <1>1 DEF Evenly
  <2> QED BY <1>2, <1>3, <2>1, <2>2
<1>5. input' = [input EXCEPT ![c] = Append(@, b)]
  OBVIOUS
<1> HIDE DEF b
<1>6. /\ \A t : Homes(t)' = Homes(t)
      /\ DOMAIN input' = DOMAIN input /\ input' = [t \in DOMAIN input' |-> input'[t]]
      /\ \A t \in DOMAIN input : input'[t] \in Seq(Seq(Homes(t)')) /\ Given(t)' \in Seq(Homes(t)')
      /\ \A t \in DOMAIN input : Len(Given(t)') = IF t = c THEN Len(Given(t)) + Len(b) ELSE Len(Given(t))
  BY <1>1, <1>2, <1>3, <1>5, SourcePush, ZenonT(60)
<1>7. Len(tuples') = 0 /\ \A S : tuples' \in Seq(S)
  OBVIOUS
<1>8. OwnBatches'
  BY <1>6, <1>7 DEF OwnBatches
<1>9. curr' = IF c + 1 = cores THEN 0 ELSE c + 1
  BY <1>2, NextRound
<1>10. Evenly'
  <2>1. tid' = curr'
    BY <1>2
  <2>2. Len(tuples') = turn' % Batch
    BY <1>7
  <2>3. PICK q \in Nat : Rounds(q)
    BY <1>1 DEF Evenly
  <2>4. \A t \in DOMAIN input : t \in 0 .. cores - 1
    BY <1>1 DEF SourceTyped
  <2>5. c \in Nat /\ cores \in Nat /\ Batch \in Nat /\ q \in Nat
    BY <1>2
  <2>6. CASE c + 1 = cores
    <3>1. ASSUME NEW t \in DOMAIN input PROVE Len(Given(t)') = q + Batch
      <4>1. t \in 0 .. cores - 1
        BY <2>4
      <4>2. t < c \/ t = c
        BY ONLY <2>6, <2>5, <4>1
      <4>3. Len(Given(t)) = IF t < c THEN q + Batch ELSE q
        BY <2>3 DEF Rounds
      <4>4. Len(Given(t)') = IF t = c THEN Len(Given(t)) + Batch ELSE Len(Given(t))
        BY <1>4, <1>6
      <4>5. ~(c < c)
        BY <1>2
      <4> QED BY <4>2, <4>3, <4>4, <4>5
    <3>2. \A t \in DOMAIN input : ~(t < curr')
      BY <1>9, <2>4, <2>6
    <3>3. Rounds(q + Batch)'
      BY <1>6, <3>1, <3>2 DEF Rounds
    <3>4. q + Batch \in Nat
      BY ONLY <2>5
    <3> QED BY <2>1, <2>2, <3>3, <3>4 DEF Evenly
  <2>7. CASE c + 1 # cores
    <3>1. ASSUME NEW t \in DOMAIN input PROVE Len(Given(t)') = IF t < c + 1 THEN q + Batch ELSE q
      <4>1. t \in 0 .. cores - 1
        BY <2>4
      <4>2. Len(Given(t)) = IF t < c THEN q + Batch ELSE q
        BY <2>3 DEF Rounds
      <4>3. Len(Given(t)') = IF t = c THEN Len(Given(t)) + Batch ELSE Len(Given(t))
        BY <1>4, <1>6
      <4>4. t < c + 1 <=> t < c \/ t = c
        BY ONLY <2>5, <4>1
      <4>5. ~(c < c)
        BY <1>2
      <4> QED BY <4>2, <4>3, <4>4, <4>5
    <3>2. curr' = c + 1
      BY <1>9, <2>7
    <3>3. Rounds(q)'
      BY <1>6, <3>1, <3>2 DEF Rounds
    <3> QED BY <2>1, <2>2, <3>3 DEF Evenly
  <2> QED BY <2>6, <2>7
<1>11. AllDealt'
  <2>1. tuples \in Seq(Homes(tid)) /\ 1 \in Nat
    BY <1>1 DEF OwnBatches
  <2> QED BY <1>1, <1>2, <1>3, <1>5, <1>7, <2>1, SourceTotal
<1> QED BY <1>8, <1>10, <1>11 DEF SourceInv

\* The last batch.
LEMMA SourceLast ==
  ASSUME SourceInv, SourceTyped', spc = "generate", spc' = "done", wh' = wh, me' = me, cores' = cores,
         NEW c, c = curr, tuples # <<>>,
         input' = [input EXCEPT ![c] = Append(@, tuples)], tuples' = <<>>, tid' = tid, turn' = turn, turn = NumTxn
  PROVE  SourceInv'
<1>1. OwnBatches /\ Evenly /\ AllDealt /\ SourceTyped
  BY DEF SourceInv
<1>2. /\ turn \in Nat /\ Batch \in Nat \ {0} /\ turn % Batch \in 0 .. Batch - 1 /\ cores \in Nat \ {0}
      /\ IsFiniteSet(DOMAIN input) /\ c \in 0 .. cores - 1 /\ c \in DOMAIN input /\ tid = c
  BY <1>1, SourceNumbers DEF SourceTyped, Evenly
<1>3. tuples \in Seq(Homes(c)) /\ tuples \in Seq(Homes(tid))
  BY <1>1, <1>2 DEF OwnBatches
<1>4. Len(tuples) \in Nat /\ Len(tuples) < Batch
  <2>1. Len(tuples) = turn % Batch
    BY <1>1 DEF Evenly
  <2> QED BY <1>2, <2>1
<1> DEFINE b == tuples
<1>5. b \in Seq(Homes(c)) /\ input' = [input EXCEPT ![c] = Append(@, b)] /\ Len(b) = Len(tuples) + 0
  BY <1>3, <1>4
<1>6. /\ \A t : Homes(t)' = Homes(t)
      /\ DOMAIN input' = DOMAIN input /\ input' = [t \in DOMAIN input' |-> input'[t]]
      /\ \A t \in DOMAIN input : input'[t] \in Seq(Seq(Homes(t)')) /\ Given(t)' \in Seq(Homes(t)')
      /\ \A t \in DOMAIN input : Len(Given(t)') = IF t = c THEN Len(Given(t)) + Len(tuples) ELSE Len(Given(t))
  BY <1>1, <1>2, <1>3, SourcePush
<1>7. Len(tuples') = 0 /\ \A S : tuples' \in Seq(S)
  OBVIOUS
<1>8. OwnBatches'
  BY <1>6, <1>7 DEF OwnBatches
<1>9. Evenly'
  <2>1. PICK q \in Nat : Rounds(q)
    BY <1>1 DEF Evenly
  <2>2. ASSUME NEW t \in DOMAIN input PROVE Len(Given(t)') \in q .. q + Batch
    <3>1. Len(Given(t)) = IF t < c THEN q + Batch ELSE q
      BY <2>1 DEF Rounds
    <3>2. ~(c < c)
      BY <1>2
    <3>3. t = c => Len(Given(t)') = q + Len(tuples)
      BY <1>6, <3>1, <3>2
    <3>4. t # c => Len(Given(t)') \in {q, q + Batch}
      BY <1>6, <3>1
    <3>5. Len(Given(t)') \in {q, q + Batch, q + Len(tuples)}
      BY <3>3, <3>4
    <3>6. q \in Nat /\ Batch \in Nat
      BY <1>2
    <3> QED BY ONLY <1>4, <3>5, <3>6
  <2> QED BY <1>6, <2>2 DEF Evenly
<1>10. AllDealt'
  <2>1. turn' = turn + 0 /\ 0 \in Nat
    BY <1>2
  <2> HIDE DEF b
  <2> QED BY <1>1, <1>2, <1>3, <1>5, <1>7, <2>1, SourceTotal
<1> QED BY <1>8, <1>9, <1>10 DEF SourceInv

\* There is no last batch.
LEMMA SourceEnds ==
  ASSUME SourceInv, SourceTyped', spc = "generate", spc' = "done", wh' = wh, me' = me, cores' = cores,
         tuples = <<>>, input' = input, tuples' = <<>>, tid' = tid, curr' = curr, turn' = turn, turn = NumTxn
  PROVE  SourceInv'
<1>1. OwnBatches /\ Evenly /\ AllDealt /\ SourceTyped
  BY DEF SourceInv
<1>2. /\ Lens' = Lens
      /\ \A t : Homes(t)' = Homes(t) /\ Given(t)' = Given(t)
      /\ \A t \in DOMAIN input : input'[t] \in Seq(Seq(Homes(t)')) /\ Given(t)' \in Seq(Homes(t)')
  BY <1>1, SourceQuiet
<1>3. OwnBatches'
  <2>1. \A S : tuples' \in Seq(S)
    OBVIOUS
  <2>2. input' = [t \in DOMAIN input' |-> input'[t]]
    BY <1>1 DEF OwnBatches
  <2> QED BY <1>2, <2>1, <2>2 DEF OwnBatches
<1>4. Evenly'
  <2>1. PICK q \in Nat : Rounds(q)
    BY <1>1 DEF Evenly
  <2>2. Batch \in Nat \ {0}
    BY <1>1, SourceNumbers
  <2>3. \A t \in DOMAIN input : Len(Given(t)') \in q .. q + Batch
    BY <1>2, <2>1, <2>2 DEF Rounds
  <2> QED BY <2>3 DEF Evenly
<1>5. AllDealt'
  BY <1>1, <1>2 DEF AllDealt
<1> QED BY <1>3, <1>4, <1>5 DEF SourceInv

LEMMA SourceStep == ASSUME SourceInv, [SourceNext]_sourceVars PROVE SourceInv'
<1>1. SourceTyped /\ Evenly /\ OwnBatches
  BY DEF SourceInv
<1>2. /\ turn \in Nat /\ NumTxn \in Nat /\ cores \in Nat \ {0} /\ curr \in 0 .. cores - 1 /\ tid \in 0 .. cores - 1
      /\ curr \in DOMAIN input
  BY <1>1, SourceNumbers DEF SourceTyped
<1>3. CASE Fill
  <2>1. /\ wh' = wh /\ me' = me /\ cores' = cores /\ input' = input /\ curr' = curr /\ tid' = tid
        /\ tuples' = tuples /\ turn' = turn /\ spc # "done" /\ spc' \in {"generate", "assert"}
    BY <1>3 DEF Fill
  <2>2. SourceTyped'
    BY <1>1, <2>1 DEF SourceTyped
  <2> QED BY <2>1, <2>2, SourceIdle
<1>4. CASE UNCHANGED sourceVars
  <2>1. /\ wh' = wh /\ me' = me /\ cores' = cores /\ input' = input /\ curr' = curr /\ tid' = tid
        /\ tuples' = tuples /\ turn' = turn /\ spc' = spc
    BY <1>4 DEF sourceVars
  <2>2. SourceTyped'
    BY <1>1, <2>1 DEF SourceTyped
  <2> QED BY <2>1, <2>2, SourceIdle
<1>5. CASE Generate
  <2>1. PICK w \in Homes(tid) : PushBatch(Append(tuples, w), (turn + 1) % Batch = 0)
    BY <1>5 DEF Generate
  <2>2. /\ spc = "generate" /\ spc' = spc /\ turn < NumTxn /\ turn' = turn + 1
        /\ wh' = wh /\ me' = me /\ cores' = cores
    BY <1>5 DEF Generate
  <2>3. CASE (turn + 1) % Batch = 0
    <3>1. /\ input' = [input EXCEPT ![curr] = Append(@, Append(tuples, w))] /\ tuples' = <<>>
          /\ curr' = (curr + 1) % cores
      BY <2>1, <2>3 DEF PushBatch
    <3>2. tid' = (tid + 1) % cores
      BY <1>5, <2>3 DEF Generate, NextThread
    <3>3. SourceTyped'
      <4>1. curr' \in 0 .. cores - 1 /\ tid' \in 0 .. cores - 1
        BY <1>2, <3>1, <3>2, NextRound
      <4>2. DOMAIN input' = DOMAIN input
        BY <3>1
      <4>3. turn' \in 0 .. NumTxn
        BY <1>2, <2>2
      <4> QED BY <1>1, <2>2, <4>1, <4>2, <4>3 DEF SourceTyped
    <3> QED BY <2>2, <2>3, <3>1, <3>2, <3>3, SourceFull
  <2>4. CASE (turn + 1) % Batch # 0
    <3>1. input' = input /\ tuples' = Append(tuples, w) /\ curr' = curr
      BY <2>1, <2>4 DEF PushBatch
    <3>2. tid' = tid
      BY <1>5, <2>4 DEF Generate, NextThread
    <3>3. SourceTyped'
      <4>1. turn' \in 0 .. NumTxn
        BY <1>2, <2>2
      <4> QED BY <1>1, <2>2, <3>1, <3>2, <4>1 DEF SourceTyped
    <3> QED BY <2>2, <2>4, <3>1, <3>2, <3>3, SourceAdds
  <2> QED BY <2>3, <2>4
<1>6. CASE PushLast
  <2>1. /\ spc = "generate" /\ spc' = "done" /\ turn = NumTxn /\ turn' = turn /\ tid' = tid
        /\ wh' = wh /\ me' = me /\ cores' = cores /\ PushBatch(tuples, tuples # <<>>)
    BY <1>6 DEF PushLast
  <2>2. CASE tuples # <<>>
    <3>1. /\ input' = [input EXCEPT ![curr] = Append(@, tuples)] /\ tuples' = <<>>
          /\ curr' = (curr + 1) % cores
      BY <2>1, <2>2 DEF PushBatch
    <3>2. SourceTyped'
      <4>1. curr' \in 0 .. cores - 1
        BY <1>2, <3>1, NextRound
      <4>2. DOMAIN input' = DOMAIN input
        BY <3>1
      <4> QED BY <1>1, <2>1, <4>1, <4>2 DEF SourceTyped
    <3> QED BY <2>1, <2>2, <3>1, <3>2, SourceLast
  <2>3. CASE tuples = <<>>
    <3>1. input' = input /\ tuples' = <<>> /\ curr' = curr
      BY <2>1, <2>3 DEF PushBatch
    <3>2. SourceTyped'
      BY <1>1, <2>1, <3>1 DEF SourceTyped
    <3> QED BY <2>1, <2>3, <3>1, <3>2, SourceEnds
  <2> QED BY <2>2, <2>3
<1> QED BY <1>3, <1>4, <1>5, <1>6 DEF SourceNext

\* What the invariant says.
LEMMA SourceMeans == ASSUME SourceInv PROVE SourceTypeOK /\ Partitioned /\ OwnHomes /\ Dealt
<1>1. SourceTyped /\ OwnBatches /\ Evenly /\ AllDealt
  BY DEF SourceInv
<1>2. /\ wh \in Nat \ {0} /\ cores \in Nat \ {0} /\ Batch \in Nat \ {0} /\ turn % Batch \in 0 .. Batch - 1
      /\ IsFiniteSet(DOMAIN input) /\ turn \in Nat /\ NumTxn \in Nat
  BY <1>1, SourceNumbers
<1>3. SourceTypeOK
  <2>1. Len(tuples) <= Batch
    BY <1>1, <1>2 DEF Evenly
  <2> QED BY <1>1, <2>1 DEF SourceTyped, SourceTypeOK
<1>4. Partitioned
  BY <1>2, OneOwner
<1>5. \A t \in DOMAIN input : \A k \in DOMAIN Given(t) : Given(t)[k] \in Homes(t)
  <2>1. ASSUME NEW t \in DOMAIN input, NEW k \in DOMAIN Given(t) PROVE Given(t)[k] \in Homes(t)
    <3>1. Given(t) \in Seq(Homes(t))
      BY <1>1 DEF OwnBatches
    <3> QED BY <3>1
  <2> QED BY <2>1
<1>6. OwnHomes
  <2>1. ASSUME Cardinality(Mine) >= cores, NEW s \in DOMAIN input, NEW t \in DOMAIN input, s # t
        PROVE  ToSet(Given(s)) \cap ToSet(Given(t)) = {}
    <3>1. Homes(s) \cap Homes(t) = {}
      BY <2>1 DEF Homes
    <3>2. ToSet(Given(s)) \subseteq Homes(s) /\ ToSet(Given(t)) \subseteq Homes(t)
      BY <1>5 DEF ToSet
    <3> QED BY <3>1, <3>2
  <2> QED BY <1>5, <2>1 DEF OwnHomes
<1>7. Dealt
  <2>1. PICK f : IsSum(f, Lens, DOMAIN input) /\ Total = f[DOMAIN input]
    BY <1>2, TotalIs
  <2>2. Total \in Nat
    BY <1>1, <1>2, <2>1, LensType, SumType
  <2>3. Total + Len(tuples) = turn
    BY <1>1, <2>1 DEF AllDealt
  <2>4. spc = "done" => Total = NumTxn
    <3>1. spc = "done" => tuples = <<>> /\ turn = NumTxn
      BY <1>1 DEF Evenly
    <3> QED BY <2>2, <2>3, <3>1
  <2>5. ASSUME NEW s \in DOMAIN input, NEW t \in DOMAIN input PROVE Len(Given(s)) <= Len(Given(t)) + Batch
    <3>1. PICK q \in Nat : \A u \in DOMAIN input : Len(Given(u)) \in q .. q + Batch
      BY <1>1, <1>2 DEF Evenly, Rounds
    <3>2. Len(Given(s)) \in q .. q + Batch /\ Len(Given(t)) \in q .. q + Batch
      BY <3>1
    <3> QED BY <1>2, <3>2
  <2> QED BY <2>3, <2>4, <2>5 DEF Dealt
<1> QED BY <1>3, <1>4, <1>6, <1>7

------------------------------------------------------------------------------
(* Workload: an order that repeats items of the one before *)

\* The items before the loop variable are those of the new order, and the others are as
\* they were drawn.
Renewed ==
  /\ Len(ids) \in MinOl .. MaxOl /\ item \in 1 .. Len(ids) + 1
  /\ exist = {ids[j] : j \in 1 .. item - 1} /\ Cardinality(exist) = item - 1
  /\ \A i, j \in 1 .. item - 1 : ids[i] = ids[j] => i = j
  /\ \A i, j \in item .. Len(ids) : ids[i] = ids[j] => i = j
  /\ count \in 0 .. item - 1

\* The items of the new order, without those drawn so far, the set C, that the last order
\* has not.
Beyond(C) == exist \ (C \ last)

\* Items that came in otherwise than by being drawn themselves, and those of the last order,
\* have been counted.
CountsAll ==
  \E C \in SUBSET Item :
    /\ \A j \in item .. Len(ids) : ids[j] \notin C
    /\ Cardinality(Beyond(C)) <= count

LocalityInv ==
  /\ lpc \in {"idle", "modify"}
  /\ ids \in Seq(Item) /\ last \in SUBSET Item /\ exist \in SUBSET Item
  /\ Cardinality(last) \in {0} \cup MinOl .. MaxOl
  /\ lastPay \in Payment \cup {NoPayment}
  /\ lpc = "idle" => ids = <<>> /\ exist = {} /\ item = 0 /\ count = 0
  /\ lpc = "modify" => Renewed /\ CountsAll

LEMMA Within ==
  ASSUME NEW A, NEW D, IsFiniteSet(D), A \subseteq D
  PROVE  IsFiniteSet(A) /\ Cardinality(A) \in Nat /\ Cardinality(D) \in Nat /\ Cardinality(A) <= Cardinality(D)
BY FS_Subset, FS_CardinalityType

\* One element more.
LEMMA OneMore ==
  ASSUME NEW A, NEW D, NEW y, IsFiniteSet(D), A \subseteq D \cup {y}
  PROVE  IsFiniteSet(A) /\ Cardinality(A) \in Nat /\ Cardinality(A) <= Cardinality(D) + 1
<1>1. IsFiniteSet(D \cup {y}) /\ Cardinality(D \cup {y}) \in {Cardinality(D), Cardinality(D) + 1}
  BY FS_AddElement
<1>2. Cardinality(D) \in Nat
  BY FS_CardinalityType
<1>3. IsFiniteSet(A) /\ Cardinality(A) \in Nat /\ Cardinality(A) <= Cardinality(D \cup {y})
  BY <1>1, Within
<1> QED BY <1>1, <1>2, <1>3

\* One for another.
LEMMA OneForOne ==
  ASSUME NEW A, NEW D, NEW x \in D, NEW y, IsFiniteSet(D), A \subseteq (D \ {x}) \cup {y}
  PROVE  Cardinality(A) <= Cardinality(D)
<1>1. IsFiniteSet(D \ {x}) /\ Cardinality(D \ {x}) = Cardinality(D) - 1
  BY FS_RemoveElement
<1>2. Cardinality(D) \in Nat
  BY FS_CardinalityType
<1>3. Cardinality(A) \in Nat /\ Cardinality(A) <= Cardinality(D \ {x}) + 1
  BY <1>1, OneMore
<1> QED BY <1>1, <1>2, <1>3

\* The end of a turn.
LEMMA TurnEnds ==
  ASSUME LocalityInv, lpc = "modify", item <= Len(ids), NEW x \in Item, Taken(x), item' = item + 1,
         count' \in {count, count + 1}, last' = last, lpc' = lpc, lastPay' = lastPay,
         \/ count' = count + 1
         \/ count' = count /\ x = ids[item] /\ x \notin last
  PROVE  LocalityInv'
<1>1. /\ ids \in Seq(Item) /\ exist \in SUBSET Item /\ last \in SUBSET Item
      /\ Len(ids) \in MinOl .. MaxOl /\ item \in 1 .. Len(ids) + 1 /\ Len(ids) \in Nat
      /\ exist = {ids[j] : j \in 1 .. item - 1} /\ Cardinality(exist) = item - 1
      /\ \A i, j \in 1 .. item - 1 : ids[i] = ids[j] => i = j
      /\ \A i, j \in item .. Len(ids) : ids[i] = ids[j] => i = j
      /\ count \in 0 .. item - 1
      /\ MinOl \in Nat /\ MaxOl \in Nat
  BY LocalityAssumption DEF LocalityInv, Renewed
<1>2. PICK y \in Item : /\ y \in IF x \in exist THEN Item \ exist ELSE {x}
                        /\ ids' = [ids EXCEPT ![item] = y] /\ exist' = exist \cup {y}
  BY <1>1 DEF Taken
<1>3. y \notin exist
  BY <1>2
<1>4. item \in 1 .. Len(ids) /\ item \in Nat
  BY <1>1
<1>5. ids' \in Seq(Item) /\ Len(ids') = Len(ids)
      /\ ids'[item] = y /\ \A j \in 1 .. Len(ids) : j # item => ids'[j] = ids[j]
  BY <1>1, <1>2, <1>4
<1>6. IsFiniteSet(exist)
  BY <1>1, LocalityAssumption, FS_Subset
<1>7. Renewed'
  <2>1. exist' = {ids'[j] : j \in 1 .. item' - 1}
    <3>1. 1 .. item' - 1 = (1 .. item - 1) \cup {item}
      BY <1>4
    <3>2. \A j \in 1 .. item - 1 : ids'[j] = ids[j]
      BY <1>4, <1>5
    <3> QED BY <1>1, <1>2, <1>5, <3>1, <3>2
  <2>2. Cardinality(exist') = item' - 1
    <3>1. Cardinality(exist') = Cardinality(exist) + 1
      BY <1>2, <1>3, <1>6, FS_AddElement
    <3> QED BY <1>1, <1>4, <3>1
  <2>3. ASSUME NEW i \in 1 .. item' - 1, NEW j \in 1 .. item' - 1, ids'[i] = ids'[j] PROVE i = j
    <3>1. \A k \in 1 .. item - 1 : ids'[k] = ids[k] /\ ids[k] \in exist
      BY <1>1, <1>4, <1>5
    <3>2. (i = item \/ i \in 1 .. item - 1) /\ (j = item \/ j \in 1 .. item - 1)
      BY <1>4
    <3> QED BY <1>1, <1>3, <1>5, <2>3, <3>1, <3>2
  <2>4. ASSUME NEW i \in item' .. Len(ids'), NEW j \in item' .. Len(ids'), ids'[i] = ids'[j] PROVE i = j
    <3>1. i \in item .. Len(ids) /\ j \in item .. Len(ids) /\ i # item /\ j # item
      BY <1>4, <1>5
    <3>2. ids'[i] = ids[i] /\ ids'[j] = ids[j]
      BY <1>4, <1>5, <3>1
    <3> QED BY <1>1, <2>4, <3>1, <3>2
  <2>5. item' \in 1 .. Len(ids') + 1 /\ count' \in 0 .. item' - 1
    BY <1>1, <1>4, <1>5
  <2> QED BY <1>1, <1>5, <2>1, <2>2, <2>3, <2>4, <2>5 DEF Renewed
<1>8. CountsAll'
  <2>1. PICK C \in SUBSET Item : /\ \A j \in item .. Len(ids) : ids[j] \notin C
                                 /\ Cardinality(Beyond(C)) <= count
    BY DEF LocalityInv, CountsAll
  <2>2. PICK z \in Item : z = ids[item]
    BY <1>1, <1>4
  <2>3. PICK D \in SUBSET Item : D = C \cup {z}
    BY <2>2
  <2>4. z \notin C
    BY <1>4, <2>1, <2>2
  <2>5. ASSUME NEW j \in item' .. Len(ids') PROVE ids'[j] \notin D
    <3>1. j \in item .. Len(ids) /\ j # item /\ item \in item .. Len(ids)
      BY <1>4, <1>5
    <3>2. ids'[j] = ids[j] /\ ids[j] # z
      BY <1>1, <1>4, <1>5, <2>2, <3>1
    <3> QED BY <2>1, <2>3, <3>1, <3>2
  <2>6. IsFiniteSet(Beyond(C)) /\ Cardinality(Beyond(C)) \in Nat
    BY <1>6, FS_Subset, FS_CardinalityType DEF Beyond
  <2>7. Beyond(D)' = exist' \ (D \ last)
    BY DEF Beyond
  <2>8. Cardinality(Beyond(D)') <= count'
    <3>1. CASE count' = count + 1
      <4>1. Beyond(D)' \subseteq Beyond(C) \cup {y}
        BY <1>2, <2>3, <2>4, <2>7 DEF Beyond
      <4>2. Cardinality(Beyond(D)') \in Nat /\ Cardinality(Beyond(D)') <= Cardinality(Beyond(C)) + 1
        BY <2>6, <4>1, OneMore
      <4> QED BY <1>1, <1>4, <2>1, <2>6, <3>1, <4>2
    <3>2. CASE count' = count /\ x = z /\ x \notin last /\ x \notin exist
      <4>1. Beyond(D)' \subseteq Beyond(C)
        BY <1>2, <2>3, <2>7, <3>2 DEF Beyond
      <4>2. Cardinality(Beyond(D)') \in Nat /\ Cardinality(Beyond(D)') <= Cardinality(Beyond(C))
        BY <2>6, <4>1, Within
      <4> QED BY <1>1, <1>4, <2>1, <2>6, <3>2, <4>2
    <3>3. CASE count' = count /\ x = z /\ x \notin last /\ x \in exist
      <4>1. x \in Beyond(C)
        BY <2>4, <3>3 DEF Beyond
      <4>2. Beyond(D)' \subseteq (Beyond(C) \ {x}) \cup {y}
        BY <1>2, <2>3, <2>7, <3>3 DEF Beyond
      <4>3. IsFiniteSet(Beyond(C)) /\ Cardinality(Beyond(D)') <= Cardinality(Beyond(C))
        BY <2>6, <4>1, <4>2, OneForOne
      <4>4. Cardinality(Beyond(D)') \in Nat
        BY <2>6, <4>2, OneMore
      <4> QED BY <1>1, <1>4, <2>1, <2>6, <3>3, <4>3, <4>4
    <3> QED BY <2>2, <3>1, <3>2, <3>3
  <2> QED BY <2>5, <2>8 DEF CountsAll
<1>9. /\ ids' \in Seq(Item) /\ exist' \in SUBSET Item
  BY <1>1, <1>2, <1>5
<1> QED BY <1>7, <1>8, <1>9 DEF LocalityInv

LEMMA LocalityInitInv == ASSUME LocalityInit PROVE LocalityInv
<1>1. /\ lpc = "idle" /\ last = {} /\ exist = {} /\ ids = <<>> /\ item = 0 /\ count = 0 /\ lastPay = NoPayment
  BY DEF LocalityInit
<1>2. Cardinality(last) = 0
  BY <1>1, FS_EmptySet
<1> QED BY <1>1, <1>2 DEF LocalityInv

LEMMA LocalityStep == ASSUME LocalityInv, [LocalityNext]_localityVars PROVE LocalityInv'
<1>1. /\ ids \in Seq(Item) /\ last \in SUBSET Item /\ exist \in SUBSET Item
      /\ MinOl \in Nat \ {0} /\ MaxOl \in Nat /\ IsFiniteSet(Item)
  BY LocalityAssumption DEF LocalityInv
<1>2. CASE Order
  <2>1. PICK k \in MinOl .. MaxOl : \E s \in [1 .. k -> Item] : IsInjective(s) /\ ids' = s
    BY <1>2 DEF Order
  <2>2. PICK s \in [1 .. k -> Item] : IsInjective(s) /\ ids' = s
    BY <2>1
  <2>3. /\ lpc' = "modify" /\ item' = 1 /\ exist' = {} /\ count' = 0 /\ last' = last /\ lastPay' = lastPay
    BY <1>2 DEF Order
  <2>4. k \in Nat /\ k >= 1
    BY <1>1
  <2>5. s \in Seq(Item) /\ Len(s) = k
    BY <2>4
  <2>6. Renewed'
    <3>1. Cardinality(exist') = item' - 1 /\ item' \in 1 .. Len(ids') + 1 /\ count' \in 0 .. item' - 1
      BY <2>2, <2>3, <2>4, <2>5, FS_EmptySet
    <3>2. exist' = {ids'[j] : j \in 1 .. item' - 1} /\ \A i, j \in 1 .. item' - 1 : ids'[i] = ids'[j] => i = j
      BY <2>3
    <3>3. \A i, j \in item' .. Len(ids') : ids'[i] = ids'[j] => i = j
      BY <2>2, <2>3, <2>5 DEF IsInjective
    <3> QED BY <2>2, <2>5, <3>1, <3>2, <3>3 DEF Renewed
  <2>7. CountsAll'
    <3>1. Cardinality(Beyond({})') <= count'
      <4>1. Beyond({})' = {}
        BY <2>3 DEF Beyond
      <4> QED BY <2>3, <4>1, FS_EmptySet
    <3> QED BY <3>1 DEF CountsAll
  <2> QED BY <1>1, <2>2, <2>3, <2>5, <2>6, <2>7 DEF LocalityInv
<1>3. CASE Repeat
  <2>1. PICK x \in last \ exist : Taken(x)
    BY <1>3 DEF Repeat
  <2> QED BY <1>1, <1>3, <2>1, TurnEnds DEF Repeat
<1>4. CASE Keep
  <2>1. PICK x \in Item : x = ids[item] /\ Taken(x)
    BY <1>1, <1>4 DEF Keep, LocalityInv, Renewed
  <2>2. IF x \in last THEN count' = count + 1 ELSE count' = count
    BY <1>4, <2>1 DEF Keep, CountOf
  <2> QED BY <1>4, <2>1, <2>2, TurnEnds DEF Keep
<1>5. CASE EndOrder
  <2>1. /\ lpc = "modify" /\ item > Len(ids) /\ last' = exist /\ lpc' = "idle" /\ ids' = <<>> /\ exist' = {}
        /\ item' = 0 /\ count' = 0 /\ lastPay' = lastPay
    BY <1>5 DEF EndOrder
  <2>2. Len(ids) \in Nat /\ Len(ids) \in MinOl .. MaxOl /\ item \in 1 .. Len(ids) + 1 /\ Cardinality(exist) = item - 1
    BY <1>1, <2>1 DEF LocalityInv, Renewed
  <2>3. Cardinality(exist) \in MinOl .. MaxOl
    BY <1>1, <2>1, <2>2
  <2>4. ids' \in Seq(Item)
    BY <2>1
  <2> QED BY <1>1, <2>1, <2>3, <2>4 DEF LocalityInv
<1>6. CASE Pay
  <2>1. PICK p \in Payment : lastPay' = p
    BY <1>6 DEF Pay
  <2>2. lpc = "idle" /\ lpc' = lpc /\ last' = last /\ ids' = ids /\ item' = item /\ exist' = exist /\ count' = count
    BY <1>6 DEF Pay
  <2> QED BY <2>1, <2>2 DEF LocalityInv
<1>7. CASE UNCHANGED localityVars
  <2>1. /\ lpc' = lpc /\ last' = last /\ ids' = ids /\ item' = item /\ exist' = exist /\ count' = count
        /\ lastPay' = lastPay
    BY <1>7 DEF localityVars
  <2>2. Renewed' = Renewed /\ CountsAll' = CountsAll
    BY <2>1 DEF Renewed, CountsAll, Beyond
  <2> QED BY <2>1, <2>2 DEF LocalityInv
<1> QED BY <1>2, <1>3, <1>4, <1>5, <1>6, <1>7 DEF LocalityNext

\* What the invariant says.
LEMMA LocalityMeans == ASSUME LocalityInv PROVE LocalityTypeOK /\ PickEnds /\ Distinct
<1>1. /\ ids \in Seq(Item) /\ last \in SUBSET Item /\ exist \in SUBSET Item /\ Len(ids) \in Nat
      /\ MinOl \in Nat \ {0} /\ MaxOl \in Nat /\ IsFiniteSet(Item)
  BY LocalityAssumption DEF LocalityInv
<1>2. CASE lpc = "idle"
  <2>1. ids = <<>> /\ exist = {} /\ item = 0 /\ count = 0
    BY <1>2 DEF LocalityInv
  <2>2. LocalityTypeOK
    <3>1. ToSet(ids) = {} /\ Len(ids) = 0
      BY <2>1 DEF ToSet
    <3>2. Len(ids) \in 0 .. MaxOl /\ item \in 0 .. Len(ids) + 1 /\ count \in 0 .. Len(ids)
      BY <1>1, <2>1, <3>1
    <3> QED BY <3>1, <3>2 DEF LocalityInv, LocalityTypeOK
  <2> QED BY <1>2, <2>2 DEF PickEnds, Distinct
<1>3. CASE lpc = "modify"
  <2>1. Renewed /\ CountsAll
    BY <1>3 DEF LocalityInv
  <2>2. /\ Len(ids) \in MinOl .. MaxOl /\ item \in 1 .. Len(ids) + 1 /\ count \in 0 .. item - 1
        /\ \A i, j \in 1 .. item - 1 : ids[i] = ids[j] => i = j
    BY <2>1 DEF Renewed
  <2>3. LocalityTypeOK
    <3>1. Len(ids) \in 0 .. MaxOl /\ item \in 0 .. Len(ids) + 1 /\ count \in 0 .. Len(ids)
      BY <1>1, <2>2
    <3>2. ToSet(ids) \subseteq Item
      BY <1>1 DEF ToSet
    <3> QED BY <3>1, <3>2 DEF LocalityInv, LocalityTypeOK
  <2>4. PickEnds
    <3>1. SUFFICES ASSUME Wants, last \subseteq exist PROVE FALSE
      BY DEF PickEnds
    <3>2. PICK C \in SUBSET Item : Cardinality(Beyond(C)) <= count
      BY <2>1 DEF CountsAll
    <3>3. last \subseteq Beyond(C) /\ IsFiniteSet(Beyond(C))
      BY <1>1, <3>1, FS_Subset DEF Beyond
    <3>4. Cardinality(last) \in Nat /\ Cardinality(Beyond(C)) \in Nat /\ Cardinality(last) <= Cardinality(Beyond(C))
      BY <3>3, Within
    <3>5. Cardinality(last) > count
      BY <3>1 DEF Wants
    <3>6. count \in Nat
      BY <1>1, <2>2
    <3> QED BY <3>2, <3>4, <3>5, <3>6
  <2>5. Distinct
    <3>1. SUFFICES ASSUME item > Len(ids) PROVE IsInjective(ids)
      BY DEF Distinct
    <3>2. 1 .. item - 1 = DOMAIN ids
      BY <1>1, <2>2, <3>1
    <3> QED BY <2>2, <3>2 DEF IsInjective
  <2> QED BY <2>3, <2>4, <2>5
<1> QED BY <1>2, <1>3 DEF LocalityInv

\* Every transaction that is asked for reaches one thread, which gets those of its own home
\* warehouses and at most a batch more than another; every warehouse has one node; and the
\* search for an item of the last order ends with an order that has no item twice.
THEOREM WorkIsDealt == SourceSpec /\ LocalitySpec => []WorkDealt
<1>1. SourceInit => SourceInv
  BY SourceInitInv
<1>2. SourceInv /\ [SourceNext]_sourceVars => SourceInv'
  BY SourceStep
<1>3. LocalityInit => LocalityInv
  BY LocalityInitInv
<1>4. LocalityInv /\ [LocalityNext]_localityVars => LocalityInv'
  BY LocalityStep
<1>5. SourceInv /\ LocalityInv => WorkDealt
  BY SourceMeans, LocalityMeans DEF WorkDealt
<1> QED BY <1>1, <1>2, <1>3, <1>4, <1>5, PTL DEF SourceSpec, LocalitySpec

------------------------------------------------------------------------------
(* Tpcc: the records and the parameters of the procedures *)

RO == "READ_ONLY"
RW == "READ_WRITE"

WareRec(w) == <<"WAREHOUSE", w>>
DistRec(w, d) == <<"DISTRICT", w, d>>
NextRec(w, d) == <<"DISTRICT_NEW_ORDER", w, d>>
NewRec(w, d, o) == <<"NEW_ORDER", w, d, o>>
OrderRec(w, d, o) == <<"ORDER", w, d, o>>
CustRec(w, d, c) == <<"CUSTOMER", w, d, c>>

\* The records of the populator.
LEMMA RecordsAre ==
  /\ \A w \in Ware : WareRec(w) \in Records
  /\ \A w \in Ware, d \in Dist : DistRec(w, d) \in Records /\ NextRec(w, d) \in Records
  /\ \A w \in Ware, i \in Goods : <<"ITEM", w, i>> \in Records /\ <<"STOCK", w, i>> \in Records
  /\ \A w \in Ware, d \in Dist : \A c \in 1 .. Cust : OrderRec(w, d, c) \in Records /\ CustRec(w, d, c) \in Records
<1>1. \A w \in Ware : WareRec(w) \in Records
  BY DEF Records, WareRec
<1>2. \A w \in Ware, d \in Dist : DistRec(w, d) \in Records /\ NextRec(w, d) \in Records
  BY DEF Records, DistRec, NextRec, DistrictRecords
<1>3. \A w \in Ware, i \in Goods : <<"ITEM", w, i>> \in Records /\ <<"STOCK", w, i>> \in Records
  BY DEF Records
<1>4. \A w \in Ware, d \in Dist : \A c \in 1 .. Cust : OrderRec(w, d, c) \in Records /\ CustRec(w, d, c) \in Records
  BY DEF Records, OrderRec, CustRec, OrderRecords
<1> QED BY <1>1, <1>2, <1>3, <1>4

LEMMA NewRecords ==
  ASSUME NEW w \in Ware, NEW d \in Dist, NEW o
  PROVE  NewRec(w, d, o) \in Records <=> o \in FirstNew .. Cust
<1>1. ASSUME NewRec(w, d, o) \in Records PROVE o \in FirstNew .. Cust
  BY <1>1 DEF Records, NewRec, DistrictRecords, OrderRecords
<1>2. ASSUME o \in FirstNew .. Cust PROVE NewRec(w, d, o) \in Records
  BY <1>2 DEF Records, NewRec
<1> QED BY <1>1, <1>2

\* Records of different kinds are different, and so are those with different numbers.
LEMMA KindsApart ==
  ASSUME NEW w, NEW d, NEW o, NEW v, NEW e, NEW q
  PROVE  /\ WareRec(w)[1] = "WAREHOUSE" /\ DistRec(w, d)[1] = "DISTRICT" /\ NextRec(w, d)[1] = "DISTRICT_NEW_ORDER"
         /\ NewRec(w, d, o)[1] = "NEW_ORDER" /\ OrderRec(w, d, o)[1] = "ORDER" /\ CustRec(w, d, o)[1] = "CUSTOMER"
         /\ <<"ITEM", w, d>>[1] = "ITEM" /\ <<"STOCK", w, d>>[1] = "STOCK"
         /\ WareRec(w) = WareRec(v) => w = v
         /\ DistRec(w, d) = DistRec(v, e) => w = v /\ d = e
         /\ NextRec(w, d) = NextRec(v, e) => w = v /\ d = e
         /\ OrderRec(w, d, o) = OrderRec(v, e, q) => w = v /\ d = e /\ o = q
         /\ NextRec(w, d)[2] = w /\ NextRec(w, d)[3] = d /\ NewRec(w, d, o)[2] = w /\ NewRec(w, d, o)[3] = d
         /\ OrderRec(w, d, o)[4] = o
BY DEF WareRec, DistRec, NextRec, NewRec, OrderRec, CustRec

LEMMA ParamsAre ==
  ASSUME NEW p \in Params
  PROVE  /\ p.w \in Ware
         /\ \/ /\ p.proc = "NEW_ORDER" /\ p.d \in Dist /\ p.c \in 1 .. Cust
               /\ Len(p.lines) \in Nat /\ p.lines \in [1 .. Len(p.lines) -> Goods \X Ware \X {RO, RW}]
               /\ p.da \in {RO, RW}
            \/ /\ p.proc = "PAYMENT" /\ p.d \in Dist /\ p.cw \in Ware /\ p.cd \in Dist /\ p.c \in 1 .. Cust
               /\ p.wa \in {RO, RW} /\ p.da \in {RO, RW} /\ p.ca \in {RO, RW}
            \/ p.proc = "DELIVERY"
<1>1. \A x : AccessType(x) \subseteq {RO, RW}
  BY DEF AccessType, RO, RW
<1>2. CASE \E w \in Ware, d \in Dist, c \in 1 .. Cust, l \in OrderLines, da \in AccessType("DISTRICT") :
             p = [proc |-> "NEW_ORDER", w |-> w, d |-> d, c |-> c, lines |-> l, da |-> da]
  <2>1. PICK w \in Ware, d \in Dist, c \in 1 .. Cust, l \in OrderLines, da \in AccessType("DISTRICT") :
             p = [proc |-> "NEW_ORDER", w |-> w, d |-> d, c |-> c, lines |-> l, da |-> da]
    BY <1>2
  <2>2. PICK k \in 1 .. Lines : l \in [1 .. k -> Goods \X Ware \X AccessType("STOCK")]
    BY DEF OrderLines
  <2>3. Len(l) = k /\ k \in Nat
    BY <2>2, TpccAssumption
  <2>4. l \in [1 .. k -> Goods \X Ware \X {RO, RW}] /\ da \in {RO, RW}
    BY <1>1, <2>2
  <2>5. p.lines = l /\ p.w = w /\ p.d = d /\ p.c = c /\ p.da = da /\ p.proc = "NEW_ORDER"
    BY <2>1
  <2> QED BY <2>3, <2>4, <2>5
<1>3. CASE \E w \in Ware, d \in Dist, x \in Ware \X Dist, c \in 1 .. Cust,
             y \in AccessType("WAREHOUSE") \X AccessType("DISTRICT") \X AccessType("CUSTOMER") :
             p = [proc |-> "PAYMENT", w |-> w, d |-> d, cw |-> x[1], cd |-> x[2], c |-> c,
                  wa |-> y[1], da |-> y[2], ca |-> y[3]]
  <2>1. PICK w \in Ware, d \in Dist, x \in Ware \X Dist, c \in 1 .. Cust,
             y \in AccessType("WAREHOUSE") \X AccessType("DISTRICT") \X AccessType("CUSTOMER") :
             p = [proc |-> "PAYMENT", w |-> w, d |-> d, cw |-> x[1], cd |-> x[2], c |-> c,
                  wa |-> y[1], da |-> y[2], ca |-> y[3]]
    BY <1>3
  <2>2. y[1] \in {RO, RW} /\ y[2] \in {RO, RW} /\ y[3] \in {RO, RW}
    BY <1>1
  <2> QED BY <2>1, <2>2
<1>4. CASE \E w \in Ware : p = [proc |-> "DELIVERY", w |-> w]
  BY <1>4
<1>5. \/ \E w \in Ware, d \in Dist, c \in 1 .. Cust, l \in OrderLines, da \in AccessType("DISTRICT") :
           p = [proc |-> "NEW_ORDER", w |-> w, d |-> d, c |-> c, lines |-> l, da |-> da]
      \/ \E w \in Ware, d \in Dist, x \in Ware \X Dist, c \in 1 .. Cust,
            y \in AccessType("WAREHOUSE") \X AccessType("DISTRICT") \X AccessType("CUSTOMER") :
           p = [proc |-> "PAYMENT", w |-> w, d |-> d, cw |-> x[1], cd |-> x[2], c |-> c,
                wa |-> y[1], da |-> y[2], ca |-> y[3]]
      \/ \E w \in Ware : p = [proc |-> "DELIVERY", w |-> w]
  BY DEF Params
<1> QED BY <1>2, <1>3, <1>4, <1>5

------------------------------------------------------------------------------
(* Where a procedure is *)

\* Where a procedure with the parameters p is, at its query i: the access list l, what it
\* holds of the table T to write, and the orders o it is to deliver.
PaymentOK(p, i, l, T) ==
  /\ i \in 1 .. 4
  /\ \A r \in DOMAIN l :
       /\ r \in {WareRec(p.w), DistRec(p.w, p.d), CustRec(p.cw, p.cd, p.c)}
       /\ l[r].copy = Updated("PAYMENT", r, T[r])
       /\ r = WareRec(p.w) => l[r].type = p.wa
       /\ r = DistRec(p.w, p.d) => l[r].type = p.da
  /\ i > 1 => WareRec(p.w) \in DOMAIN l
  /\ i > 2 => DistRec(p.w, p.d) \in DOMAIN l

NewOrderOK(p, i, l, T) ==
  /\ i \in Nat \ {0}
  /\ \A r \in DOMAIN l :
       /\ r[1] \in {"ITEM", "STOCK", "WAREHOUSE", "DISTRICT", "CUSTOMER"}
       /\ r[1] \in {"ITEM", "WAREHOUSE"} => l[r].type = RO
       /\ r[1] = "DISTRICT" => /\ r = DistRec(p.w, p.d)
                               /\ l[r] = [type |-> p.da, copy |-> Updated("NEW_ORDER", r, T[r])]
  /\ i > 2 * Len(p.lines) + 2 => DistRec(p.w, p.d) \in DOMAIN l

\* District d of a delivery: its first new order is read, then looked for, then found and
\* counted, or found missing; the order is locked in the second loop.
CounterOK(p, i, l, o, T, d) ==
  /\ i = 2 * d => /\ NextRec(p.w, d) \in DOMAIN l
                  /\ l[NextRec(p.w, d)] = [type |-> RW, copy |-> T[NextRec(p.w, d)]]
                  /\ o[d] = T[NextRec(p.w, d)]
  /\ i > 2 * d => /\ NextRec(p.w, d) \in DOMAIN l
                  /\ \/ /\ o[d] = T[NextRec(p.w, d)] /\ o[d] \in FirstNew .. Cust
                        /\ l[NextRec(p.w, d)] = [type |-> RW, copy |-> o[d] + 1]
                     \/ /\ o[d] = 0 /\ T[NextRec(p.w, d)] \notin FirstNew .. Cust
                        /\ l[NextRec(p.w, d)] = [type |-> RW, copy |-> 1]
  /\ i > 2 * DistNum + d /\ o[d] # 0 => OrderRec(p.w, d, o[d]) \in DOMAIN l

DeliveryOK(p, i, l, o, T) ==
  /\ i \in 1 .. 4 * DistNum + 1
  /\ \A r \in DOMAIN l :
       /\ r[1] \in {"DISTRICT_NEW_ORDER", "NEW_ORDER", "ORDER", "CUSTOMER"}
       /\ r[1] = "NEW_ORDER" => l[r].type = RO
       /\ r[1] = "DISTRICT_NEW_ORDER" => \E d \in Dist : r = NextRec(p.w, d)
       /\ r[1] = "ORDER" =>
            /\ \E d \in Dist : i > 2 * DistNum + d /\ o[d] # 0 /\ r = OrderRec(p.w, d, o[d])
            /\ l[r] = [type |-> RW, copy |-> Updated("DELIVERY", r, T[r])]
  /\ \A d \in Dist : CounterOK(p, i, l, o, T, d)

ProcOK(p, i, l, o, T) ==
  /\ p.proc = "PAYMENT" => PaymentOK(p, i, l, T)
  /\ p.proc = "NEW_ORDER" => NewOrderOK(p, i, l, T)
  /\ p.proc = "DELIVERY" => DeliveryOK(p, i, l, o, T)

TableOK(T) ==
  /\ \A w \in Ware : T[WareRec(w)] \in Nat
  /\ \A w \in Ware, d \in Dist :
       /\ T[DistRec(w, d)] \in [ytd : Nat, next : Nat] /\ T[DistRec(w, d)].next > Cust
       /\ T[NextRec(w, d)] \in {1} \cup FirstNew .. Cust + 1
       /\ \A o \in 1 .. Cust : T[OrderRec(w, d, o)] \in [customer : {o}, carrier : BOOLEAN]

\* The access list after SearchRecord.
Locking(l, r, y, v) == [x \in DOMAIN l \cup {r} |-> IF x = r THEN [type |-> y, copy |-> v] ELSE l[x]]

\* A procedure does not notice what happens to records that it does not hold.
LEMMA ProcFrame ==
  ASSUME NEW p, NEW i, NEW l, NEW o, NEW T, NEW U, ProcOK(p, i, l, o, T), \A r \in DOMAIN l : U[r] = T[r]
  PROVE  ProcOK(p, i, l, o, U)
<1>1. ASSUME PaymentOK(p, i, l, T) PROVE PaymentOK(p, i, l, U)
  BY <1>1 DEF PaymentOK
<1>2. ASSUME NewOrderOK(p, i, l, T) PROVE NewOrderOK(p, i, l, U)
  BY <1>2 DEF NewOrderOK
<1>3. ASSUME DeliveryOK(p, i, l, o, T) PROVE DeliveryOK(p, i, l, o, U)
  <2>1. ASSUME NEW d \in Dist PROVE CounterOK(p, i, l, o, U, d)
    <3>1. CounterOK(p, i, l, o, T, d)
      BY <1>3 DEF DeliveryOK
    <3>2. NextRec(p.w, d) \in DOMAIN l => U[NextRec(p.w, d)] = T[NextRec(p.w, d)]
      OBVIOUS
    <3> QED BY <3>1, <3>2 DEF CounterOK
  <2> QED BY <1>3, <2>1 DEF DeliveryOK
<1> QED BY <1>1, <1>2, <1>3 DEF ProcOK

\* A procedure begins.
LEMMA ProcBegins ==
  ASSUME NEW p \in Params, NEW l, DOMAIN l = {}, NEW o, NEW T
  PROVE  ProcOK(p, 1, l, o, T)
<1>1. PaymentOK(p, 1, l, T)
  BY DEF PaymentOK
<1>2. ASSUME p.proc = "NEW_ORDER" PROVE NewOrderOK(p, 1, l, T)
  <2>1. Len(p.lines) \in Nat
    BY <1>2, ParamsAre
  <2> QED BY <2>1 DEF NewOrderOK
<1>3. DeliveryOK(p, 1, l, o, T)
  <2>1. DistNum \in Nat /\ \A d \in Dist : d \in Nat /\ d >= 1
    BY TpccAssumption, FS_CardinalityType DEF DistNum
  <2>2. ASSUME NEW d \in Dist PROVE CounterOK(p, 1, l, o, T, d)
    <3>1. ~(1 = 2 * d) /\ ~(1 > 2 * d) /\ ~(1 > 2 * DistNum + d)
      BY <2>1
    <3> QED BY <3>1 DEF CounterOK
  <2> QED BY <2>1, <2>2 DEF DeliveryOK
<1> QED BY <1>1, <1>2, <1>3 DEF ProcOK

------------------------------------------------------------------------------
(* The queries *)

LEMMA PaymentSteps ==
  ASSUME NEW p \in Params, p.proc = "PAYMENT", NEW i, NEW l, NEW T, PaymentOK(p, i, l, T),
         NEW q, q = PaymentQuery(p, i), q # NoQuery
  PROVE  /\ q.rec \in Records /\ q.type \in {RO, RW} /\ q.rec[1] \in {"WAREHOUSE", "DISTRICT", "CUSTOMER"}
         /\ PaymentOK(p, i + 1, Locking(l, q.rec, q.type, Updated("PAYMENT", q.rec, T[q.rec])), T)
<1>1. i \in 1 .. 3
  BY DEF PaymentOK, PaymentQuery
<1>2. /\ p.w \in Ware /\ p.d \in Dist /\ p.cw \in Ware /\ p.cd \in Dist /\ p.c \in 1 .. Cust
      /\ p.wa \in {RO, RW} /\ p.da \in {RO, RW} /\ p.ca \in {RO, RW}
  BY ParamsAre
<1> DEFINE r == q.rec
           y == q.type
           m == Locking(l, r, y, Updated("PAYMENT", r, T[r]))
<1>3. /\ i = 1 => r = WareRec(p.w) /\ y = p.wa
      /\ i = 2 => r = DistRec(p.w, p.d) /\ y = p.da
      /\ i = 3 => r = CustRec(p.cw, p.cd, p.c) /\ y = p.ca
  BY <1>1 DEF PaymentQuery, Query, WareRec, DistRec, CustRec
<1>4. r \in Records /\ r[1] \in {"WAREHOUSE", "DISTRICT", "CUSTOMER"}
  <2>1. WareRec(p.w) \in Records /\ DistRec(p.w, p.d) \in Records /\ CustRec(p.cw, p.cd, p.c) \in Records
    BY <1>2, RecordsAre
  <2>2. WareRec(p.w)[1] = "WAREHOUSE" /\ DistRec(p.w, p.d)[1] = "DISTRICT" /\ CustRec(p.cw, p.cd, p.c)[1] = "CUSTOMER"
    BY DEF WareRec, DistRec, CustRec
  <2>3. i = 1 \/ i = 2 \/ i = 3
    BY <1>1
  <2> QED BY <1>3, <2>1, <2>2, <2>3
<1>5. DOMAIN m = DOMAIN l \cup {r} /\ m[r] = [type |-> y, copy |-> Updated("PAYMENT", r, T[r])]
      /\ \A x \in DOMAIN l \ {r} : m[x] = l[x]
  BY DEF Locking
<1> HIDE DEF m, r, y
<1>6. PaymentOK(p, i + 1, m, T)
  <2>1. i + 1 \in 1 .. 4
    BY <1>1
  <2>2. \A x \in DOMAIN m : /\ x \in {WareRec(p.w), DistRec(p.w, p.d), CustRec(p.cw, p.cd, p.c)}
                            /\ m[x].copy = Updated("PAYMENT", x, T[x])
                            /\ x = WareRec(p.w) => m[x].type = p.wa
                            /\ x = DistRec(p.w, p.d) => m[x].type = p.da
    <3>1. ASSUME NEW x \in DOMAIN l, x # r
          PROVE  /\ x \in {WareRec(p.w), DistRec(p.w, p.d), CustRec(p.cw, p.cd, p.c)}
                 /\ m[x].copy = Updated("PAYMENT", x, T[x])
                 /\ x = WareRec(p.w) => m[x].type = p.wa
                 /\ x = DistRec(p.w, p.d) => m[x].type = p.da
      BY <1>5, <3>1 DEF PaymentOK
    <3>2. /\ r \in {WareRec(p.w), DistRec(p.w, p.d), CustRec(p.cw, p.cd, p.c)}
          /\ r = WareRec(p.w) => y = p.wa
          /\ r = DistRec(p.w, p.d) => y = p.da
      <4>1. /\ WareRec(p.w) # DistRec(p.w, p.d) /\ WareRec(p.w) # CustRec(p.cw, p.cd, p.c)
            /\ DistRec(p.w, p.d) # CustRec(p.cw, p.cd, p.c)
        BY DEF WareRec, DistRec, CustRec
      <4>2. i = 1 \/ i = 2 \/ i = 3
        BY <1>1
      <4> QED BY <1>3, <4>1, <4>2
    <3> QED BY <1>5, <3>1, <3>2
  <2>3. WareRec(p.w) \in DOMAIN m
    BY <1>1, <1>3, <1>5 DEF PaymentOK
  <2>4. i + 1 > 2 => DistRec(p.w, p.d) \in DOMAIN m
    BY <1>1, <1>3, <1>5 DEF PaymentOK
  <2> QED BY <2>1, <2>2, <2>3, <2>4 DEF PaymentOK
<1>7. y \in {RO, RW}
  <2>1. i = 1 \/ i = 2 \/ i = 3
    BY <1>1
  <2> QED BY <1>2, <1>3, <2>1
<1> QED BY <1>4, <1>6, <1>7 DEF m, r, y

\* The queries of a new order, k of its lines being two queries each.
LEMMA NewOrderQueries ==
  ASSUME NEW p, NEW i \in Nat \ {0}, NEW k \in Nat, k = Len(p.lines)
  PROVE  /\ i <= k => NewOrderQuery(p, i) = Query(<<"ITEM", p.w, p.lines[i][1]>>, RO)
         /\ i \in k + 1 .. 2 * k =>
              NewOrderQuery(p, i) = Query(<<"STOCK", p.lines[i - k][2], p.lines[i - k][1]>>, p.lines[i - k][3])
         /\ i = 2 * k + 1 => NewOrderQuery(p, i) = Query(WareRec(p.w), RO)
         /\ i = 2 * k + 2 => NewOrderQuery(p, i) = Query(DistRec(p.w, p.d), p.da)
         /\ i = 2 * k + 3 => NewOrderQuery(p, i) = Query(CustRec(p.w, p.d, p.c), RO)
         /\ i > 2 * k + 3 => NewOrderQuery(p, i) = NoQuery
<1>1. CASE i <= k
  <2>1. ~(i = 2 * k + 1) /\ ~(i = 2 * k + 2) /\ ~(i = 2 * k + 3) /\ ~(i \in k + 1 .. 2 * k) /\ ~(i > 2 * k + 3)
    BY <1>1
  <2> QED BY <1>1, <2>1 DEF NewOrderQuery, RO
<1>2. CASE i \in k + 1 .. 2 * k
  <2>1. ~(i = 2 * k + 1) /\ ~(i = 2 * k + 2) /\ ~(i = 2 * k + 3) /\ ~(i <= k) /\ ~(i > 2 * k + 3)
    BY <1>2
  <2> QED BY <1>2, <2>1 DEF NewOrderQuery
<1>3. CASE i > 2 * k
  <2>1. ~(i <= k) /\ ~(i \in k + 1 .. 2 * k)
    BY <1>3
  <2>2. CASE i = 2 * k + 1
    <3>1. ~(i = 2 * k + 2) /\ ~(i = 2 * k + 3) /\ ~(i > 2 * k + 3)
      BY <2>2
    <3> QED BY <2>1, <2>2, <3>1 DEF NewOrderQuery, RO, WareRec
  <2>3. CASE i = 2 * k + 2
    <3>1. ~(i = 2 * k + 1) /\ ~(i = 2 * k + 3) /\ ~(i > 2 * k + 3)
      BY <2>3
    <3> QED BY <2>1, <2>3, <3>1 DEF NewOrderQuery, DistRec
  <2>4. CASE i = 2 * k + 3
    <3>1. ~(i = 2 * k + 1) /\ ~(i = 2 * k + 2) /\ ~(i > 2 * k + 3)
      BY <2>4
    <3> QED BY <2>1, <2>4, <3>1 DEF NewOrderQuery, RO, CustRec
  <2>5. CASE i > 2 * k + 3
    <3>1. ~(i = 2 * k + 1) /\ ~(i = 2 * k + 2) /\ ~(i = 2 * k + 3)
      BY <2>5
    <3> QED BY <2>1, <2>5, <3>1 DEF NewOrderQuery
  <2>6. i = 2 * k + 1 \/ i = 2 * k + 2 \/ i = 2 * k + 3 \/ i > 2 * k + 3
    BY <1>3
  <2> QED BY <2>2, <2>3, <2>4, <2>5, <2>6
<1>4. i <= k \/ i \in k + 1 .. 2 * k \/ i > 2 * k
  OBVIOUS
<1> QED BY <1>1, <1>2, <1>3, <1>4

LEMMA QueryIs == ASSUME NEW r, NEW y PROVE Query(r, y).rec = r /\ Query(r, y).type = y
BY DEF Query

LEMMA NewOrderSteps ==
  ASSUME NEW p \in Params, p.proc = "NEW_ORDER", NEW i, NEW l, NEW T, NewOrderOK(p, i, l, T),
         NEW q, q = NewOrderQuery(p, i), q # NoQuery
  PROVE  /\ q.rec \in Records /\ q.type \in {RO, RW} /\ (q.rec[1] \in {"ITEM", "WAREHOUSE"} => q.type = RO)
         /\ q.rec[1] \in {"ITEM", "STOCK", "WAREHOUSE", "DISTRICT", "CUSTOMER"}
         /\ NewOrderOK(p, i + 1, Locking(l, q.rec, q.type, Updated("NEW_ORDER", q.rec, T[q.rec])), T)
<1>1. PICK k \in Nat : k = Len(p.lines) /\ p.lines \in [1 .. k -> Goods \X Ware \X {RO, RW}]
  BY ParamsAre
<1>2. p.w \in Ware /\ p.d \in Dist /\ p.c \in 1 .. Cust /\ p.da \in {RO, RW} /\ i \in Nat \ {0}
  BY ParamsAre DEF NewOrderOK
<1>3. /\ i <= k => q = Query(<<"ITEM", p.w, p.lines[i][1]>>, RO)
      /\ i \in k + 1 .. 2 * k => q = Query(<<"STOCK", p.lines[i - k][2], p.lines[i - k][1]>>, p.lines[i - k][3])
      /\ i = 2 * k + 1 => q = Query(WareRec(p.w), RO)
      /\ i = 2 * k + 2 => q = Query(DistRec(p.w, p.d), p.da)
      /\ i = 2 * k + 3 => q = Query(CustRec(p.w, p.d, p.c), RO)
      /\ ~(i > 2 * k + 3)
  BY <1>1, <1>2, NewOrderQueries
<1>4. i <= k \/ i \in k + 1 .. 2 * k \/ i = 2 * k + 1 \/ i = 2 * k + 2 \/ i = 2 * k + 3
  <2>1. ~(i > 2 * k + 3) /\ i \in Nat /\ k \in Nat
    BY <1>1, <1>2, <1>3
  <2> QED BY ONLY <2>1
<1> DEFINE r == q.rec
           y == q.type
<1>5. \/ r[1] = "ITEM" /\ y = RO /\ i <= k
      \/ r[1] = "STOCK" /\ y \in {RO, RW} /\ i <= 2 * k
      \/ r[1] = "WAREHOUSE" /\ y = RO /\ i <= 2 * k + 1
      \/ r = DistRec(p.w, p.d) /\ r[1] = "DISTRICT" /\ y = p.da /\ i = 2 * k + 2
      \/ r[1] = "CUSTOMER" /\ y = RO /\ i = 2 * k + 3
  <2>1. CASE i <= k
    BY <1>3, <2>1, QueryIs DEF RO
  <2>2. CASE i \in k + 1 .. 2 * k
    <3>1. r[1] = "STOCK" /\ y = p.lines[i - k][3]
      BY <1>3, <2>2, QueryIs
    <3>2. p.lines[i - k][3] \in {RO, RW}
      <4>1. i - k \in 1 .. k
        BY <1>1, <2>2
      <4> QED BY <1>1, <4>1
    <3> QED BY <1>1, <2>2, <3>1, <3>2
  <2>3. CASE i = 2 * k + 1
    <3>1. r = WareRec(p.w) /\ y = RO
      BY <1>3, <2>3, QueryIs
    <3> QED BY <1>1, <2>3, <3>1 DEF WareRec
  <2>4. CASE i = 2 * k + 2
    <3>1. r = DistRec(p.w, p.d) /\ y = p.da
      BY <1>3, <2>4, QueryIs
    <3> QED BY <2>4, <3>1 DEF DistRec
  <2>5. CASE i = 2 * k + 3
    <3>1. r = CustRec(p.w, p.d, p.c) /\ y = RO
      BY <1>3, <2>5, QueryIs
    <3> QED BY <2>5, <3>1 DEF CustRec
  <2> QED BY <1>4, <2>1, <2>2, <2>3, <2>4, <2>5
<1>6. r \in Records
  <2>1. CASE i <= k
    <3>1. p.lines[i][1] \in Goods
      BY <1>1, <1>2, <2>1
    <3>2. r = <<"ITEM", p.w, p.lines[i][1]>>
      BY <1>3, <2>1, QueryIs
    <3> QED BY <1>2, <3>1, <3>2, RecordsAre
  <2>2. CASE i \in k + 1 .. 2 * k
    <3>1. p.lines[i - k][1] \in Goods /\ p.lines[i - k][2] \in Ware
      <4>1. i - k \in 1 .. k
        BY <1>1, <2>2
      <4> QED BY <1>1, <4>1
    <3>2. r = <<"STOCK", p.lines[i - k][2], p.lines[i - k][1]>>
      BY <1>3, <2>2, QueryIs
    <3> QED BY <3>1, <3>2, RecordsAre
  <2>3. CASE i = 2 * k + 1
    BY <1>2, <1>3, <2>3, QueryIs, RecordsAre
  <2>4. CASE i = 2 * k + 2
    BY <1>2, <1>3, <2>4, QueryIs, RecordsAre
  <2>5. CASE i = 2 * k + 3
    BY <1>2, <1>3, <2>5, QueryIs, RecordsAre
  <2> QED BY <1>4, <2>1, <2>2, <2>3, <2>4, <2>5
<1> DEFINE m == Locking(l, r, y, Updated("NEW_ORDER", r, T[r]))
<1>7. DOMAIN m = DOMAIN l \cup {r} /\ m[r] = [type |-> y, copy |-> Updated("NEW_ORDER", r, T[r])]
      /\ \A x \in DOMAIN l \ {r} : m[x] = l[x]
  BY DEF Locking
<1> HIDE DEF m, r, y
<1>8. NewOrderOK(p, i + 1, m, T)
  <2>1. ASSUME NEW x \in DOMAIN m
        PROVE  /\ x[1] \in {"ITEM", "STOCK", "WAREHOUSE", "DISTRICT", "CUSTOMER"}
               /\ x[1] \in {"ITEM", "WAREHOUSE"} => m[x].type = RO
               /\ x[1] = "DISTRICT" => /\ x = DistRec(p.w, p.d)
                                       /\ m[x] = [type |-> p.da, copy |-> Updated("NEW_ORDER", x, T[x])]
    <3>1. CASE x # r
      BY <1>7, <3>1 DEF NewOrderOK
    <3>2. CASE x = r
      BY <1>5, <1>7, <3>2
    <3> QED BY <3>1, <3>2
  <2>2. i + 1 > 2 * k + 2 => DistRec(p.w, p.d) \in DOMAIN m
    <3>1. i > 2 * k + 2 => DistRec(p.w, p.d) \in DOMAIN m
      BY <1>1, <1>7 DEF NewOrderOK
    <3>2. i = 2 * k + 2 => DistRec(p.w, p.d) \in DOMAIN m
      BY <1>1, <1>5, <1>7
    <3> QED BY <1>1, <1>2, <3>1, <3>2
  <2>3. i + 1 \in Nat \ {0}
    BY <1>2
  <2> QED BY <1>1, <2>1, <2>2, <2>3 DEF NewOrderOK
<1>9. y \in {RO, RW} /\ (r[1] \in {"ITEM", "WAREHOUSE"} => y = RO)
  BY <1>2, <1>5
<1>10. r[1] \in {"ITEM", "STOCK", "WAREHOUSE", "DISTRICT", "CUSTOMER"}
  BY <1>5
<1> QED BY <1>6, <1>8, <1>9, <1>10 DEF m, r, y

------------------------------------------------------------------------------
(* Delivery *)

LEMMA DistIs ==
  /\ DistNum \in Nat /\ Dist = 1 .. DistNum
  /\ \A d \in Dist : d \in Nat /\ d >= 1 /\ d <= DistNum
  /\ FirstNew \in Nat /\ FirstNew >= 2 /\ FirstNew <= Cust + 1 /\ Cust \in Nat
<1>1. DistNum \in Nat /\ Dist = 1 .. DistNum
  BY TpccAssumption, FS_CardinalityType DEF DistNum
<1>2. FirstNew \in Nat /\ FirstNew >= 2 /\ FirstNew <= Cust + 1 /\ Cust \in Nat
  BY TpccAssumption DEF FirstNew
<1> QED BY <1>1, <1>2

LEMMA Halves ==
  ASSUME NEW d \in Nat \ {0}
  PROVE  /\ (2 * d - 1) % 2 = 1 /\ (2 * d) % 2 = 0
         /\ ((2 * d - 1) + 1) \div 2 = d /\ (2 * d + 1) \div 2 = d
OBVIOUS

LEMMA Thirds ==
  ASSUME NEW D \in Nat, NEW d \in 1 .. D
  PROVE  ((2 * D + d) - 1) % D = d - 1 /\ ((3 * D + d) - 1) % D = d - 1
OBVIOUS

\* The queries of a delivery, two for each district and then one and one.
LEMMA DeliveryQueries ==
  ASSUME NEW t, NEW p, NEW d \in Dist
  PROVE  /\ DeliveryQuery(t, p, 2 * d - 1) = Query(NextRec(p.w, d), RW)
         /\ DeliveryQuery(t, p, 2 * d) = Query(NewRec(p.w, d, oid[t][d]), RO)
         /\ DeliveryQuery(t, p, 2 * DistNum + d) =
              IF oid[t][d] = 0 THEN Query(<<>>, "SKIP") ELSE Query(OrderRec(p.w, d, oid[t][d]), RW)
         /\ DeliveryQuery(t, p, 3 * DistNum + d) =
              IF oid[t][d] = 0 THEN Query(<<>>, "SKIP")
              ELSE Query(CustRec(p.w, d, list[t][OrderRec(p.w, d, oid[t][d])].copy.customer), RW)
<1>1. d \in Nat \ {0} /\ DistNum \in Nat /\ d \in 1 .. DistNum
  BY DistIs
<1>2. DeliveryQuery(t, p, 2 * d - 1) = Query(NextRec(p.w, d), RW)
  <2>1. 2 * d - 1 <= 2 * DistNum /\ (2 * d - 1) % 2 = 1 /\ ((2 * d - 1) + 1) \div 2 = d /\ ~((2 * d - 1) % 2 = 0)
        /\ ~(2 * d - 1 \in 2 * DistNum + 1 .. 4 * DistNum) /\ ~(2 * d - 1 \in 2 * DistNum + 1 .. 3 * DistNum)
        /\ ~(2 * d - 1 \in 3 * DistNum + 1 .. 4 * DistNum)
    BY <1>1, Halves
  <2> QED BY <2>1 DEF DeliveryQuery, NextRec, RW
<1>3. DeliveryQuery(t, p, 2 * d) = Query(NewRec(p.w, d, oid[t][d]), RO)
  <2>1. 2 * d <= 2 * DistNum /\ (2 * d) % 2 = 0 /\ (2 * d + 1) \div 2 = d /\ ~((2 * d) % 2 = 1)
        /\ ~(2 * d \in 2 * DistNum + 1 .. 4 * DistNum) /\ ~(2 * d \in 2 * DistNum + 1 .. 3 * DistNum)
        /\ ~(2 * d \in 3 * DistNum + 1 .. 4 * DistNum)
    BY <1>1, Halves
  <2> QED BY <2>1 DEF DeliveryQuery, NewRec, RO
<1>4. DeliveryQuery(t, p, 2 * DistNum + d) =
        IF oid[t][d] = 0 THEN Query(<<>>, "SKIP") ELSE Query(OrderRec(p.w, d, oid[t][d]), RW)
  <2>1. ~(2 * DistNum + d <= 2 * DistNum) /\ ((2 * DistNum + d) - 1) % DistNum = d - 1 /\ (d - 1) + 1 = d
        /\ 2 * DistNum + d \in 2 * DistNum + 1 .. 4 * DistNum /\ 2 * DistNum + d \in 2 * DistNum + 1 .. 3 * DistNum
        /\ ~(2 * DistNum + d \in 3 * DistNum + 1 .. 4 * DistNum)
    BY <1>1, Thirds
  <2> QED BY <2>1 DEF DeliveryQuery, OrderRec, RW
<1>5. DeliveryQuery(t, p, 3 * DistNum + d) =
        IF oid[t][d] = 0 THEN Query(<<>>, "SKIP")
        ELSE Query(CustRec(p.w, d, list[t][OrderRec(p.w, d, oid[t][d])].copy.customer), RW)
  <2>1. ~(3 * DistNum + d <= 2 * DistNum) /\ ((3 * DistNum + d) - 1) % DistNum = d - 1 /\ (d - 1) + 1 = d
        /\ 3 * DistNum + d \in 2 * DistNum + 1 .. 4 * DistNum /\ 3 * DistNum + d \in 3 * DistNum + 1 .. 4 * DistNum
        /\ ~(3 * DistNum + d \in 2 * DistNum + 1 .. 3 * DistNum)
    BY <1>1, Thirds
  <2> QED BY <2>1 DEF DeliveryQuery, OrderRec, CustRec, RW
<1> QED BY <1>2, <1>3, <1>4, <1>5

LEMMA DeliveryEnds == ASSUME NEW t, NEW p PROVE DeliveryQuery(t, p, 4 * DistNum + 1) = NoQuery
<1>1. /\ ~(4 * DistNum + 1 <= 2 * DistNum) /\ ~(4 * DistNum + 1 \in 2 * DistNum + 1 .. 4 * DistNum)
      /\ ~(4 * DistNum + 1 \in 2 * DistNum + 1 .. 3 * DistNum) /\ ~(4 * DistNum + 1 \in 3 * DistNum + 1 .. 4 * DistNum)
  BY DistIs
<1> QED BY <1>1 DEF DeliveryQuery

LEMMA DeliveryPlaces ==
  ASSUME NEW i \in 1 .. 4 * DistNum
  PROVE  \E d \in Dist : i = 2 * d - 1 \/ i = 2 * d \/ i = 2 * DistNum + d \/ i = 3 * DistNum + d
<1>1. DistNum \in Nat /\ Dist = 1 .. DistNum /\ i \in Nat
  BY DistIs
<1>2. CASE i <= 2 * DistNum
  <2>1. PICK h \in Nat : i = 2 * h \/ i = 2 * h - 1
    <3>1. i % 2 \in {0, 1} /\ i = 2 * (i \div 2) + (i % 2) /\ i \div 2 \in Nat
      BY <1>1
    <3>2. PICK g \in Nat : g = i \div 2
      BY <3>1
    <3>3. CASE i = 2 * g
      BY <3>2, <3>3
    <3>4. CASE i # 2 * g
      <4>1. i = 2 * (g + 1) - 1 /\ g + 1 \in Nat
        BY <1>1, <3>1, <3>2, <3>4
      <4> QED BY <4>1
    <3> QED BY <3>3, <3>4
  <2>2. h \in 1 .. DistNum
    BY <1>1, <1>2, <2>1
  <2> QED BY <1>1, <2>1, <2>2
<1>3. CASE i > 2 * DistNum /\ i <= 3 * DistNum
  <2>1. i - 2 * DistNum \in 1 .. DistNum /\ i = 2 * DistNum + (i - 2 * DistNum)
    BY <1>1, <1>3
  <2> QED BY <1>1, <2>1
<1>4. CASE i > 3 * DistNum
  <2>1. i - 3 * DistNum \in 1 .. DistNum /\ i = 3 * DistNum + (i - 3 * DistNum)
    BY <1>1, <1>4
  <2> QED BY <1>1, <2>1
<1> QED BY <1>1, <1>2, <1>3, <1>4

\* A district that the query does not concern.
LEMMA CounterStays ==
  ASSUME NEW p, NEW i \in Nat, NEW l, NEW o, NEW T, NEW d \in Dist, CounterOK(p, i, l, o, T, d),
         NEW m, NEW e, e[d] = o[d], i + 1 # 2 * d, i # 2 * d, i = 2 * DistNum + d => o[d] = 0,
         NextRec(p.w, d) \in DOMAIN l => NextRec(p.w, d) \in DOMAIN m /\ m[NextRec(p.w, d)] = l[NextRec(p.w, d)],
         OrderRec(p.w, d, o[d]) \in DOMAIN l => OrderRec(p.w, d, o[d]) \in DOMAIN m
  PROVE  CounterOK(p, i + 1, m, e, T, d)
<1>1. d \in Nat /\ DistNum \in Nat
  BY DistIs
<1>2. i + 1 > 2 * d => i > 2 * d
  BY <1>1
<1>3. i + 1 > 2 * DistNum + d => i > 2 * DistNum + d \/ i = 2 * DistNum + d
  BY <1>1
<1> QED BY <1>2, <1>3 DEF CounterOK

\* The first loop: a district's counter is read.
LEMMA CounterRead ==
  ASSUME NEW p, NEW l, NEW o, NEW T, NEW d \in Dist, NEW i, i = 2 * d - 1, DeliveryOK(p, i, l, o, T),
         NEW m, m = Locking(l, NextRec(p.w, d), RW, T[NextRec(p.w, d)]),
         NEW e, \A c \in Dist : e[c] = IF c = d THEN T[NextRec(p.w, d)] ELSE o[c]
  PROVE  DeliveryOK(p, i + 1, m, e, T)
<1>1. d \in Nat /\ d \in 1 .. DistNum /\ DistNum \in Nat /\ i \in Nat /\ \A c \in Dist : c \in Nat
  BY DistIs
<1> DEFINE N == NextRec(p.w, d)
<1>2. DOMAIN m = DOMAIN l \cup {N} /\ m[N] = [type |-> RW, copy |-> T[N]] /\ \A x \in DOMAIN l \ {N} : m[x] = l[x]
  BY DEF Locking
<1>3. N[1] = "DISTRICT_NEW_ORDER"
  BY DEF NextRec
<1>4. ASSUME NEW c \in Dist PROVE CounterOK(p, i + 1, m, e, T, c)
  <2>1. CASE c = d
    <3>1. i + 1 = 2 * d /\ ~(i + 1 > 2 * d) /\ ~(i + 1 > 2 * DistNum + d)
      BY <1>1
    <3> QED BY <1>2, <2>1, <3>1 DEF CounterOK
  <2>2. CASE c # d
    <3>1. CounterOK(p, i, l, o, T, c)
      BY DEF DeliveryOK
    <3>2. e[c] = o[c] /\ i + 1 # 2 * c /\ i # 2 * c /\ i # 2 * DistNum + c
      BY <1>1, <2>2
    <3>3. NextRec(p.w, c) # N /\ OrderRec(p.w, c, o[c]) # N
      BY <2>2 DEF NextRec, OrderRec
    <3> HIDE DEF N
    <3> QED BY <1>1, <1>2, <3>1, <3>2, <3>3, CounterStays
  <2> QED BY <2>1, <2>2
<1>5. ASSUME NEW x \in DOMAIN m
      PROVE  /\ x[1] \in {"DISTRICT_NEW_ORDER", "NEW_ORDER", "ORDER", "CUSTOMER"}
             /\ x[1] = "NEW_ORDER" => m[x].type = RO
             /\ x[1] = "DISTRICT_NEW_ORDER" => \E c \in Dist : x = NextRec(p.w, c)
             /\ x[1] # "ORDER"
  <2>1. CASE x = N
    BY <1>3, <2>1
  <2>2. CASE x # N
    <3>1. x \in DOMAIN l /\ m[x] = l[x]
      BY <1>2, <2>2
    <3>2. \A c \in Dist : ~(i > 2 * DistNum + c)
      BY <1>1
    <3> HIDE DEF N
    <3> QED BY <3>1, <3>2 DEF DeliveryOK
  <2> QED BY <2>1, <2>2
<1>6. i + 1 \in 1 .. 4 * DistNum + 1
  BY <1>1
<1> HIDE DEF N
<1> QED BY <1>4, <1>5, <1>6 DEF DeliveryOK

\* From the list l to the list m and the orders e: the order is found, and counted; or it
\* is not, and the district starts again.
Moves(p, l, o, d, m, e, r) ==
  /\ DOMAIN m \in {DOMAIN l, DOMAIN l \cup {r}} /\ r = NewRec(p.w, d, o[d]) /\ (r \in DOMAIN m => m[r].type = RO)
  /\ \A x \in DOMAIN l : x # r /\ x # NextRec(p.w, d) => m[x] = l[x]
  /\ \A c \in Dist : c # d => e[c] = o[c]
  /\ \/ /\ o[d] \in FirstNew .. Cust /\ e[d] = o[d]
        /\ m[NextRec(p.w, d)] = [type |-> RW, copy |-> o[d] + 1]
     \/ /\ o[d] \notin FirstNew .. Cust /\ e[d] = 0
        /\ m[NextRec(p.w, d)] = [type |-> RW, copy |-> 1]

LEMMA CounterMoved ==
  ASSUME NEW p, NEW l, NEW o, NEW T, NEW d \in Dist, NEW i, i = 2 * d, DeliveryOK(p, i, l, o, T), NEW m, NEW e, NEW r,
         Moves(p, l, o, d, m, e, r)
  PROVE  DeliveryOK(p, i + 1, m, e, T)
<1> USE DEF Moves
<1>1. d \in Nat /\ d \in 1 .. DistNum /\ DistNum \in Nat /\ i \in Nat /\ \A c \in Dist : c \in Nat
  BY DistIs
<1> DEFINE N == NextRec(p.w, d)
<1>2. N \in DOMAIN l /\ o[d] = T[N]
  BY DEF DeliveryOK, CounterOK
<1>3. N[1] = "DISTRICT_NEW_ORDER" /\ r[1] = "NEW_ORDER" /\ N # r
  BY DEF NextRec, NewRec
<1>4. ASSUME NEW c \in Dist PROVE CounterOK(p, i + 1, m, e, T, c)
  <2>1. CASE c = d
    <3>1. ~(i + 1 = 2 * d) /\ i + 1 > 2 * d /\ ~(i + 1 > 2 * DistNum + d)
      BY <1>1
    <3>2. N \in DOMAIN m
      BY <1>2
    <3> QED BY <1>2, <2>1, <3>1, <3>2 DEF CounterOK
  <2>2. CASE c # d
    <3>1. CounterOK(p, i, l, o, T, c)
      BY DEF DeliveryOK
    <3>2. e[c] = o[c] /\ i + 1 # 2 * c /\ i # 2 * c /\ i # 2 * DistNum + c
      <4>1. e[c] = o[c]
        BY <2>2
      <4>2. c \in Nat /\ c >= 1 /\ i = 2 * d
        BY DistIs
      <4>3. i + 1 # 2 * c /\ i # 2 * c /\ i # 2 * DistNum + c
        BY ONLY <1>1, <2>2, <4>2
      <4> QED BY <4>1, <4>3
    <3>3. NextRec(p.w, c) # N /\ NextRec(p.w, c) # r
      BY <2>2 DEF NextRec, NewRec
    <3>4. NextRec(p.w, c) \in DOMAIN l => NextRec(p.w, c) \in DOMAIN m /\ m[NextRec(p.w, c)] = l[NextRec(p.w, c)]
      BY <3>3
    <3>5. OrderRec(p.w, c, o[c]) \in DOMAIN l => OrderRec(p.w, c, o[c]) \in DOMAIN m
      OBVIOUS
    <3> HIDE DEF N
    <3> QED BY <1>1, <3>1, <3>2, <3>4, <3>5, CounterStays
  <2> QED BY <2>1, <2>2
<1>5. ASSUME NEW x \in DOMAIN m
      PROVE  /\ x[1] \in {"DISTRICT_NEW_ORDER", "NEW_ORDER", "ORDER", "CUSTOMER"}
             /\ x[1] = "NEW_ORDER" => m[x].type = RO
             /\ x[1] = "DISTRICT_NEW_ORDER" => \E c \in Dist : x = NextRec(p.w, c)
             /\ x[1] # "ORDER"
  <2>1. CASE x = N
    BY <1>3, <2>1
  <2>2. CASE x = r
    BY <1>3, <2>2
  <2>3. CASE x # N /\ x # r
    <3>1. x \in DOMAIN l /\ m[x] = l[x]
      BY <2>3
    <3>2. \A c \in Dist : ~(i > 2 * DistNum + c)
      BY <1>1
    <3> HIDE DEF N
    <3> QED BY <3>1, <3>2 DEF DeliveryOK
  <2> QED BY <2>1, <2>2, <2>3
<1>6. i + 1 \in 1 .. 4 * DistNum + 1
  BY <1>1
<1> HIDE DEF N
<1> QED BY <1>4, <1>5, <1>6 DEF DeliveryOK

\* The other loops: an order or a customer is locked, or there is none.
LEMMA DistrictGoesOn ==
  ASSUME NEW p, NEW l, NEW o, NEW T, NEW d \in Dist, NEW i, DeliveryOK(p, i, l, o, T), NEW m,
         \/ /\ i = 2 * DistNum + d /\ o[d] # 0
            /\ m = Locking(l, OrderRec(p.w, d, o[d]), RW, Updated("DELIVERY", OrderRec(p.w, d, o[d]), T[OrderRec(p.w, d, o[d])]))
         \/ /\ i = 3 * DistNum + d
            /\ \E c, v : m = Locking(l, CustRec(p.w, d, c), RW, v)
         \/ /\ i \in {2 * DistNum + d, 3 * DistNum + d} /\ o[d] = 0 /\ m = l
  PROVE  DeliveryOK(p, i + 1, m, o, T)
<1>1. d \in Nat /\ d \in 1 .. DistNum /\ DistNum \in Nat /\ i \in Nat /\ \A c \in Dist : c \in Nat /\ c >= 1 /\ c <= DistNum
  BY DistIs
<1>2. i > 2 * DistNum /\ i <= 4 * DistNum
  BY <1>1
<1> DEFINE r == OrderRec(p.w, d, o[d])
<1>3. \/ m = l /\ o[d] = 0
      \/ /\ i = 2 * DistNum + d /\ o[d] # 0 /\ DOMAIN m = DOMAIN l \cup {r}
         /\ m[r] = [type |-> RW, copy |-> Updated("DELIVERY", r, T[r])] /\ \A x \in DOMAIN l \ {r} : m[x] = l[x]
      \/ /\ i = 3 * DistNum + d
         /\ \E c : DOMAIN m = DOMAIN l \cup {CustRec(p.w, d, c)} /\ \A x \in DOMAIN l \ {CustRec(p.w, d, c)} : m[x] = l[x]
  BY DEF Locking
<1>4. r[1] = "ORDER" /\ \A c : CustRec(p.w, d, c)[1] = "CUSTOMER"
  BY DEF OrderRec, CustRec
<1>5. ASSUME NEW c \in Dist PROVE CounterOK(p, i + 1, m, o, T, c)
  <2>1. CounterOK(p, i, l, o, T, c)
    BY DEF DeliveryOK
  <2>2. i + 1 # 2 * c /\ i # 2 * c /\ i > 2 * c
    BY <1>1, <1>2
  <2>3. NextRec(p.w, c)[1] = "DISTRICT_NEW_ORDER" /\ OrderRec(p.w, c, o[c])[1] = "ORDER"
    BY DEF NextRec, OrderRec
  <2>4. NextRec(p.w, c) \in DOMAIN l => NextRec(p.w, c) \in DOMAIN m /\ m[NextRec(p.w, c)] = l[NextRec(p.w, c)]
    BY <1>3, <1>4, <2>3
  <2>5. OrderRec(p.w, c, o[c]) \in DOMAIN l => OrderRec(p.w, c, o[c]) \in DOMAIN m
    BY <1>3
  <2>6. CASE i = 2 * DistNum + c => o[c] = 0
    BY <1>1, <2>1, <2>2, <2>4, <2>5, <2>6, CounterStays
  <2>7. CASE i = 2 * DistNum + c /\ o[c] # 0
    <3>1. c = d /\ i # 3 * DistNum + d
      BY <1>1, <2>7
    <3>2. OrderRec(p.w, c, o[c]) \in DOMAIN m
      BY <1>3, <2>7, <3>1
    <3>3. NextRec(p.w, c) \in DOMAIN m /\ m[NextRec(p.w, c)] = l[NextRec(p.w, c)]
      BY <2>1, <2>2, <2>4 DEF CounterOK
    <3> QED BY <2>1, <2>2, <3>2, <3>3 DEF CounterOK
  <2> QED BY <2>6, <2>7
<1>6. ASSUME NEW x \in DOMAIN m
      PROVE  /\ x[1] \in {"DISTRICT_NEW_ORDER", "NEW_ORDER", "ORDER", "CUSTOMER"}
             /\ x[1] = "NEW_ORDER" => m[x].type = RO
             /\ x[1] = "DISTRICT_NEW_ORDER" => \E c \in Dist : x = NextRec(p.w, c)
             /\ x[1] = "ORDER" =>
                  /\ \E c \in Dist : i + 1 > 2 * DistNum + c /\ o[c] # 0 /\ x = OrderRec(p.w, c, o[c])
                  /\ m[x] = [type |-> RW, copy |-> Updated("DELIVERY", x, T[x])]
  <2>1. CASE x \in DOMAIN l /\ m[x] = l[x]
    <3>1. \A c \in Dist : i > 2 * DistNum + c => i + 1 > 2 * DistNum + c
      BY <1>1
    <3> QED BY <2>1, <3>1 DEF DeliveryOK
  <2>2. CASE x = r /\ m[r] = [type |-> RW, copy |-> Updated("DELIVERY", r, T[r])] /\ i = 2 * DistNum + d /\ o[d] # 0
    <3>1. i + 1 > 2 * DistNum + d
      BY <1>1, <2>2
    <3> QED BY <1>4, <2>2, <3>1
  <2>3. CASE x[1] = "CUSTOMER"
    BY <2>3
  <2> QED BY <1>3, <1>4, <2>1, <2>2, <2>3
<1>7. i + 1 \in 1 .. 4 * DistNum + 1
  BY <1>1, <1>2
<1> QED BY <1>5, <1>6, <1>7 DEF DeliveryOK

------------------------------------------------------------------------------
(* The invariant, and steps that change no record *)

At(f, t, v) == [u \in Terminal |-> IF u = t THEN v ELSE f[u]]

OnTerminals(f) == f = [u \in Terminal |-> f[u]]

\* A terminal: where it is, its query, what it has committed, orders, accesses and
\* parameters, with the table T.
TermOK(c, i, k, o, l, p, T) ==
  /\ c \in {"idle", "run"} /\ i \in Nat /\ k \in 0 .. PerTerminal /\ o \in [Dist -> 0 .. Cust + 1]
  /\ DOMAIN l \subseteq Records
  /\ \A r \in DOMAIN l : l[r].type \in {RO, RW} /\ (r[1] \in {"ITEM", "NEW_ORDER"} => l[r].type = RO)
  /\ c = "idle" => p = NoParam /\ DOMAIN l = {}
  /\ c = "run" => p \in Params /\ k < PerTerminal /\ ProcOK(p, i, l, o, T)

Terminals == \A t \in Terminal : TermOK(tpc[t], query[t], committed[t], oid[t], list[t], par[t], table)

\* A record that one terminal has locked to write is locked by nobody else.
LocksApart ==
  \A t, u \in Terminal : t # u =>
    \A r \in DOMAIN list[t] : r \in DOMAIN list[u] => list[t][r].type = RO /\ list[u][r].type = RO

Shaped ==
  /\ OnTerminals(tpc) /\ OnTerminals(par) /\ OnTerminals(query) /\ OnTerminals(list) /\ OnTerminals(oid)
  /\ OnTerminals(committed) /\ DOMAIN table = Records

\* The books in a table T: the income of the districts of a warehouse is the warehouse's,
\* but for a payments that only the warehouse kept and b that only a district did; the
\* orders s of a district are numbered one after the other; n counts deliveries.
Income(T, w) == [d \in Dist |-> T[DistRec(w, d)].ytd]

Incomes(T, a, b) ==
  /\ a \in [Ware -> Nat] /\ b \in [Ware -> Nat]
  /\ \A w \in Ware : \A f : IsSum(f, Income(T, w), Dist) => T[WareRec(w)] + b[w] = f[Dist] + a[w]

Numbered(T, s) ==
  /\ DOMAIN s = DistrictRecords
  /\ \A w \in Ware, d \in Dist :
       /\ s[DistRec(w, d)] \in Seq(Nat)
       /\ Len(s[DistRec(w, d)]) = T[DistRec(w, d)].next - (Cust + 1)
       /\ Range(s[DistRec(w, d)]) = Cust + 1 .. T[DistRec(w, d)].next - 1

\* The counter of the district has passed the order, or has started again.
IsDelivered(T, w, d, o) == o >= FirstNew /\ (T[NextRec(w, d)] = 1 \/ o < T[NextRec(w, d)])

Deliveries(T, n) ==
  /\ DOMAIN n = OrderRecords
  /\ \A w \in Ware, d \in Dist : \A o \in 1 .. Cust :
       /\ n[OrderRec(w, d, o)] = IF IsDelivered(T, w, d, o) THEN 1 ELSE 0
       /\ T[OrderRec(w, d, o)].carrier = (o < FirstNew \/ IsDelivered(T, w, d, o))

Books(T, s, n, a, b) == TableOK(T) /\ Incomes(T, a, b) /\ Numbered(T, s) /\ Deliveries(T, n)

TpccInv == Shaped /\ Terminals /\ LocksApart /\ Books(table, book.orders, book.delivered, book.ware, book.dist)

LEMMA AtIs ==
  ASSUME NEW f, OnTerminals(f), NEW t \in Terminal
  PROVE  /\ \A v : [f EXCEPT ![t] = v] = At(f, t, v)
         /\ At(f, t, f[t]) = f
<1>1. DOMAIN f = Terminal
  BY DEF OnTerminals
<1>2. \A v : [f EXCEPT ![t] = v] = At(f, t, v)
  BY <1>1 DEF At
<1>3. At(f, t, f[t]) = [u \in Terminal |-> f[u]]
  BY DEF At
<1> QED BY <1>2, <1>3 DEF OnTerminals

LEMMA AtGives ==
  ASSUME NEW f, NEW t \in Terminal, NEW v
  PROVE  /\ OnTerminals(At(f, t, v)) /\ At(f, t, v)[t] = v /\ \A u \in Terminal : u # t => At(f, t, v)[u] = f[u]
BY DEF At, OnTerminals

\* A step of a terminal that changes no record.
LEMMA LocalStep ==
  ASSUME TpccInv, NEW t \in Terminal, NEW c, NEW i, NEW o, NEW l, NEW p,
         tpc' = At(tpc, t, c), query' = At(query, t, i), oid' = At(oid, t, o), list' = At(list, t, l),
         par' = At(par, t, p), table' = table, book' = book, committed' = committed,
         TermOK(c, i, committed[t], o, l, p, table),
         \A u \in Terminal : u # t =>
           \A r \in DOMAIN l : r \in DOMAIN list[u] => l[r].type = RO /\ list[u][r].type = RO
  PROVE  TpccInv'
<1>1. Shaped'
  BY AtGives DEF TpccInv, Shaped, OnTerminals
<1>2. /\ tpc'[t] = c /\ query'[t] = i /\ oid'[t] = o /\ list'[t] = l /\ par'[t] = p
      /\ \A u \in Terminal : u # t => /\ tpc'[u] = tpc[u] /\ query'[u] = query[u] /\ oid'[u] = oid[u]
                                      /\ list'[u] = list[u] /\ par'[u] = par[u]
  BY DEF At
<1>3. Terminals'
  <2>1. ASSUME NEW u \in Terminal
        PROVE  TermOK(tpc'[u], query'[u], committed'[u], oid'[u], list'[u], par'[u], table')
    <3>1. CASE u = t
      BY <1>2, <3>1
    <3>2. CASE u # t
      BY <1>2, <3>2 DEF TpccInv, Terminals
    <3> QED BY <3>1, <3>2
  <2> QED BY <2>1 DEF Terminals
<1>4. LocksApart'
  <2>1. ASSUME NEW u \in Terminal, NEW v \in Terminal, u # v, NEW r \in DOMAIN list'[u], r \in DOMAIN list'[v]
        PROVE  list'[u][r].type = RO /\ list'[v][r].type = RO
    <3>1. CASE u = t
      BY <1>2, <2>1, <3>1
    <3>2. CASE v = t
      BY <1>2, <2>1, <3>2
    <3>3. CASE u # t /\ v # t
      BY <1>2, <2>1, <3>3 DEF TpccInv, LocksApart
    <3> QED BY <3>1, <3>2, <3>3
  <2> QED BY <2>1 DEF LocksApart
<1>5. Books(table', book'.orders, book'.delivered, book'.ware, book'.dist)
  BY DEF TpccInv
<1> QED BY <1>1, <1>3, <1>4, <1>5 DEF TpccInv

\* The query of a procedure.
LEMMA TakesQuery ==
  ASSUME TpccInv, NEW t \in Terminal, tpc[t] = "run", NEW q, q = NextQuery(t), q.type \in {RO, RW},
         NEW p, p = par[t], NEW i, i = query[t], NEW l, l = list[t], NEW o, o = oid[t]
  PROVE  /\ q.rec[1] \in {"ITEM", "NEW_ORDER"} => q.type = RO
         /\ q.rec[1] \notin {"NEW_ORDER", "DISTRICT_NEW_ORDER"} =>
              /\ q.rec \in Records
              /\ ProcOK(p, i + 1, Locking(l, q.rec, q.type, Updated(p.proc, q.rec, table[q.rec])), o, table)
         /\ q.rec[1] = "DISTRICT_NEW_ORDER" =>
              p.proc = "DELIVERY" /\ \E d \in Dist : i = 2 * d - 1 /\ q = Query(NextRec(p.w, d), RW)
         /\ q.rec[1] = "NEW_ORDER" =>
              p.proc = "DELIVERY" /\ \E d \in Dist : i = 2 * d /\ q = Query(NewRec(p.w, d, o[d]), RO)
<1>1. p \in Params /\ ProcOK(p, i, l, o, table) /\ TableOK(table)
  BY DEF TpccInv, Terminals, TermOK, Books
<1>2. q # NoQuery
  BY DEF NoQuery, Query, RO, RW
<1>3. CASE p.proc = "PAYMENT"
  <2>1. q = PaymentQuery(p, i)
    BY <1>3 DEF NextQuery
  <2>2. PaymentOK(p, i, l, table)
    BY <1>1, <1>3 DEF ProcOK
  <2>3. /\ q.rec \in Records /\ q.type \in {RO, RW} /\ q.rec[1] \in {"WAREHOUSE", "DISTRICT", "CUSTOMER"}
        /\ PaymentOK(p, i + 1, Locking(l, q.rec, q.type, Updated("PAYMENT", q.rec, table[q.rec])), table)
    BY <1>1, <1>2, <1>3, <2>1, <2>2, PaymentSteps
  <2> QED BY <1>3, <2>3 DEF ProcOK
<1>4. CASE p.proc = "NEW_ORDER"
  <2>1. q = NewOrderQuery(p, i)
    BY <1>4 DEF NextQuery
  <2>2. NewOrderOK(p, i, l, table)
    BY <1>1, <1>4 DEF ProcOK
  <2>3. q.rec \in Records /\ q.type \in {RO, RW} /\ (q.rec[1] \in {"ITEM", "WAREHOUSE"} => q.type = RO)
    BY <1>1, <1>2, <1>4, <2>1, <2>2, NewOrderSteps
  <2>4. /\ q.rec[1] \in {"ITEM", "STOCK", "WAREHOUSE", "DISTRICT", "CUSTOMER"}
        /\ NewOrderOK(p, i + 1, Locking(l, q.rec, q.type, Updated("NEW_ORDER", q.rec, table[q.rec])), table)
    BY <1>1, <1>2, <1>4, <2>1, <2>2, NewOrderSteps
  <2>5. q.rec[1] = "ITEM" => q.type = RO
    BY <2>3
  <2> QED BY <1>4, <2>3, <2>4, <2>5 DEF ProcOK
<1>5. CASE p.proc = "DELIVERY"
  <2>1. q = DeliveryQuery(t, p, i)
    BY <1>5 DEF NextQuery
  <2>2. DeliveryOK(p, i, l, o, table)
    BY <1>1, <1>5 DEF ProcOK
  <2>3. i \in 1 .. 4 * DistNum
    <3>1. i # 4 * DistNum + 1
      BY <1>2, <2>1, DeliveryEnds
    <3>2. i \in 1 .. 4 * DistNum + 1 /\ DistNum \in Nat
      BY <2>2, DistIs DEF DeliveryOK
    <3> QED BY ONLY <3>1, <3>2
  <2>4. PICK d \in Dist : i = 2 * d - 1 \/ i = 2 * d \/ i = 2 * DistNum + d \/ i = 3 * DistNum + d
    BY <2>3, DeliveryPlaces
  <2>5. p.w \in Ware
    BY <1>1, ParamsAre
  <2>6. CASE i = 2 * d - 1
    <3>1. q = Query(NextRec(p.w, d), RW)
      BY <2>1, <2>6, DeliveryQueries
    <3>2. q.rec[1] = "DISTRICT_NEW_ORDER"
      BY <3>1 DEF Query, NextRec
    <3> QED BY <1>5, <2>6, <3>1, <3>2
  <2>7. CASE i = 2 * d
    <3>1. q = Query(NewRec(p.w, d, o[d]), RO)
      BY <2>1, <2>7, DeliveryQueries
    <3>2. q.rec[1] = "NEW_ORDER" /\ q.type = RO
      BY <3>1 DEF Query, NewRec
    <3> QED BY <1>5, <2>7, <3>1, <3>2
  <2>8. CASE i = 2 * DistNum + d \/ i = 3 * DistNum + d
    <3>1. i > 2 * d
      BY <2>8, DistIs
    <3>2. CASE o[d] # 0
      <4>1. o[d] \in FirstNew .. Cust
        BY <2>2, <3>1, <3>2 DEF DeliveryOK, CounterOK
      <4>2. o[d] \in 1 .. Cust
        BY <4>1, DistIs
      <4>3. CASE i = 2 * DistNum + d
        <5>1. q = Query(OrderRec(p.w, d, o[d]), RW)
          BY <2>1, <3>2, <4>3, DeliveryQueries
        <5>2. q.rec = OrderRec(p.w, d, o[d]) /\ q.type = RW /\ q.rec[1] = "ORDER"
          BY <5>1 DEF Query, OrderRec
        <5>3. q.rec \in Records
          BY <2>5, <4>2, <5>2, RecordsAre
        <5>4. DeliveryOK(p, i + 1, Locking(l, q.rec, q.type, Updated("DELIVERY", q.rec, table[q.rec])), o, table)
          BY <2>2, <3>2, <4>3, <5>2, DistrictGoesOn
        <5> QED BY <1>5, <5>2, <5>3, <5>4 DEF ProcOK
      <4>4. CASE i = 3 * DistNum + d
        <5>1. OrderRec(p.w, d, o[d]) \in DOMAIN l
          <6>1. i > 2 * DistNum + d
            BY <4>4, DistIs
          <6> QED BY <2>2, <3>2, <6>1 DEF DeliveryOK, CounterOK
        <5>2. l[OrderRec(p.w, d, o[d])].copy.customer = o[d]
          <6>1. OrderRec(p.w, d, o[d])[1] = "ORDER"
            BY DEF OrderRec
          <6>4. \A r \in DOMAIN l : r[1] = "ORDER" => l[r] = [type |-> RW, copy |-> Updated("DELIVERY", r, table[r])]
            BY <2>2 DEF DeliveryOK
          <6>5. PICK r \in DOMAIN l : r = OrderRec(p.w, d, o[d])
            BY <5>1
          <6>6. l[r] = [type |-> RW, copy |-> Updated("DELIVERY", r, table[r])]
            BY <6>1, <6>4, <6>5
          <6>7. l[r].copy = Updated("DELIVERY", r, table[r])
            BY <6>6
          <6>8. Updated("DELIVERY", r, table[r]) = [table[r] EXCEPT !.carrier = TRUE]
            BY <6>1, <6>5 DEF Updated
          <6>2. l[OrderRec(p.w, d, o[d])].copy = [table[OrderRec(p.w, d, o[d])] EXCEPT !.carrier = TRUE]
            BY <6>5, <6>7, <6>8
          <6>3. table[OrderRec(p.w, d, o[d])] \in [customer : {o[d]}, carrier : BOOLEAN]
            BY <1>1, <2>5, <4>2 DEF TableOK
          <6> QED BY <6>2, <6>3
        <5>3. q = Query(CustRec(p.w, d, o[d]), RW)
          BY <2>1, <3>2, <4>4, <5>2, DeliveryQueries
        <5>4. q.rec = CustRec(p.w, d, o[d]) /\ q.type = RW /\ q.rec[1] = "CUSTOMER"
          BY <5>3 DEF Query, CustRec
        <5>5. q.rec \in Records
          BY <2>5, <4>2, <5>4, RecordsAre
        <5>6. DeliveryOK(p, i + 1, Locking(l, q.rec, q.type, Updated("DELIVERY", q.rec, table[q.rec])), o, table)
          BY <2>2, <4>4, <5>4, DistrictGoesOn
        <5> QED BY <1>5, <5>4, <5>5, <5>6 DEF ProcOK
      <4> QED BY <2>8, <4>3, <4>4
    <3>3. CASE o[d] = 0
      <4>1. q = Query(<<>>, "SKIP")
        BY <2>1, <2>8, <3>3, DeliveryQueries
      <4> QED BY <4>1 DEF Query, RO, RW
    <3> QED BY <3>2, <3>3
  <2> QED BY <2>4, <2>6, <2>7, <2>8
<1> QED BY <1>1, <1>3, <1>4, <1>5, ParamsAre

\* The terminals' variables, changed at one of them.
LEMMA TerminalChanges ==
  ASSUME TpccInv, NEW t \in Terminal
  PROVE  /\ \A v : /\ [tpc EXCEPT ![t] = v] = At(tpc, t, v) /\ [par EXCEPT ![t] = v] = At(par, t, v)
                   /\ [query EXCEPT ![t] = v] = At(query, t, v) /\ [list EXCEPT ![t] = v] = At(list, t, v)
                   /\ [oid EXCEPT ![t] = v] = At(oid, t, v) /\ [committed EXCEPT ![t] = v] = At(committed, t, v)
         /\ At(tpc, t, tpc[t]) = tpc /\ At(par, t, par[t]) = par /\ At(query, t, query[t]) = query
         /\ At(list, t, list[t]) = list /\ At(oid, t, oid[t]) = oid
         /\ DOMAIN list = Terminal /\ DOMAIN oid = Terminal /\ DOMAIN query = Terminal
<1>1. /\ OnTerminals(tpc) /\ OnTerminals(par) /\ OnTerminals(query) /\ OnTerminals(list) /\ OnTerminals(oid)
      /\ OnTerminals(committed)
  BY DEF TpccInv, Shaped
<1>2. DOMAIN list = Terminal /\ DOMAIN oid = Terminal /\ DOMAIN query = Terminal
  BY <1>1 DEF OnTerminals
<1> QED BY <1>1, <1>2, AtIs

LEMMA Starts == ASSUME TpccInv, NEW t \in Terminal, StartProc(t) PROVE TpccInv'
<1>1. PICK p \in Params : par' = At(par, t, p)
  BY TerminalChanges DEF StartProc
<1>2. /\ tpc' = At(tpc, t, "run") /\ query' = At(query, t, 1) /\ oid' = At(oid, t, oid[t]) /\ list' = At(list, t, list[t])
      /\ table' = table /\ book' = book /\ committed' = committed
  BY TerminalChanges DEF StartProc
<1>3. TermOK("run", 1, committed[t], oid[t], list[t], p, table)
  <2>1. TermOK(tpc[t], query[t], committed[t], oid[t], list[t], par[t], table)
    BY DEF TpccInv, Terminals
  <2>2. committed[t] < PerTerminal /\ tpc[t] = "idle"
    BY DEF StartProc
  <2>3. ProcOK(p, 1, list[t], oid[t], table)
    BY <2>1, <2>2, ProcBegins DEF TermOK
  <2> QED BY <2>1, <2>2, <2>3 DEF TermOK
<1>4. \A u \in Terminal : u # t =>
        \A r \in DOMAIN list[t] : r \in DOMAIN list[u] => list[t][r].type = RO /\ list[u][r].type = RO
  BY DEF TpccInv, LocksApart
<1> QED BY <1>1, <1>2, <1>3, <1>4, LocalStep

\* The districts that a delivery passes over.
LEMMA SkipsQuery ==
  ASSUME TpccInv, NEW t \in Terminal, tpc[t] = "run", NextQuery(t).type = "SKIP"
  PROVE  ProcOK(par[t], query[t] + 1, list[t], oid[t], table)
<1> DEFINE p == par[t]
           i == query[t]
           l == list[t]
           o == oid[t]
           q == NextQuery(t)
<1>1. p \in Params /\ ProcOK(p, i, l, o, table)
  BY DEF TpccInv, Terminals, TermOK
<1>2. q # NoQuery
  BY DEF NoQuery, Query
<1>3. p.proc # "PAYMENT"
  <2>1. ASSUME p.proc = "PAYMENT" PROVE FALSE
    <3>1. q = PaymentQuery(p, i)
      BY <2>1 DEF NextQuery
    <3>2. PaymentOK(p, i, l, table)
      BY <1>1, <2>1 DEF ProcOK
    <3>3. q.type \in {RO, RW}
      BY <1>1, <1>2, <2>1, <3>1, <3>2, PaymentSteps
    <3> QED BY <3>3 DEF RO, RW
  <2> QED BY <2>1
<1>4. p.proc # "NEW_ORDER"
  <2>1. ASSUME p.proc = "NEW_ORDER" PROVE FALSE
    <3>1. q = NewOrderQuery(p, i)
      BY <2>1 DEF NextQuery
    <3>2. NewOrderOK(p, i, l, table)
      BY <1>1, <2>1 DEF ProcOK
    <3>3. q.type \in {RO, RW}
      BY <1>1, <1>2, <2>1, <3>1, <3>2, NewOrderSteps
    <3> QED BY <3>3 DEF RO, RW
  <2> QED BY <2>1
<1>5. p.proc = "DELIVERY"
  BY <1>1, <1>3, <1>4, ParamsAre
<1>6. q = DeliveryQuery(t, p, i) /\ DeliveryOK(p, i, l, o, table)
  BY <1>1, <1>5 DEF NextQuery, ProcOK
<1>7. i \in 1 .. 4 * DistNum
  <2>1. i # 4 * DistNum + 1
    BY <1>2, <1>6, DeliveryEnds
  <2>2. i \in 1 .. 4 * DistNum + 1 /\ DistNum \in Nat
    BY <1>6, DistIs DEF DeliveryOK
  <2> QED BY ONLY <2>1, <2>2
<1>8. PICK d \in Dist : i = 2 * d - 1 \/ i = 2 * d \/ i = 2 * DistNum + d \/ i = 3 * DistNum + d
  BY <1>7, DeliveryPlaces
<1>9. i # 2 * d - 1 /\ i # 2 * d /\ o[d] = 0
  <2>1. ASSUME i = 2 * d - 1 PROVE FALSE
    <3>1. q = Query(NextRec(p.w, d), RW)
      BY <1>6, <2>1, DeliveryQueries
    <3> QED BY <3>1 DEF Query, RW
  <2>2. ASSUME i = 2 * d PROVE FALSE
    <3>1. q = Query(NewRec(p.w, d, o[d]), RO)
      BY <1>6, <2>2, DeliveryQueries
    <3> QED BY <3>1 DEF Query, RO
  <2>3. ASSUME o[d] # 0 PROVE FALSE
    <3>1. q.type = RW
      <4>1. i = 2 * DistNum + d \/ i = 3 * DistNum + d
        BY <1>8, <2>1, <2>2
      <4>2. \E r : q = Query(r, RW)
        <5>1. CASE i = 2 * DistNum + d
          BY <1>6, <2>3, <5>1, DeliveryQueries
        <5>2. CASE i = 3 * DistNum + d
          BY <1>6, <2>3, <5>2, DeliveryQueries
        <5> QED BY <4>1, <5>1, <5>2
      <4> QED BY <4>2, QueryIs
    <3> QED BY <3>1 DEF RW
  <2> QED BY <2>1, <2>2, <2>3
<1>10. DeliveryOK(p, i + 1, l, o, table)
  BY <1>6, <1>8, <1>9, DistrictGoesOn
<1> QED BY <1>5, <1>10 DEF ProcOK

LEMMA Skips == ASSUME TpccInv, NEW t \in Terminal, Skip(t) PROVE TpccInv'
<1>1. /\ tpc' = At(tpc, t, tpc[t]) /\ query' = At(query, t, query[t] + 1) /\ oid' = At(oid, t, oid[t])
      /\ list' = At(list, t, list[t]) /\ par' = At(par, t, par[t])
      /\ table' = table /\ book' = book /\ committed' = committed
  BY TerminalChanges DEF Skip, Advance
<1>2. TermOK(tpc[t], query[t] + 1, committed[t], oid[t], list[t], par[t], table)
  <2>1. TermOK(tpc[t], query[t], committed[t], oid[t], list[t], par[t], table) /\ tpc[t] = "run"
    BY DEF TpccInv, Terminals, Skip
  <2>2. ProcOK(par[t], query[t] + 1, list[t], oid[t], table)
    BY <2>1, SkipsQuery DEF Skip
  <2> QED BY <2>1, <2>2 DEF TermOK
<1>3. \A u \in Terminal : u # t =>
        \A r \in DOMAIN list[t] : r \in DOMAIN list[u] => list[t][r].type = RO /\ list[u][r].type = RO
  BY DEF TpccInv, LocksApart
<1> QED BY <1>1, <1>2, <1>3, LocalStep

\* The items and the new orders are only read: no procedure is refused them.
LEMMA Refuses == ASSUME TpccInv, NEW t \in Terminal, Refused(t) PROVE TpccInv'
<1> DEFINE q == NextQuery(t)
<1>1. TermOK(tpc[t], query[t], committed[t], oid[t], list[t], par[t], table) /\ tpc[t] = "run"
  BY DEF TpccInv, Terminals, Refused
<1>2. q.type \in {RO, RW} /\ ~Unlocked(q.rec, q.type)
  BY DEF Refused, RO, RW
<1>3. q.rec[1] \in {"ITEM", "NEW_ORDER"} => q.type = RO
  BY <1>1, <1>2, TakesQuery
<1>4. q.rec[1] \notin {"ITEM", "NEW_ORDER"}
  <2>1. ASSUME q.rec[1] \in {"ITEM", "NEW_ORDER"} PROVE FALSE
    <3>1. \A u \in Terminal : q.rec \in DOMAIN list[u] => list[u][q.rec].type = RO
      BY <2>1 DEF TpccInv, Terminals, TermOK
    <3> QED BY <1>2, <1>3, <2>1, <3>1 DEF Unlocked, Holders, RO
  <2> QED BY <2>1
<1>5. /\ tpc' = At(tpc, t, tpc[t]) /\ query' = At(query, t, 1) /\ oid' = At(oid, t, [d \in Dist |-> 0])
      /\ list' = At(list, t, [r \in {} |-> 0]) /\ par' = At(par, t, par[t])
      /\ table' = table /\ book' = book /\ committed' = committed
  BY <1>4, TerminalChanges DEF Refused
<1>6. TermOK("run", 1, committed[t], [d \in Dist |-> 0], [r \in {} |-> 0], par[t], table)
  <2>1. ProcOK(par[t], 1, [r \in {} |-> 0], [d \in Dist |-> 0], table)
    BY <1>1, ProcBegins DEF TermOK
  <2>2. [d \in Dist |-> 0] \in [Dist -> 0 .. Cust + 1]
    BY DistIs
  <2> QED BY <1>1, <2>1, <2>2 DEF TermOK
<1>7. TermOK(tpc[t], 1, committed[t], [d \in Dist |-> 0], [r \in {} |-> 0], par[t], table)
  BY <1>1, <1>6
<1>8. \A u \in Terminal : u # t =>
        \A r \in DOMAIN [x \in {} |-> 0] : r \in DOMAIN list[u] => [x \in {} |-> 0][r].type = RO /\ list[u][r].type = RO
  OBVIOUS
<1> QED BY <1>5, <1>7, <1>8, LocalStep

\* The access list after SearchRecord, at the terminal that searches.
LEMMA WithIs ==
  ASSUME TpccInv, NEW t \in Terminal, NEW r, NEW y
  PROVE  With(t, r, y) = At(list, t, Locking(list[t], r, y, Updated(par[t].proc, r, table[r])))
BY TerminalChanges DEF With, Locking

\* A record of a kind that the procedure does not treat by itself.
LEMMA FindsAny ==
  ASSUME TpccInv, NEW t \in Terminal, Found(t), NextQuery(t).rec[1] \notin {"NEW_ORDER", "DISTRICT_NEW_ORDER"}
  PROVE  TpccInv'
<1> DEFINE q == NextQuery(t)
           m == Locking(list[t], q.rec, q.type, Updated(par[t].proc, q.rec, table[q.rec]))
<1>1. TermOK(tpc[t], query[t], committed[t], oid[t], list[t], par[t], table) /\ tpc[t] = "run"
  BY DEF TpccInv, Terminals, Found
<1>2. q.type \in {RO, RW} /\ Unlocked(q.rec, q.type)
  BY DEF Found, RO, RW
<1>3. /\ q.rec[1] \in {"ITEM", "NEW_ORDER"} => q.type = RO
      /\ q.rec \in Records
      /\ ProcOK(par[t], query[t] + 1, m, oid[t], table)
  BY <1>1, <1>2, TakesQuery
<1>4. /\ tpc' = At(tpc, t, tpc[t]) /\ query' = At(query, t, query[t] + 1) /\ oid' = At(oid, t, oid[t])
      /\ par' = At(par, t, par[t]) /\ table' = table /\ book' = book /\ committed' = committed
  BY TerminalChanges DEF Found, Advance
<1>5. list' = At(list, t, m)
  <2>1. list' = With(t, q.rec, q.type)
    BY DEF Found
  <2> QED BY <2>1, WithIs
<1>6. DOMAIN m = DOMAIN list[t] \cup {q.rec} /\ m[q.rec].type = q.type /\ \A x \in DOMAIN list[t] \ {q.rec} : m[x] = list[t][x]
  BY DEF Locking
<1>7. TermOK(tpc[t], query[t] + 1, committed[t], oid[t], m, par[t], table)
  <2> HIDE DEF m, q
  <2>1. DOMAIN m \subseteq Records
    BY <1>1, <1>3, <1>6 DEF TermOK
  <2>2. ASSUME NEW r \in DOMAIN m PROVE m[r].type \in {RO, RW} /\ (r[1] \in {"ITEM", "NEW_ORDER"} => m[r].type = RO)
    <3>1. CASE r = q.rec
      BY <1>2, <1>3, <1>6, <3>1
    <3>2. CASE r # q.rec
      BY <1>1, <1>6, <3>2 DEF TermOK
    <3> QED BY <3>1, <3>2
  <2> QED BY <1>1, <1>3, <2>1, <2>2 DEF TermOK
<1>8. ASSUME NEW u \in Terminal, u # t, NEW r \in DOMAIN m, r \in DOMAIN list[u]
      PROVE  m[r].type = RO /\ list[u][r].type = RO
  <2>1. CASE r = q.rec
    <3>1. u \in Holders(q.rec)
      BY <1>8, <2>1 DEF Holders
    <3>2. q.type = RO /\ list[u][q.rec].type = RO
      BY <1>2, <3>1 DEF Unlocked, RO
    <3> HIDE DEF m, q
    <3> QED BY <1>6, <2>1, <3>2
  <2>2. CASE r # q.rec
    <3> HIDE DEF m, q
    <3>1. r \in DOMAIN list[t] /\ m[r] = list[t][r]
      BY <1>6, <1>8, <2>2
    <3> QED BY <1>8, <3>1 DEF TpccInv, LocksApart
  <2> QED BY <2>1, <2>2
<1> HIDE DEF m, q
<1> QED BY <1>4, <1>5, <1>7, <1>8, LocalStep

\* Delivery reads where the new orders of a district begin.
LEMMA FindsCounter ==
  ASSUME TpccInv, NEW t \in Terminal, Found(t), NextQuery(t).rec[1] = "DISTRICT_NEW_ORDER"
  PROVE  TpccInv'
<1> DEFINE q == NextQuery(t)
           p == par[t]
<1>1. TermOK(tpc[t], query[t], committed[t], oid[t], list[t], p, table) /\ tpc[t] = "run"
  BY DEF TpccInv, Terminals, Found
<1>2. q.type \in {RO, RW} /\ Unlocked(q.rec, q.type)
  BY DEF Found, RO, RW
<1>3. p.proc = "DELIVERY" /\ \E d \in Dist : query[t] = 2 * d - 1 /\ q = Query(NextRec(p.w, d), RW)
  BY <1>1, <1>2, TakesQuery
<1>4. PICK d \in Dist : query[t] = 2 * d - 1 /\ q = Query(NextRec(p.w, d), RW)
  BY <1>3
<1>5. PICK r : r = NextRec(p.w, d)
  OBVIOUS
<1>6. q.rec = r /\ q.type = RW /\ r[1] = "DISTRICT_NEW_ORDER" /\ r[3] = d
  BY <1>4, <1>5, QueryIs, KindsApart
<1>7. p \in Params /\ p.w \in Ware /\ r \in Records
  <2>1. p \in Params
    BY <1>1 DEF TermOK
  <2>2. p.w \in Ware
    BY <2>1, ParamsAre
  <2> QED BY <1>5, <2>1, <2>2, RecordsAre
<1> DEFINE m == Locking(list[t], r, RW, table[r])
           e == [oid[t] EXCEPT ![d] = table[r]]
<1>8. /\ tpc' = At(tpc, t, tpc[t]) /\ query' = At(query, t, query[t] + 1) 
      /\ par' = At(par, t, par[t]) /\ table' = table /\ book' = book /\ committed' = committed
  BY TerminalChanges DEF Found, Advance
<1>9. list' = At(list, t, m)
  <2>1. list' = With(t, r, RW)
    BY <1>6 DEF Found
  <2>2. Updated(p.proc, r, table[r]) = table[r]
    BY <1>3, <1>6 DEF Updated
  <2> QED BY <2>1, <2>2, WithIs
<1>10. oid' = At(oid, t, e)
  <2>1. oid' = [oid EXCEPT ![t][d] = table[r]]
    BY <1>6 DEF Found
  <2>2. [oid EXCEPT ![t][d] = table[r]] = [oid EXCEPT ![t] = e]
    OBVIOUS
  <2> QED BY <2>1, <2>2, TerminalChanges
<1>11. DOMAIN m = DOMAIN list[t] \cup {r} /\ m[r].type = RW /\ \A x \in DOMAIN list[t] \ {r} : m[x] = list[t][x]
  BY DEF Locking
<1>12. e \in [Dist -> 0 .. Cust + 1] /\ \A c \in Dist : e[c] = IF c = d THEN table[r] ELSE oid[t][c]
  <2>1. oid[t] \in [Dist -> 0 .. Cust + 1]
    BY <1>1 DEF TermOK
  <2>2. table[r] \in 0 .. Cust + 1
    <3>1. table[r] \in {1} \cup FirstNew .. Cust + 1
      BY <1>5, <1>7 DEF TpccInv, Books, TableOK
    <3>2. FirstNew \in Nat /\ Cust \in Nat
      BY DistIs
    <3> QED BY <3>1, <3>2
  <2> QED BY <2>1, <2>2
<1>13. TermOK(tpc[t], query[t] + 1, committed[t], e, m, p, table)
  <2>1. DeliveryOK(p, query[t], list[t], oid[t], table)
    BY <1>1, <1>3 DEF TermOK, ProcOK
  <2>2. DeliveryOK(p, query[t] + 1, m, e, table)
    BY <1>4, <1>5, <1>12, <2>1, CounterRead
  <2> HIDE DEF m, q, e
  <2>3. DOMAIN m \subseteq Records
    BY <1>1, <1>7, <1>11 DEF TermOK
  <2>4. ASSUME NEW x \in DOMAIN m PROVE m[x].type \in {RO, RW} /\ (x[1] \in {"ITEM", "NEW_ORDER"} => m[x].type = RO)
    <3>1. CASE x = r
      BY <1>6, <1>11, <3>1
    <3>2. CASE x # r
      BY <1>1, <1>11, <3>2 DEF TermOK
    <3> QED BY <3>1, <3>2
  <2>5. ProcOK(p, query[t] + 1, m, e, table)
    BY <1>3, <2>2 DEF ProcOK
  <2> QED BY <1>1, <1>12, <2>3, <2>4, <2>5 DEF TermOK
<1>14. ASSUME NEW u \in Terminal, u # t, NEW x \in DOMAIN m, x \in DOMAIN list[u]
       PROVE  m[x].type = RO /\ list[u][x].type = RO
  <2>1. CASE x = r
    <3>1. u \in Holders(q.rec)
      BY <1>6, <1>14, <2>1 DEF Holders
    <3>2. q.type = RO
      BY <1>2, <3>1 DEF Unlocked, RO
    <3> QED BY <1>6, <3>2 DEF RO, RW
  <2>2. CASE x # r
    <3> HIDE DEF m, q
    <3>1. x \in DOMAIN list[t] /\ m[x] = list[t][x]
      BY <1>11, <1>14, <2>2
    <3> QED BY <1>14, <3>1 DEF TpccInv, LocksApart
  <2> QED BY <2>1, <2>2
<1> HIDE DEF m, q, e, p
<1>15. TpccInv'
  <2>1. par' = At(par, t, p)
    BY <1>8 DEF p
  <2> QED BY <1>8, <1>9, <1>10, <1>13, <1>14, <2>1, LocalStep
<1> QED BY <1>15

\* Delivery looks for the first new order of a district: what both outcomes start from.
LEMMA LooksForOrder ==
  ASSUME TpccInv, NEW t \in Terminal, tpc[t] = "run", NEW q, q = NextQuery(t), q.type \in {RO, RW},
         q.rec[1] = "NEW_ORDER", NEW p, p = par[t], NEW o, o = oid[t], NEW l, l = list[t]
  PROVE  \E d \in Dist :
           /\ p.proc = "DELIVERY" /\ p \in Params /\ p.w \in Ware /\ query[t] = 2 * d /\ q.type = RO
           /\ q.rec = NewRec(p.w, d, o[d]) /\ q.rec[2] = p.w /\ q.rec[3] = d
           /\ DeliveryOK(p, query[t], l, o, table)
           /\ NextRec(p.w, d) \in DOMAIN l /\ l[NextRec(p.w, d)] = [type |-> RW, copy |-> o[d]]
           /\ q.rec \in Records <=> o[d] \in FirstNew .. Cust
<1>1. TermOK(tpc[t], query[t], committed[t], o, l, p, table)
  BY DEF TpccInv, Terminals
<1>2. p.proc = "DELIVERY" /\ \E d \in Dist : query[t] = 2 * d /\ q = Query(NewRec(p.w, d, o[d]), RO)
  BY TakesQuery
<1>3. PICK d \in Dist : query[t] = 2 * d /\ q = Query(NewRec(p.w, d, o[d]), RO)
  BY <1>2
<1>4. q.rec = NewRec(p.w, d, o[d]) /\ q.type = RO /\ q.rec[2] = p.w /\ q.rec[3] = d
  BY <1>3, QueryIs, KindsApart
<1>5. p \in Params /\ p.w \in Ware
  BY <1>1, ParamsAre DEF TermOK
<1>6. DeliveryOK(p, query[t], l, o, table)
  BY <1>1, <1>2 DEF TermOK, ProcOK
<1>7. NextRec(p.w, d) \in DOMAIN l /\ l[NextRec(p.w, d)] = [type |-> RW, copy |-> o[d]]
  <2>1. CounterOK(p, query[t], l, o, table, d)
    BY <1>6 DEF DeliveryOK
  <2> QED BY <1>3, <2>1 DEF CounterOK
<1>8. q.rec \in Records <=> o[d] \in FirstNew .. Cust
  BY <1>4, <1>5, NewRecords
<1> QED BY <1>2, <1>3, <1>4, <1>5, <1>6, <1>7, <1>8

\* What is left of both outcomes: the district's counter is moved in the copy.
LEMMA MovesCounter ==
  ASSUME TpccInv, NEW t \in Terminal, tpc[t] = "run", par[t].proc = "DELIVERY",
         NEW m, NEW e \in [Dist -> 0 .. Cust + 1], DeliveryOK(par[t], query[t] + 1, m, e, table),
         tpc' = tpc, query' = At(query, t, query[t] + 1), oid' = At(oid, t, e), list' = At(list, t, m),
         par' = par, table' = table, book' = book, committed' = committed,
         DOMAIN m \subseteq Records,
         NEW r, r[1] = "NEW_ORDER", NEW n, n[1] = "DISTRICT_NEW_ORDER",
         \A x \in DOMAIN m : \/ x \in DOMAIN list[t] /\ m[x].type = list[t][x].type
                             \/ x = r /\ m[x].type = RO /\ \A u \in Terminal : r \in DOMAIN list[u] => list[u][r].type = RO
  PROVE  TpccInv'
<1>1. TermOK(tpc[t], query[t], committed[t], oid[t], list[t], par[t], table)
  BY DEF TpccInv, Terminals
<1>2. TermOK(tpc[t], query[t] + 1, committed[t], e, m, par[t], table)
  <2>1. \A x \in DOMAIN m : m[x].type \in {RO, RW} /\ (x[1] \in {"ITEM", "NEW_ORDER"} => m[x].type = RO)
    BY <1>1 DEF TermOK
  <2>2. ProcOK(par[t], query[t] + 1, m, e, table)
    BY DEF ProcOK
  <2> QED BY <1>1, <2>1, <2>2 DEF TermOK
<1>3. ASSUME NEW u \in Terminal, u # t, NEW x \in DOMAIN m, x \in DOMAIN list[u]
      PROVE  m[x].type = RO /\ list[u][x].type = RO
  <2>1. CASE x \in DOMAIN list[t] /\ m[x].type = list[t][x].type
    BY <1>3, <2>1 DEF TpccInv, LocksApart
  <2>2. CASE x = r /\ m[x].type = RO /\ \A v \in Terminal : r \in DOMAIN list[v] => list[v][r].type = RO
    BY <1>3, <2>2
  <2> QED BY <2>1, <2>2
<1>4. tpc' = At(tpc, t, tpc[t]) /\ par' = At(par, t, par[t])
  BY TerminalChanges
<1> QED BY <1>2, <1>3, <1>4, LocalStep

LEMMA FindsOrder ==
  ASSUME TpccInv, NEW t \in Terminal, Found(t), NextQuery(t).rec[1] = "NEW_ORDER"
  PROVE  TpccInv'
<1>1. PICK q : q = NextQuery(t)
  OBVIOUS
<1>2. PICK p : p = par[t]
  OBVIOUS
<1>3. PICK o : o = oid[t]
  OBVIOUS
<1>4. PICK l : l = list[t]
  OBVIOUS
<1>5. TermOK(tpc[t], query[t], committed[t], o, l, p, table) /\ tpc[t] = "run"
  BY <1>2, <1>3, <1>4 DEF TpccInv, Terminals, Found
<1>6. q.type \in {RO, RW} /\ q.rec[1] = "NEW_ORDER" /\ q.rec \in Records /\ Unlocked(q.rec, q.type)
  BY <1>1 DEF Found, RO, RW, Missing
<1>7. PICK d \in Dist :
           /\ p.proc = "DELIVERY" /\ p \in Params /\ p.w \in Ware /\ query[t] = 2 * d /\ q.type = RO
           /\ q.rec = NewRec(p.w, d, o[d]) /\ q.rec[2] = p.w /\ q.rec[3] = d
           /\ DeliveryOK(p, query[t], l, o, table)
           /\ NextRec(p.w, d) \in DOMAIN l /\ l[NextRec(p.w, d)] = [type |-> RW, copy |-> o[d]]
           /\ q.rec \in Records <=> o[d] \in FirstNew .. Cust
  BY <1>1, <1>2, <1>3, <1>4, <1>5, <1>6, LooksForOrder
<1>8. PICK r : r = q.rec
  OBVIOUS
<1>9. PICK n : n = NextRec(p.w, d)
  OBVIOUS
<1>10. PICK k : k = Locking(l, r, RO, Updated(p.proc, r, table[r]))
  OBVIOUS
<1>11. PICK m : m = [k EXCEPT ![n].copy = @ + 1]
  OBVIOUS
<1>12. n[1] = "DISTRICT_NEW_ORDER" /\ n # r /\ n = <<"DISTRICT_NEW_ORDER", r[2], r[3]>>
  <2>1. n[1] = "DISTRICT_NEW_ORDER"
    BY <1>9, KindsApart
  <2> QED BY <1>6, <1>7, <1>8, <1>9, <2>1 DEF NextRec
<1>13. DOMAIN k = DOMAIN l \cup {r} /\ k[r].type = RO /\ \A x \in DOMAIN l \ {r} : k[x] = l[x]
  BY <1>10 DEF Locking
<1>14. n \in DOMAIN k /\ k[n] = [type |-> RW, copy |-> o[d]]
  BY <1>7, <1>9, <1>12, <1>13
<1>15. /\ DOMAIN m = DOMAIN l \cup {r} /\ m[r].type = RO /\ m[n] = [type |-> RW, copy |-> o[d] + 1]
       /\ \A x \in DOMAIN l : x # r /\ x # n => m[x] = l[x]
  <2>1. DOMAIN m = DOMAIN k /\ m[n] = [k[n] EXCEPT !.copy = @ + 1] /\ \A x \in DOMAIN k \ {n} : m[x] = k[x]
    BY <1>11, <1>14
  <2>2. m[n] = [type |-> RW, copy |-> o[d] + 1]
    BY <1>14, <2>1
  <2>3. m[r].type = RO
    BY <1>12, <1>13, <2>1
  <2>4. \A x \in DOMAIN l : x # r /\ x # n => m[x] = l[x]
    BY <1>13, <2>1
  <2> QED BY <1>13, <2>1, <2>2, <2>3, <2>4
<1>16. list' = At(list, t, m)
  <2>1. list' = [With(t, r, RO) EXCEPT ![t][n].copy = @ + 1]
    BY <1>1, <1>6, <1>7, <1>8, <1>12 DEF Found
  <2>2. With(t, r, RO) = At(list, t, k)
    BY <1>2, <1>4, <1>10, WithIs
  <2>3. [At(list, t, k) EXCEPT ![t][n].copy = @ + 1] = At(list, t, m)
    BY <1>11 DEF At
  <2> QED BY <2>1, <2>2, <2>3
<1>17. oid' = At(oid, t, o) /\ o \in [Dist -> 0 .. Cust + 1]
  BY <1>1, <1>3, <1>5, <1>6, TerminalChanges DEF Found, TermOK
<1>18. tpc' = tpc /\ par' = par /\ table' = table /\ book' = book /\ committed' = committed
       /\ query' = At(query, t, query[t] + 1)
  BY TerminalChanges DEF Found, Advance
<1>19. DeliveryOK(p, query[t] + 1, m, o, table)
  <2>1. o[d] \in FirstNew .. Cust
    BY <1>6, <1>7
  <2>2. \A x \in DOMAIN l : x # r /\ x # NextRec(p.w, d) => m[x] = l[x]
    BY <1>9, <1>15
  <2>3. m[NextRec(p.w, d)] = [type |-> RW, copy |-> o[d] + 1]
    BY <1>9, <1>15
  <2>4. DOMAIN m \in {DOMAIN l, DOMAIN l \cup {r}} /\ r = NewRec(p.w, d, o[d]) /\ (r \in DOMAIN m => m[r].type = RO)
    BY <1>7, <1>8, <1>15
  <2>5. PICK i : i = query[t]
    OBVIOUS
  <2>6. i = 2 * d /\ DeliveryOK(p, i, l, o, table)
    BY <1>7, <2>5
  <2>7. Moves(p, l, o, d, m, o, r)
    BY <2>1, <2>2, <2>3, <2>4 DEF Moves
  <2>8. DeliveryOK(p, i + 1, m, o, table)
    BY <2>6, <2>7, CounterMoved
  <2> QED BY <2>5, <2>8
<1>20. DOMAIN m \subseteq Records
  BY <1>5, <1>6, <1>8, <1>15 DEF TermOK
<1>21. \A u \in Terminal : r \in DOMAIN list[u] => list[u][r].type = RO
  BY <1>6, <1>8 DEF Unlocked, Holders, RO
<1>22. \A x \in DOMAIN m : \/ x \in DOMAIN l /\ m[x].type = l[x].type
                           \/ x = r /\ m[x].type = RO /\ \A u \in Terminal : r \in DOMAIN list[u] => list[u][r].type = RO
  <2>1. ASSUME NEW x \in DOMAIN m, x # r PROVE x \in DOMAIN l /\ m[x].type = l[x].type
    <3>1. x \in DOMAIN l
      BY <1>15, <2>1
    <3>2. CASE x = n
      BY <1>7, <1>9, <1>15, <3>1, <3>2
    <3>3. CASE x # n
      BY <1>15, <2>1, <3>1, <3>3
    <3> QED BY <3>1, <3>2, <3>3
  <2> QED BY <1>15, <1>21, <2>1
<1>23. r[1] = "NEW_ORDER"
  BY <1>6, <1>8
<1> QED BY <1>2, <1>4, <1>5, <1>7, <1>12, <1>16, <1>17, <1>18, <1>19, <1>20, <1>22, <1>23, MovesCounter

\* The index does not have it: the district starts again.
LEMMA Misses ==
  ASSUME TpccInv, NEW t \in Terminal, NotFound(t)
  PROVE  TpccInv'
<1>1. PICK q : q = NextQuery(t)
  OBVIOUS
<1>2. PICK p : p = par[t]
  OBVIOUS
<1>3. PICK o : o = oid[t]
  OBVIOUS
<1>4. PICK l : l = list[t]
  OBVIOUS
<1>5. TermOK(tpc[t], query[t], committed[t], o, l, p, table) /\ tpc[t] = "run"
  BY <1>2, <1>3, <1>4 DEF TpccInv, Terminals, NotFound
<1>6. q.type \in {RO, RW} /\ q.rec \notin Records
  BY <1>1 DEF NotFound, RO, RW, Missing
<1>7. q.rec[1] = "NEW_ORDER"
  <2>1. q.rec[1] \notin {"NEW_ORDER", "DISTRICT_NEW_ORDER"} => q.rec \in Records
    BY <1>1, <1>5, <1>6, TakesQuery
  <2>2. q.rec[1] = "DISTRICT_NEW_ORDER" => \E d \in Dist : q = Query(NextRec(p.w, d), RW)
    BY <1>1, <1>2, <1>5, <1>6, TakesQuery
  <2>3. p.w \in Ware
    BY <1>5, ParamsAre DEF TermOK
  <2>4. \A d \in Dist : NextRec(p.w, d) \in Records
    BY <2>3, RecordsAre
  <2> QED BY <1>6, <2>1, <2>2, <2>4, QueryIs
<1>8. PICK d \in Dist :
           /\ p.proc = "DELIVERY" /\ p \in Params /\ p.w \in Ware /\ query[t] = 2 * d /\ q.type = RO
           /\ q.rec = NewRec(p.w, d, o[d]) /\ q.rec[2] = p.w /\ q.rec[3] = d
           /\ DeliveryOK(p, query[t], l, o, table)
           /\ NextRec(p.w, d) \in DOMAIN l /\ l[NextRec(p.w, d)] = [type |-> RW, copy |-> o[d]]
           /\ q.rec \in Records <=> o[d] \in FirstNew .. Cust
  BY <1>1, <1>2, <1>3, <1>4, <1>5, <1>6, <1>7, LooksForOrder
<1>9. PICK n : n = NextRec(p.w, d)
  OBVIOUS
<1>10. PICK m : m = [l EXCEPT ![n].copy = 1]
  OBVIOUS
<1>11. PICK e : e = [o EXCEPT ![d] = 0]
  OBVIOUS
<1>12. n[1] = "DISTRICT_NEW_ORDER" /\ n = <<"DISTRICT_NEW_ORDER", q.rec[2], q.rec[3]>>
  BY <1>8, <1>9, KindsApart DEF NextRec
<1>13. DOMAIN m = DOMAIN l /\ m[n] = [type |-> RW, copy |-> 1] /\ \A x \in DOMAIN l : x # n => m[x] = l[x]
  BY <1>8, <1>9, <1>10
<1>14. e \in [Dist -> 0 .. Cust + 1] /\ e[d] = 0 /\ \A c \in Dist : c # d => e[c] = o[c]
  <2>1. o \in [Dist -> 0 .. Cust + 1] /\ 0 \in 0 .. Cust + 1
    BY <1>5, DistIs DEF TermOK
  <2> QED BY <1>11, <2>1
<1>15. list' = At(list, t, m)
  <2>1. list' = [list EXCEPT ![t][n].copy = 1]
    BY <1>1, <1>12 DEF NotFound
  <2>2. [list EXCEPT ![t][n].copy = 1] = [list EXCEPT ![t] = m]
    BY <1>4, <1>10
  <2> QED BY <2>1, <2>2, TerminalChanges
<1>16. oid' = At(oid, t, e)
  <2>1. oid' = [oid EXCEPT ![t][d] = 0]
    BY <1>1, <1>8 DEF NotFound
  <2>2. [oid EXCEPT ![t][d] = 0] = [oid EXCEPT ![t] = e]
    BY <1>3, <1>11
  <2> QED BY <2>1, <2>2, TerminalChanges
<1>17. tpc' = tpc /\ par' = par /\ table' = table /\ book' = book /\ committed' = committed
       /\ query' = At(query, t, query[t] + 1)
  BY TerminalChanges DEF NotFound, Advance
<1>18. PICK r : r = q.rec
  OBVIOUS
<1>19. DOMAIN m \subseteq Records
  BY <1>5, <1>13 DEF TermOK
<1>20. DeliveryOK(p, query[t] + 1, m, e, table)
  <2>1. o[d] \notin FirstNew .. Cust
    BY <1>6, <1>8
  <2>2. r \in DOMAIN m => m[r].type = RO
    BY <1>6, <1>18, <1>19
  <2>3. \A x \in DOMAIN l : x # r /\ x # NextRec(p.w, d) => m[x] = l[x]
    BY <1>9, <1>13
  <2>4. m[NextRec(p.w, d)] = [type |-> RW, copy |-> 1]
    BY <1>9, <1>13
  <2>5. DOMAIN m \in {DOMAIN l, DOMAIN l \cup {r}} /\ r = NewRec(p.w, d, o[d])
    BY <1>8, <1>13, <1>18
  <2>6. PICK i : i = query[t]
    OBVIOUS
  <2>7. i = 2 * d /\ DeliveryOK(p, i, l, o, table)
    BY <1>8, <2>6
  <2>9. \A c \in Dist : c # d => e[c] = o[c]
    BY <1>14
  <2>10. o[d] \notin FirstNew .. Cust /\ e[d] = 0 /\ m[NextRec(p.w, d)] = [type |-> RW, copy |-> 1]
    BY <1>14, <2>1, <2>4
  <2>11. Moves(p, l, o, d, m, e, r)
    BY <2>2, <2>3, <2>5, <2>9, <2>10 DEF Moves
  <2>8. DeliveryOK(p, i + 1, m, e, table)
    BY <2>7, <2>11, CounterMoved
  <2> QED BY <2>6, <2>8
<1>21. \A x \in DOMAIN m : x \in DOMAIN l /\ m[x].type = l[x].type
  <2>1. ASSUME NEW x \in DOMAIN l PROVE m[x].type = l[x].type
    <3>1. CASE x = n
      BY <1>8, <1>9, <1>13, <3>1
    <3>2. CASE x # n
      BY <1>13, <3>2
    <3> QED BY <3>1, <3>2
  <2> QED BY <1>13, <2>1
<1> QED BY <1>2, <1>4, <1>5, <1>7, <1>8, <1>12, <1>14, <1>15, <1>16, <1>17, <1>18, <1>19, <1>20, <1>21, MovesCounter

------------------------------------------------------------------------------
(* The books *)

\* What the committed procedures do to a table T.
PaymentDoes(p, T, U) ==
  /\ \A v \in Ware : U[WareRec(v)] = IF v = p.w /\ p.wa = RW THEN T[WareRec(v)] + 1 ELSE T[WareRec(v)]
  /\ \A v \in Ware, e \in Dist :
       /\ U[DistRec(v, e)] = IF v = p.w /\ e = p.d /\ p.da = RW
                             THEN [T[DistRec(v, e)] EXCEPT !.ytd = @ + 1] ELSE T[DistRec(v, e)]
       /\ U[NextRec(v, e)] = T[NextRec(v, e)]
       /\ \A c \in 1 .. Cust : U[OrderRec(v, e, c)] = T[OrderRec(v, e, c)]

NewOrderDoes(p, T, U) ==
  /\ \A v \in Ware : U[WareRec(v)] = T[WareRec(v)]
  /\ \A v \in Ware, e \in Dist :
       /\ U[DistRec(v, e)] = IF v = p.w /\ e = p.d /\ p.da = RW
                             THEN [T[DistRec(v, e)] EXCEPT !.next = @ + 1] ELSE T[DistRec(v, e)]
       /\ U[NextRec(v, e)] = T[NextRec(v, e)]
       /\ \A c \in 1 .. Cust : U[OrderRec(v, e, c)] = T[OrderRec(v, e, c)]

DeliveryDoes(p, T, U, n, k) ==
  /\ \A v \in Ware : U[WareRec(v)] = T[WareRec(v)]
  /\ \A v \in Ware, e \in Dist :
       /\ U[DistRec(v, e)] = T[DistRec(v, e)]
       /\ v # p.w => U[NextRec(v, e)] = T[NextRec(v, e)]
       /\ v = p.w => U[NextRec(v, e)] = IF T[NextRec(v, e)] \in FirstNew .. Cust THEN T[NextRec(v, e)] + 1 ELSE 1
       /\ \A c \in 1 .. Cust :
            IF v = p.w /\ c = T[NextRec(v, e)] /\ c >= FirstNew
            THEN /\ U[OrderRec(v, e, c)] = [T[OrderRec(v, e, c)] EXCEPT !.carrier = TRUE]
                 /\ k[OrderRec(v, e, c)] = n[OrderRec(v, e, c)] + 1
            ELSE /\ U[OrderRec(v, e, c)] = T[OrderRec(v, e, c)]
                 /\ k[OrderRec(v, e, c)] = n[OrderRec(v, e, c)]

LEMMA IncomesStay ==
  ASSUME NEW T, NEW U, NEW a, NEW b, Incomes(T, a, b), NEW w \in Ware, U[WareRec(w)] = T[WareRec(w)],
         \A d \in Dist : U[DistRec(w, d)].ytd = T[DistRec(w, d)].ytd, NEW f, IsSum(f, Income(U, w), Dist)
  PROVE  U[WareRec(w)] + b[w] = f[Dist] + a[w]
<1>1. Income(U, w) = Income(T, w)
  BY DEF Income
<1> QED BY <1>1 DEF Incomes

LEMMA NumbersStay ==
  ASSUME NEW T, NEW U, NEW s, Numbered(T, s), \A w \in Ware, d \in Dist : U[DistRec(w, d)].next = T[DistRec(w, d)].next
  PROVE  Numbered(U, s)
BY DEF Numbered

LEMMA DeliveriesStay ==
  ASSUME NEW T, NEW U, NEW n, Deliveries(T, n),
         \A w \in Ware, d \in Dist : /\ U[NextRec(w, d)] = T[NextRec(w, d)]
                                     /\ \A c \in 1 .. Cust : U[OrderRec(w, d, c)] = T[OrderRec(w, d, c)]
  PROVE  Deliveries(U, n)
BY DEF Deliveries, IsDelivered

\* A payment p to warehouse w that accesses the warehouse like y and the district like z.
PaidLike(p, w, y, z) == p.proc = "PAYMENT" /\ p.w = w /\ p.wa = y /\ p.da = z

Tally(n, p, y, z) == [w \in Ware |-> n[w] + IF PaidLike(p, w, y, z) THEN 1 ELSE 0]

LEMMA TallyType == ASSUME NEW n \in [Ware -> Nat], NEW p, NEW y, NEW z PROVE Tally(n, p, y, z) \in [Ware -> Nat]
BY DEF Tally

\* Only payments are counted.
LEMMA TallyStays ==
  ASSUME NEW n \in [Ware -> Nat], NEW p, p.proc # "PAYMENT", NEW y, NEW z
  PROVE  Tally(n, p, y, z) = n
<1>1. \A w \in Ware : Tally(n, p, y, z)[w] = n[w]
  BY DEF Tally, PaidLike
<1> QED BY <1>1, TallyType

LEMMA PaymentBooks ==
  ASSUME NEW T, NEW U, NEW s, NEW n, NEW a, NEW b, Books(T, s, n, a, b),
         NEW p \in Params, p.proc = "PAYMENT", PaymentDoes(p, T, U)
  PROVE  Books(U, s, n, Tally(a, p, RW, RO), Tally(b, p, RO, RW))
<1>1. p.w \in Ware /\ p.d \in Dist /\ p.wa \in {RO, RW} /\ p.da \in {RO, RW}
  BY ParamsAre
<1>2. \A w \in Ware, d \in Dist : T[DistRec(w, d)] \in [ytd : Nat, next : Nat] /\ T[DistRec(w, d)].next > Cust
  BY DEF Books, TableOK
<1>3. \A w \in Ware, d \in Dist :
        /\ U[DistRec(w, d)] \in [ytd : Nat, next : Nat] /\ U[DistRec(w, d)].next = T[DistRec(w, d)].next
        /\ U[DistRec(w, d)].ytd = IF w = p.w /\ d = p.d /\ p.da = RW
                                  THEN T[DistRec(w, d)].ytd + 1 ELSE T[DistRec(w, d)].ytd
  <2>1. SUFFICES ASSUME NEW w \in Ware, NEW d \in Dist
                 PROVE  /\ U[DistRec(w, d)] \in [ytd : Nat, next : Nat] /\ U[DistRec(w, d)].next = T[DistRec(w, d)].next
                        /\ U[DistRec(w, d)].ytd =
                             IF w = p.w /\ d = p.d /\ p.da = RW THEN T[DistRec(w, d)].ytd + 1 ELSE T[DistRec(w, d)].ytd
    OBVIOUS
  <2>2. PICK x : x = T[DistRec(w, d)]
    OBVIOUS
  <2>3. U[DistRec(w, d)] = IF w = p.w /\ d = p.d /\ p.da = RW THEN [x EXCEPT !.ytd = @ + 1] ELSE x
    BY <2>2 DEF PaymentDoes
  <2>4. x \in [ytd : Nat, next : Nat]
    BY <1>2, <2>2
  <2>5. [x EXCEPT !.ytd = @ + 1] \in [ytd : Nat, next : Nat] /\ [x EXCEPT !.ytd = @ + 1].ytd = x.ytd + 1
        /\ [x EXCEPT !.ytd = @ + 1].next = x.next
    BY <2>4
  <2> QED BY <2>2, <2>3, <2>4, <2>5
<1>4. TableOK(U)
  <2>1. \A w \in Ware : U[WareRec(w)] \in Nat
    BY DEF PaymentDoes, Books, TableOK
  <2>2. ASSUME NEW w \in Ware, NEW d \in Dist
        PROVE  /\ U[NextRec(w, d)] \in {1} \cup FirstNew .. Cust + 1
               /\ \A o \in 1 .. Cust : U[OrderRec(w, d, o)] \in [customer : {o}, carrier : BOOLEAN]
    <3>1. /\ T[NextRec(w, d)] \in {1} \cup FirstNew .. Cust + 1
          /\ \A o \in 1 .. Cust : T[OrderRec(w, d, o)] \in [customer : {o}, carrier : BOOLEAN]
      BY DEF Books, TableOK
    <3>2. U[NextRec(w, d)] = T[NextRec(w, d)] /\ \A o \in 1 .. Cust : U[OrderRec(w, d, o)] = T[OrderRec(w, d, o)]
      BY DEF PaymentDoes
    <3> QED BY <3>1, <3>2
  <2>3. ASSUME NEW w \in Ware, NEW d \in Dist
        PROVE  U[DistRec(w, d)] \in [ytd : Nat, next : Nat] /\ U[DistRec(w, d)].next > Cust
    BY <1>2, <1>3
  <2> QED BY <2>1, <2>2, <2>3 DEF TableOK
<1>5. Incomes(U, Tally(a, p, RW, RO), Tally(b, p, RO, RW))
  <2>1. Incomes(T, a, b) /\ a \in [Ware -> Nat] /\ b \in [Ware -> Nat]
    BY DEF Books, Incomes
  <2>2. PICK c, e : c = Tally(a, p, RW, RO) /\ e = Tally(b, p, RO, RW)
    OBVIOUS
  <2>3. c \in [Ware -> Nat] /\ e \in [Ware -> Nat]
    BY <2>1, <2>2, TallyType
  <2>4. ASSUME NEW w \in Ware, NEW f, IsSum(f, Income(U, w), Dist) PROVE U[WareRec(w)] + e[w] = f[Dist] + c[w]
    <3>1. CASE w # p.w
      <4>1. U[WareRec(w)] = T[WareRec(w)]
        BY <3>1 DEF PaymentDoes
      <4>2. \A d \in Dist : U[DistRec(w, d)].ytd = T[DistRec(w, d)].ytd
        BY <1>3, <3>1
      <4>3. U[WareRec(w)] + b[w] = f[Dist] + a[w]
        BY <2>1, <2>4, <4>1, <4>2, IncomesStay
      <4>4. c[w] = a[w] /\ e[w] = b[w]
        BY <2>1, <2>2, <3>1 DEF Tally, PaidLike
      <4> QED BY <4>3, <4>4
    <3>2. CASE w = p.w
      <4>1. IsFiniteSet(Dist)
        BY TpccAssumption
      <4>2. PICK g : g = Income(T, w)
        OBVIOUS
      <4>3. PICK h : h = Income(U, w)
        OBVIOUS
      <4>4. g \in [Dist -> Nat] /\ h \in [Dist -> Nat]
        BY <1>2, <1>3, <4>2, <4>3 DEF Income
      <4>5. PICK q : IsSum(q, g, Dist)
        BY <4>1, SumExists
      <4>6. T[WareRec(w)] + b[w] = q[Dist] + a[w]
        BY <2>1, <4>2, <4>5 DEF Incomes
      <4>7. T[WareRec(w)] \in Nat
        BY DEF Books, TableOK
      <4>8. /\ h[p.d] = IF p.da = RW THEN g[p.d] + 1 ELSE g[p.d]
            /\ \A d \in Dist \ {p.d} : g[d] = h[d]
        BY <1>1, <1>3, <3>2, <4>2, <4>3 DEF Income
      <4>9. f[Dist] + g[p.d] = q[Dist] + h[p.d]
        BY <1>1, <2>4, <4>1, <4>3, <4>4, <4>5, <4>8, SumChanges
      <4>10. f[Dist] \in Nat /\ q[Dist] \in Nat
        BY <2>4, <4>1, <4>3, <4>4, <4>5, SumType
      <4>11. g[p.d] \in Nat
        BY <1>1, <4>4
      <4>12. f[Dist] = q[Dist] + IF p.da = RW THEN 1 ELSE 0
        BY <4>8, <4>9, <4>10, <4>11
      <4>13. U[WareRec(w)] = T[WareRec(w)] + IF p.wa = RW THEN 1 ELSE 0
        BY <3>2, <4>7 DEF PaymentDoes
      <4>14. /\ c[w] = a[w] + IF p.wa = RW /\ p.da = RO THEN 1 ELSE 0
             /\ e[w] = b[w] + IF p.wa = RO /\ p.da = RW THEN 1 ELSE 0
        BY <2>2, <3>2 DEF Tally, PaidLike
      <4>15. a[w] \in Nat /\ b[w] \in Nat
        BY <2>1
      <4> QED BY <1>1, <4>6, <4>7, <4>10, <4>12, <4>13, <4>14, <4>15 DEF RO, RW
    <3> QED BY <3>1, <3>2
  <2> QED BY <2>2, <2>3, <2>4 DEF Incomes
<1>6. Numbered(U, s)
  BY <1>3, NumbersStay DEF Books
<1>7. Deliveries(U, n)
  <2>1. \A w \in Ware, d \in Dist : /\ U[NextRec(w, d)] = T[NextRec(w, d)]
                                      /\ \A c \in 1 .. Cust : U[OrderRec(w, d, c)] = T[OrderRec(w, d, c)]
    BY DEF PaymentDoes
  <2>2. Deliveries(T, n)
    BY DEF Books
  <2> QED BY <2>1, <2>2, DeliveriesStay
<1> QED BY <1>4, <1>5, <1>6, <1>7 DEF Books

LEMMA NewOrderBooks ==
  ASSUME NEW T, NEW U, NEW s, NEW n, NEW a, NEW b, Books(T, s, n, a, b),
         NEW p \in Params, p.proc = "NEW_ORDER", NewOrderDoes(p, T, U),
         NEW z, z = IF p.da = RW THEN [s EXCEPT ![DistRec(p.w, p.d)] = Append(@, T[DistRec(p.w, p.d)].next)] ELSE s
  PROVE  Books(U, z, n, a, b)
<1>1. p.w \in Ware /\ p.d \in Dist
  BY ParamsAre
<1>2. \A w \in Ware, d \in Dist : T[DistRec(w, d)] \in [ytd : Nat, next : Nat] /\ T[DistRec(w, d)].next > Cust
  BY DEF Books, TableOK
<1>3. \A w \in Ware, d \in Dist :
        /\ U[DistRec(w, d)] \in [ytd : Nat, next : Nat] /\ U[DistRec(w, d)].ytd = T[DistRec(w, d)].ytd
        /\ U[DistRec(w, d)].next = IF w = p.w /\ d = p.d /\ p.da = RW
                                   THEN T[DistRec(w, d)].next + 1 ELSE T[DistRec(w, d)].next
        /\ U[DistRec(w, d)].next > Cust
  <2>1. SUFFICES ASSUME NEW w \in Ware, NEW d \in Dist
                 PROVE  /\ U[DistRec(w, d)] \in [ytd : Nat, next : Nat] /\ U[DistRec(w, d)].ytd = T[DistRec(w, d)].ytd
                        /\ U[DistRec(w, d)].next =
                             IF w = p.w /\ d = p.d /\ p.da = RW THEN T[DistRec(w, d)].next + 1 ELSE T[DistRec(w, d)].next
                        /\ U[DistRec(w, d)].next > Cust
    OBVIOUS
  <2>2. PICK x : x = T[DistRec(w, d)]
    OBVIOUS
  <2>3. U[DistRec(w, d)] = IF w = p.w /\ d = p.d /\ p.da = RW THEN [x EXCEPT !.next = @ + 1] ELSE x
    BY <2>2 DEF NewOrderDoes
  <2>4. x \in [ytd : Nat, next : Nat] /\ x.next > Cust /\ Cust \in Nat
    BY <1>2, <2>2, DistIs
  <2>5. [x EXCEPT !.next = @ + 1] \in [ytd : Nat, next : Nat] /\ [x EXCEPT !.next = @ + 1].ytd = x.ytd
        /\ [x EXCEPT !.next = @ + 1].next = x.next + 1 /\ x.next + 1 > Cust
    BY <2>4
  <2> QED BY <2>2, <2>3, <2>4, <2>5
<1>4. TableOK(U)
  <2>1. \A w \in Ware : U[WareRec(w)] \in Nat
    BY DEF NewOrderDoes, Books, TableOK
  <2>2. ASSUME NEW w \in Ware, NEW d \in Dist
        PROVE  /\ U[NextRec(w, d)] \in {1} \cup FirstNew .. Cust + 1
               /\ \A o \in 1 .. Cust : U[OrderRec(w, d, o)] \in [customer : {o}, carrier : BOOLEAN]
    <3>1. /\ T[NextRec(w, d)] \in {1} \cup FirstNew .. Cust + 1
          /\ \A o \in 1 .. Cust : T[OrderRec(w, d, o)] \in [customer : {o}, carrier : BOOLEAN]
      BY DEF Books, TableOK
    <3>2. U[NextRec(w, d)] = T[NextRec(w, d)] /\ \A o \in 1 .. Cust : U[OrderRec(w, d, o)] = T[OrderRec(w, d, o)]
      BY DEF NewOrderDoes
    <3> QED BY <3>1, <3>2
  <2>3. ASSUME NEW w \in Ware, NEW d \in Dist
        PROVE  U[DistRec(w, d)] \in [ytd : Nat, next : Nat] /\ U[DistRec(w, d)].next > Cust
    BY <1>2, <1>3
  <2> QED BY <2>1, <2>2, <2>3 DEF TableOK
<1>5. Incomes(U, a, b)
  <2>1. ASSUME NEW w \in Ware, NEW f, IsSum(f, Income(U, w), Dist) PROVE U[WareRec(w)] + b[w] = f[Dist] + a[w]
    <3>1. U[WareRec(w)] = T[WareRec(w)] /\ Incomes(T, a, b)
      BY DEF NewOrderDoes, Books
    <3> QED BY <1>3, <2>1, <3>1, IncomesStay
  <2>2. a \in [Ware -> Nat] /\ b \in [Ware -> Nat]
    BY DEF Books, Incomes
  <2> QED BY <2>1, <2>2 DEF Incomes
<1>6. Numbered(U, z)
  <2>1. Numbered(T, s)
    BY DEF Books
  <2>2. DOMAIN z = DistrictRecords
    BY <2>1 DEF Numbered
  <2>3. ASSUME NEW w \in Ware, NEW d \in Dist
        PROVE  /\ z[DistRec(w, d)] \in Seq(Nat)
               /\ Len(z[DistRec(w, d)]) = U[DistRec(w, d)].next - (Cust + 1)
               /\ Range(z[DistRec(w, d)]) = Cust + 1 .. U[DistRec(w, d)].next - 1
    <3>1. DistRec(w, d) \in DistrictRecords
      BY DEF DistrictRecords, DistRec
    <3>2. CASE w = p.w /\ d = p.d /\ p.da = RW
      <4>1. PICK x : x = T[DistRec(w, d)].next
        OBVIOUS
      <4>2. PICK q : q = s[DistRec(w, d)]
        OBVIOUS
      <4>3. z[DistRec(w, d)] = Append(q, x)
        BY <2>1, <3>1, <3>2, <4>1, <4>2 DEF Numbered
      <4>4. q \in Seq(Nat) /\ Len(q) = x - (Cust + 1) /\ Range(q) = Cust + 1 .. x - 1 /\ x \in Nat /\ x > Cust /\ Cust \in Nat
        BY <1>2, <2>1, <4>1, <4>2, DistIs DEF Numbered
      <4>5. Append(q, x) \in Seq(Nat) /\ Len(Append(q, x)) = Len(q) + 1
        BY <4>4
      <4>6. Range(Append(q, x)) = Range(q) \cup {x}
        <5>1. DOMAIN Append(q, x) = 1 .. Len(q) + 1 /\ DOMAIN q = 1 .. Len(q) /\ Len(q) \in Nat
              /\ Append(q, x)[Len(q) + 1] = x /\ \A j \in 1 .. Len(q) : Append(q, x)[j] = q[j]
          BY <4>4
        <5>2. ASSUME NEW y \in Range(Append(q, x)) PROVE y \in Range(q) \cup {x}
          <6>1. PICK j \in 1 .. Len(q) + 1 : y = Append(q, x)[j]
            BY <5>1, <5>2 DEF Range
          <6>2. CASE j = Len(q) + 1
            BY <5>1, <6>1, <6>2
          <6>3. CASE j # Len(q) + 1
            <7>1. j \in 1 .. Len(q)
              BY <5>1, <6>3
            <7> QED BY <5>1, <6>1, <7>1 DEF Range
          <6> QED BY <6>2, <6>3
        <5>3. ASSUME NEW y \in Range(q) PROVE y \in Range(Append(q, x))
          <6>1. PICK j \in 1 .. Len(q) : y = q[j]
            BY <5>1, <5>3 DEF Range
          <6>2. j \in 1 .. Len(q) + 1 /\ y = Append(q, x)[j]
            BY <5>1, <6>1
          <6> QED BY <5>1, <6>2 DEF Range
        <5>4. x \in Range(Append(q, x))
          <6>1. Len(q) + 1 \in 1 .. Len(q) + 1
            BY <5>1
          <6> QED BY <5>1, <6>1 DEF Range
        <5> QED BY <5>2, <5>3, <5>4
      <4>7. U[DistRec(w, d)].next = x + 1
        BY <1>3, <3>2, <4>1
      <4>8. Len(q) + 1 = (x + 1) - (Cust + 1) /\ (Cust + 1 .. x - 1) \cup {x} = Cust + 1 .. (x + 1) - 1
        BY <4>4
      <4> QED BY <4>3, <4>4, <4>5, <4>6, <4>7, <4>8
    <3>3. CASE ~(w = p.w /\ d = p.d /\ p.da = RW)
      <4>1. p.da = RW => DistRec(w, d) # DistRec(p.w, p.d)
        BY <3>3, KindsApart
      <4>2. z[DistRec(w, d)] = s[DistRec(w, d)]
        BY <2>1, <3>1, <4>1 DEF Numbered
      <4>3. U[DistRec(w, d)].next = T[DistRec(w, d)].next
        BY <1>3, <3>3
      <4> QED BY <2>1, <4>2, <4>3 DEF Numbered
    <3> QED BY <3>2, <3>3
  <2> QED BY <2>2, <2>3 DEF Numbered
<1>7. Deliveries(U, n)
  <2>1. \A w \in Ware, d \in Dist : /\ U[NextRec(w, d)] = T[NextRec(w, d)]
                                      /\ \A c \in 1 .. Cust : U[OrderRec(w, d, c)] = T[OrderRec(w, d, c)]
    BY DEF NewOrderDoes
  <2>2. Deliveries(T, n)
    BY DEF Books
  <2> QED BY <2>1, <2>2, DeliveriesStay
<1> QED BY <1>4, <1>5, <1>6, <1>7 DEF Books

LEMMA DeliveryBooks ==
  ASSUME NEW T, NEW U, NEW s, NEW n, NEW g, NEW h, Books(T, s, n, g, h), NEW p \in Params,
         NEW k, DOMAIN k = OrderRecords, DeliveryDoes(p, T, U, n, k)
  PROVE  Books(U, s, k, g, h)
<1>1. FirstNew \in Nat /\ FirstNew >= 2 /\ FirstNew <= Cust + 1 /\ Cust \in Nat
  BY DistIs
<1>2. \A w \in Ware, d \in Dist : U[DistRec(w, d)] = T[DistRec(w, d)]
  BY DEF DeliveryDoes
<1>3. ASSUME NEW w \in Ware, NEW d \in Dist, NEW o \in 1 .. Cust
      PROVE  /\ U[NextRec(w, d)] \in {1} \cup FirstNew .. Cust + 1
             /\ U[OrderRec(w, d, o)] \in [customer : {o}, carrier : BOOLEAN]
             /\ k[OrderRec(w, d, o)] = IF IsDelivered(U, w, d, o) THEN 1 ELSE 0
             /\ U[OrderRec(w, d, o)].carrier = (o < FirstNew \/ IsDelivered(U, w, d, o))
  <2>1. PICK x : x = T[OrderRec(w, d, o)]
    OBVIOUS
  <2>2. PICK a : a = T[NextRec(w, d)]
    OBVIOUS
  <2>3. PICK b : b = U[NextRec(w, d)]
    OBVIOUS
  <2>4. a \in {1} \cup FirstNew .. Cust + 1 /\ x \in [customer : {o}, carrier : BOOLEAN]
    BY <2>1, <2>2 DEF Books, TableOK
  <2>5. /\ n[OrderRec(w, d, o)] = IF IsDelivered(T, w, d, o) THEN 1 ELSE 0
        /\ x.carrier = (o < FirstNew \/ IsDelivered(T, w, d, o))
    BY <2>1 DEF Books, Deliveries
  <2>6. IsDelivered(T, w, d, o) <=> o >= FirstNew /\ (a = 1 \/ o < a)
    BY <2>2 DEF IsDelivered
  <2>7. IsDelivered(U, w, d, o) <=> o >= FirstNew /\ (b = 1 \/ o < b)
    BY <2>3 DEF IsDelivered
  <2>8. b = IF w = p.w THEN (IF a \in FirstNew .. Cust THEN a + 1 ELSE 1) ELSE a
    BY <2>2, <2>3 DEF DeliveryDoes
  <2>9. b \in {1} \cup FirstNew .. Cust + 1
    BY <1>1, <2>4, <2>8
  <2>10. CASE w = p.w /\ o = a /\ o >= FirstNew
    <3>1. U[OrderRec(w, d, o)] = [x EXCEPT !.carrier = TRUE] /\ k[OrderRec(w, d, o)] = n[OrderRec(w, d, o)] + 1
      BY <2>1, <2>2, <2>10 DEF DeliveryDoes
    <3>2. [x EXCEPT !.carrier = TRUE] \in [customer : {o}, carrier : BOOLEAN] /\ [x EXCEPT !.carrier = TRUE].carrier = TRUE
      BY <2>4
    <3>3. ~(o >= FirstNew /\ (a = 1 \/ o < a)) /\ (o >= FirstNew /\ (b = 1 \/ o < b))
      BY <1>1, <2>8, <2>10
    <3>4. n[OrderRec(w, d, o)] = 0 /\ IsDelivered(U, w, d, o)
      BY <2>5, <2>6, <2>7, <3>3
    <3>5. k[OrderRec(w, d, o)] = 1
      BY <3>1, <3>4
    <3>6. U[OrderRec(w, d, o)] \in [customer : {o}, carrier : BOOLEAN] /\ U[OrderRec(w, d, o)].carrier = TRUE
      BY <3>1, <3>2
    <3> QED BY <2>3, <2>9, <3>4, <3>5, <3>6
  <2>11. CASE ~(w = p.w /\ o = a /\ o >= FirstNew)
    <3>1. U[OrderRec(w, d, o)] = x /\ k[OrderRec(w, d, o)] = n[OrderRec(w, d, o)]
      BY <2>1, <2>2, <2>11 DEF DeliveryDoes
    <3>2. (o >= FirstNew /\ (a = 1 \/ o < a)) <=> (o >= FirstNew /\ (b = 1 \/ o < b))
      BY <1>1, <2>4, <2>8, <2>11
    <3>3. IsDelivered(U, w, d, o) <=> IsDelivered(T, w, d, o)
      BY <2>6, <2>7, <3>2
    <3> QED BY <2>3, <2>4, <2>5, <2>9, <3>1, <3>3
  <2> QED BY <2>10, <2>11
<1>4. TableOK(U)
  <2>1. \A w \in Ware : U[WareRec(w)] \in Nat
    BY DEF DeliveryDoes, Books, TableOK
  <2>2. 1 \in 1 .. Cust
    BY TpccAssumption
  <2>3. \A w \in Ware, d \in Dist : U[NextRec(w, d)] \in {1} \cup FirstNew .. Cust + 1
    BY <1>3, <2>2
  <2> QED BY <1>2, <1>3, <2>1, <2>3 DEF Books, TableOK
<1>5. Incomes(U, g, h)
  <2>1. ASSUME NEW w \in Ware, NEW f, IsSum(f, Income(U, w), Dist) PROVE U[WareRec(w)] + h[w] = f[Dist] + g[w]
    <3>1. U[WareRec(w)] = T[WareRec(w)] /\ Incomes(T, g, h)
      BY DEF DeliveryDoes, Books
    <3> QED BY <1>2, <2>1, <3>1, IncomesStay
  <2>2. g \in [Ware -> Nat] /\ h \in [Ware -> Nat]
    BY DEF Books, Incomes
  <2> QED BY <2>1, <2>2 DEF Incomes
<1>6. Numbered(U, s)
  BY <1>2, NumbersStay DEF Books
<1>7. Deliveries(U, k)
  BY <1>3 DEF Deliveries
<1> QED BY <1>4, <1>5, <1>6, <1>7 DEF Books

\* A procedure has come to its end.
LEMMA EndsQuery ==
  ASSUME TpccInv, NEW t \in Terminal, tpc[t] = "run", NextQuery(t) = NoQuery, NEW p, p = par[t], NEW i, i = query[t]
  PROVE  /\ p.proc = "PAYMENT" => i = 4
         /\ p.proc = "NEW_ORDER" => i > 2 * Len(p.lines) + 2
         /\ p.proc = "DELIVERY" => i = 4 * DistNum + 1
<1> DEFINE l == list[t]
           o == oid[t]
<1>1. p \in Params /\ ProcOK(p, i, l, o, table)
  BY DEF TpccInv, Terminals, TermOK
<1>2. NoQuery.type = "NONE"
  BY DEF NoQuery, Query
<1>3. ASSUME p.proc = "PAYMENT" PROVE i = 4
  <2>1. NoQuery = PaymentQuery(p, i)
    BY <1>3 DEF NextQuery
  <2>2. i \in 1 .. 4
    BY <1>1, <1>3 DEF ProcOK, PaymentOK
  <2>3. i # 1 /\ i # 2 /\ i # 3
    <3>1. p.wa # "NONE" /\ p.da # "NONE" /\ p.ca # "NONE"
      BY <1>1, <1>3, ParamsAre DEF RO, RW
    <3> QED BY <1>2, <2>1, <3>1 DEF PaymentQuery, Query
  <2> QED BY <2>2, <2>3
<1>4. ASSUME p.proc = "NEW_ORDER" PROVE i > 2 * Len(p.lines) + 2
  <2>1. NoQuery = NewOrderQuery(p, i)
    BY <1>4 DEF NextQuery
  <2>2. PICK k \in Nat : k = Len(p.lines)
    BY <1>1, <1>4, ParamsAre
  <2>3. i \in Nat \ {0}
    BY <1>1, <1>4 DEF ProcOK, NewOrderOK
  <2>9. /\ i <= k => NoQuery = Query(<<"ITEM", p.w, p.lines[i][1]>>, RO)
        /\ i \in k + 1 .. 2 * k => NoQuery = Query(<<"STOCK", p.lines[i - k][2], p.lines[i - k][1]>>, p.lines[i - k][3])
        /\ i = 2 * k + 1 => NoQuery = Query(WareRec(p.w), RO)
        /\ i = 2 * k + 2 => NoQuery = Query(DistRec(p.w, p.d), p.da)
    BY <2>1, <2>2, <2>3, NewOrderQueries, ZenonT(60)
  <2>4. ~(i <= k)
    <3>1. ASSUME i <= k PROVE FALSE
      <4>1. \E r : NoQuery = Query(r, RO)
        BY <2>9, <3>1
      <4>2. NoQuery.type = RO
        BY <4>1, QueryIs
      <4> QED BY <1>2, <4>2 DEF RO
    <3> QED BY <3>1
  <2>5. ~(i \in k + 1 .. 2 * k)
    <3>1. ASSUME i \in k + 1 .. 2 * k PROVE FALSE
      <4>1. NoQuery.type = p.lines[i - k][3]
        BY <2>9, <3>1, QueryIs
      <4>2. i - k \in 1 .. k
        BY <2>2, <3>1
      <4>3. p.lines \in [1 .. k -> Goods \X Ware \X {RO, RW}]
        BY <1>1, <1>4, <2>2, ParamsAre
      <4>4. p.lines[i - k] \in Goods \X Ware \X {RO, RW}
        BY <4>2, <4>3
      <4>5. p.lines[i - k][3] \in {RO, RW}
        BY <4>4
      <4> QED BY <1>2, <4>1, <4>5 DEF RO, RW
    <3> QED BY <3>1
  <2>6. i # 2 * k + 1
    <3>1. ASSUME i = 2 * k + 1 PROVE FALSE
      <4>1. \E r : NoQuery = Query(r, RO)
        BY <2>9, <3>1
      <4>2. NoQuery.type = RO
        BY <4>1, QueryIs
      <4> QED BY <1>2, <4>2 DEF RO
    <3> QED BY <3>1
  <2>7. i # 2 * k + 2
    <3>1. ASSUME i = 2 * k + 2 PROVE FALSE
      <4>1. NoQuery.type = p.da
        BY <2>9, <3>1, QueryIs
      <4>2. p.da \in {RO, RW}
        BY <1>1, <1>4, ParamsAre
      <4> QED BY <1>2, <4>1, <4>2 DEF RO, RW
    <3> QED BY <3>1
  <2>8. i > 2 * k + 2
    <3>1. i \in Nat /\ k \in Nat
      BY <2>2, <2>3
    <3> QED BY ONLY <2>4, <2>5, <2>6, <2>7, <3>1
  <2> QED BY <2>2, <2>8
<1>5. ASSUME p.proc = "DELIVERY" PROVE i = 4 * DistNum + 1
  <2>1. NoQuery = DeliveryQuery(t, p, i)
    BY <1>5 DEF NextQuery
  <2>2. i \in 1 .. 4 * DistNum + 1 /\ DistNum \in Nat
    BY <1>1, <1>5, DistIs DEF ProcOK, DeliveryOK
  <2>3. ASSUME i \in 1 .. 4 * DistNum PROVE FALSE
    <3>1. PICK d \in Dist : i = 2 * d - 1 \/ i = 2 * d \/ i = 2 * DistNum + d \/ i = 3 * DistNum + d
      BY <2>3, DeliveryPlaces
    <3>2. \E r : \E y \in {RO, RW, "SKIP"} : NoQuery = Query(r, y)
      <4>1. CASE i = 2 * d - 1
        BY <2>1, <4>1, DeliveryQueries
      <4>2. CASE i = 2 * d
        BY <2>1, <4>2, DeliveryQueries
      <4>3. CASE i = 2 * DistNum + d
        BY <2>1, <4>3, DeliveryQueries
      <4>4. CASE i = 3 * DistNum + d
        BY <2>1, <4>4, DeliveryQueries
      <4> QED BY <3>1, <4>1, <4>2, <4>3, <4>4
    <3>3. NoQuery.type \in {RO, RW, "SKIP"}
      BY <3>2, QueryIs
    <3> QED BY <1>2, <3>3 DEF RO, RW
  <2> QED BY <2>2, <2>3
<1> QED BY <1>3, <1>4, <1>5

------------------------------------------------------------------------------
(* CommitTransaction *)

\* What the transaction with the access list l makes of the table T.
Writes(l, T, U) == \A r \in Records : U[r] = IF r \in DOMAIN l /\ l[r].type = RW THEN l[r].copy ELSE T[r]

LEMMA PaymentWrites ==
  ASSUME NEW p \in Params, p.proc = "PAYMENT", NEW l, NEW T, NEW U, PaymentOK(p, 4, l, T), Writes(l, T, U)
  PROVE  PaymentDoes(p, T, U)
<1>1. \A r \in DOMAIN l : r \in {WareRec(p.w), DistRec(p.w, p.d), CustRec(p.cw, p.cd, p.c)}
  BY DEF PaymentOK
<1>2. \A r \in DOMAIN l : /\ l[r].copy = Updated("PAYMENT", r, T[r])
                          /\ r = WareRec(p.w) => l[r].type = p.wa
                          /\ r = DistRec(p.w, p.d) => l[r].type = p.da
  BY DEF PaymentOK
<1>3. WareRec(p.w) \in DOMAIN l /\ DistRec(p.w, p.d) \in DOMAIN l
  BY DEF PaymentOK
<1>4. ASSUME NEW v \in Ware PROVE U[WareRec(v)] = IF v = p.w /\ p.wa = RW THEN T[WareRec(v)] + 1 ELSE T[WareRec(v)]
  <2>1. WareRec(v) \in Records /\ WareRec(v)[1] = "WAREHOUSE"
    BY RecordsAre, KindsApart
  <2>2. CASE v = p.w
    <3>1. U[WareRec(v)] = IF p.wa = RW THEN Updated("PAYMENT", WareRec(v), T[WareRec(v)]) ELSE T[WareRec(v)]
      BY <1>2, <1>3, <2>1, <2>2 DEF Writes
    <3> QED BY <2>1, <2>2, <3>1 DEF Updated
  <2>3. CASE v # p.w
    <3>1. WareRec(v) \notin DOMAIN l
      BY <1>1, <2>3 DEF WareRec, DistRec, CustRec
    <3> QED BY <2>1, <2>3, <3>1 DEF Writes
  <2> QED BY <2>2, <2>3
<1>5. ASSUME NEW v \in Ware, NEW e \in Dist
      PROVE  U[DistRec(v, e)] = IF v = p.w /\ e = p.d /\ p.da = RW
                                THEN [T[DistRec(v, e)] EXCEPT !.ytd = @ + 1] ELSE T[DistRec(v, e)]
  <2>1. DistRec(v, e) \in Records /\ DistRec(v, e)[1] = "DISTRICT"
    BY RecordsAre DEF DistRec
  <2>2. CASE v = p.w /\ e = p.d
    <3>1. U[DistRec(v, e)] =
            IF p.da = RW THEN Updated("PAYMENT", DistRec(v, e), T[DistRec(v, e)]) ELSE T[DistRec(v, e)]
      BY <1>2, <1>3, <2>1, <2>2 DEF Writes
    <3> QED BY <2>1, <2>2, <3>1 DEF Updated
  <2>3. CASE ~(v = p.w /\ e = p.d)
    <3>1. DistRec(v, e) \notin DOMAIN l
      BY <1>1, <2>3 DEF WareRec, DistRec, CustRec
    <3> QED BY <2>1, <2>3, <3>1 DEF Writes
  <2> QED BY <2>2, <2>3
<1>6. ASSUME NEW v \in Ware, NEW e \in Dist
      PROVE  U[NextRec(v, e)] = T[NextRec(v, e)] /\ \A c \in 1 .. Cust : U[OrderRec(v, e, c)] = T[OrderRec(v, e, c)]
  <2>1. NextRec(v, e) \in Records /\ \A c \in 1 .. Cust : OrderRec(v, e, c) \in Records
    BY RecordsAre
  <2>2. NextRec(v, e) \notin DOMAIN l /\ \A c : OrderRec(v, e, c) \notin DOMAIN l
    BY <1>1 DEF WareRec, DistRec, CustRec, NextRec, OrderRec
  <2> QED BY <2>1, <2>2 DEF Writes
<1> QED BY <1>4, <1>5, <1>6 DEF PaymentDoes

LEMMA NewOrderWrites ==
  ASSUME NEW p \in Params, p.proc = "NEW_ORDER", NEW l, NEW T, NEW U, NEW i, NewOrderOK(p, i, l, T),
         i > 2 * Len(p.lines) + 2, Writes(l, T, U), TableOK(T)
  PROVE  /\ NewOrderDoes(p, T, U)
         /\ l[DistRec(p.w, p.d)].copy.next - 1 = T[DistRec(p.w, p.d)].next
<1>1. p.w \in Ware /\ p.d \in Dist
  BY ParamsAre
<1>2. DistRec(p.w, p.d) \in DOMAIN l /\ DistRec(p.w, p.d)[1] = "DISTRICT"
  BY KindsApart DEF NewOrderOK
<1>3. l[DistRec(p.w, p.d)] = [type |-> p.da, copy |-> Updated("NEW_ORDER", DistRec(p.w, p.d), T[DistRec(p.w, p.d)])]
  BY <1>2 DEF NewOrderOK
<1>4. l[DistRec(p.w, p.d)].type = p.da
      /\ l[DistRec(p.w, p.d)].copy = [T[DistRec(p.w, p.d)] EXCEPT !.next = @ + 1]
  <2>1. Updated("NEW_ORDER", DistRec(p.w, p.d), T[DistRec(p.w, p.d)]) = [T[DistRec(p.w, p.d)] EXCEPT !.next = @ + 1]
    BY <1>2 DEF Updated
  <2> QED BY <1>3, <2>1
<1>5. ASSUME NEW v \in Ware PROVE U[WareRec(v)] = T[WareRec(v)]
  <2>1. WareRec(v) \in Records /\ WareRec(v)[1] = "WAREHOUSE"
    BY RecordsAre, KindsApart
  <2>2. WareRec(v) \in DOMAIN l => l[WareRec(v)].type # RW
    BY <2>1 DEF NewOrderOK, RO, RW
  <2> QED BY <2>1, <2>2 DEF Writes
<1>6. ASSUME NEW v \in Ware, NEW e \in Dist
      PROVE  U[DistRec(v, e)] = IF v = p.w /\ e = p.d /\ p.da = RW
                                THEN [T[DistRec(v, e)] EXCEPT !.next = @ + 1] ELSE T[DistRec(v, e)]
  <2>1. DistRec(v, e) \in Records /\ DistRec(v, e)[1] = "DISTRICT"
    BY RecordsAre DEF DistRec
  <2>2. CASE v = p.w /\ e = p.d
    BY <1>2, <1>4, <2>1, <2>2 DEF Writes
  <2>3. CASE ~(v = p.w /\ e = p.d)
    <3>1. DistRec(v, e) # DistRec(p.w, p.d)
      BY <2>3 DEF DistRec
    <3>2. DistRec(v, e) \notin DOMAIN l
      BY <2>1, <3>1 DEF NewOrderOK
    <3> QED BY <2>1, <2>3, <3>2 DEF Writes
  <2> QED BY <2>2, <2>3
<1>7. ASSUME NEW v \in Ware, NEW e \in Dist
      PROVE  U[NextRec(v, e)] = T[NextRec(v, e)] /\ \A c \in 1 .. Cust : U[OrderRec(v, e, c)] = T[OrderRec(v, e, c)]
  <2>1. NextRec(v, e) \in Records /\ \A c \in 1 .. Cust : OrderRec(v, e, c) \in Records
    BY RecordsAre
  <2>2. \A r \in DOMAIN l : r[1] \in {"ITEM", "STOCK", "WAREHOUSE", "DISTRICT", "CUSTOMER"}
    BY DEF NewOrderOK
  <2>3. NextRec(v, e)[1] = "DISTRICT_NEW_ORDER" /\ \A c : OrderRec(v, e, c)[1] = "ORDER"
    BY DEF NextRec, OrderRec
  <2>4. NextRec(v, e) \notin DOMAIN l /\ \A c : OrderRec(v, e, c) \notin DOMAIN l
    BY <2>2, <2>3
  <2> QED BY <2>1, <2>4 DEF Writes
<1>8. l[DistRec(p.w, p.d)].copy.next - 1 = T[DistRec(p.w, p.d)].next
  <2>1. PICK x : x = T[DistRec(p.w, p.d)]
    OBVIOUS
  <2>2. x \in [ytd : Nat, next : Nat]
    BY <1>1, <2>1 DEF TableOK
  <2>3. [x EXCEPT !.next = @ + 1].next = x.next + 1 /\ x.next \in Nat
    BY <2>2
  <2>4. (x.next + 1) - 1 = x.next
    BY <2>3
  <2> QED BY <1>4, <2>1, <2>3, <2>4
<1> QED BY <1>5, <1>6, <1>7, <1>8 DEF NewOrderDoes

LEMMA DeliveryWrites ==
  ASSUME NEW p \in Params, NEW l, NEW o, NEW T, NEW U, DeliveryOK(p, 4 * DistNum + 1, l, o, T), Writes(l, T, U),
         TableOK(T), NEW n, Deliveries(T, n),
         NEW k, k = [r \in OrderRecords |-> n[r] + IF r \in DOMAIN l THEN 1 ELSE 0]
  PROVE  DeliveryDoes(p, T, U, n, k)
<1>1. DistNum \in Nat /\ \A d \in Dist : d \in Nat /\ d >= 1 /\ d <= DistNum
  BY DistIs
<1>2. FirstNew \in Nat /\ FirstNew >= 2 /\ FirstNew <= Cust + 1 /\ Cust \in Nat
  BY DistIs
<1>3. ASSUME NEW v \in Ware PROVE U[WareRec(v)] = T[WareRec(v)]
  <2>1. WareRec(v) \in Records /\ WareRec(v)[1] = "WAREHOUSE"
    BY RecordsAre, KindsApart
  <2>2. WareRec(v) \notin DOMAIN l
    BY <2>1 DEF DeliveryOK
  <2> QED BY <2>1, <2>2 DEF Writes
<1>4. ASSUME NEW v \in Ware, NEW e \in Dist PROVE U[DistRec(v, e)] = T[DistRec(v, e)]
  <2>1. DistRec(v, e) \in Records /\ DistRec(v, e)[1] = "DISTRICT"
    BY RecordsAre DEF DistRec
  <2>2. DistRec(v, e) \notin DOMAIN l
    BY <2>1 DEF DeliveryOK
  <2> QED BY <2>1, <2>2 DEF Writes
<1>5. ASSUME NEW e \in Dist
      PROVE  /\ NextRec(p.w, e) \in DOMAIN l
             /\ \/ /\ o[e] = T[NextRec(p.w, e)] /\ o[e] \in FirstNew .. Cust /\ o[e] # 0
                   /\ l[NextRec(p.w, e)] = [type |-> RW, copy |-> o[e] + 1] /\ OrderRec(p.w, e, o[e]) \in DOMAIN l
                \/ /\ o[e] = 0 /\ T[NextRec(p.w, e)] \notin FirstNew .. Cust
                   /\ l[NextRec(p.w, e)] = [type |-> RW, copy |-> 1]
  <2>1. 4 * DistNum + 1 > 2 * e /\ 4 * DistNum + 1 > 2 * DistNum + e
    BY <1>1
  <2>2. CounterOK(p, 4 * DistNum + 1, l, o, T, e)
    BY DEF DeliveryOK
  <2>3. o[e] \in FirstNew .. Cust => o[e] # 0
    BY <1>2
  <2> QED BY <2>1, <2>2, <2>3 DEF CounterOK
<1>6. ASSUME NEW v \in Ware, NEW e \in Dist
      PROVE  /\ v # p.w => U[NextRec(v, e)] = T[NextRec(v, e)]
             /\ v = p.w => U[NextRec(v, e)] = IF T[NextRec(v, e)] \in FirstNew .. Cust THEN T[NextRec(v, e)] + 1 ELSE 1
  <2>1. NextRec(v, e) \in Records /\ NextRec(v, e)[1] = "DISTRICT_NEW_ORDER"
    BY RecordsAre, KindsApart
  <2>2. CASE v = p.w
    <3>1. NextRec(v, e) \in DOMAIN l /\ l[NextRec(v, e)].type = RW
          /\ l[NextRec(v, e)].copy = IF T[NextRec(v, e)] \in FirstNew .. Cust THEN T[NextRec(v, e)] + 1 ELSE 1
      <4>1. PICK r : r = NextRec(v, e)
        OBVIOUS
      <4>2. r \in DOMAIN l
        BY <1>5, <2>2, <4>1
      <4>3. CASE o[e] = T[r] /\ o[e] \in FirstNew .. Cust /\ l[r] = [type |-> RW, copy |-> o[e] + 1]
        BY <4>1, <4>2, <4>3
      <4>4. CASE T[r] \notin FirstNew .. Cust /\ l[r] = [type |-> RW, copy |-> 1]
        BY <4>1, <4>2, <4>4
      <4> QED BY <1>5, <2>2, <4>1, <4>3, <4>4
    <3> QED BY <2>1, <2>2, <3>1 DEF Writes
  <2>3. CASE v # p.w
    <3>1. ASSUME NextRec(v, e) \in DOMAIN l PROVE FALSE
      <4>1. PICK d \in Dist : NextRec(v, e) = NextRec(p.w, d)
        BY <2>1, <3>1 DEF DeliveryOK
      <4> QED BY <2>3, <4>1, KindsApart
    <3> QED BY <2>1, <2>3, <3>1 DEF Writes
  <2> QED BY <2>2, <2>3
<1>7. ASSUME NEW v \in Ware, NEW e \in Dist, NEW c \in 1 .. Cust
      PROVE  IF v = p.w /\ c = T[NextRec(v, e)] /\ c >= FirstNew
             THEN /\ U[OrderRec(v, e, c)] = [T[OrderRec(v, e, c)] EXCEPT !.carrier = TRUE]
                  /\ k[OrderRec(v, e, c)] = n[OrderRec(v, e, c)] + 1
             ELSE /\ U[OrderRec(v, e, c)] = T[OrderRec(v, e, c)]
                  /\ k[OrderRec(v, e, c)] = n[OrderRec(v, e, c)]
  <2>1. PICK r : r = OrderRec(v, e, c)
    OBVIOUS
  <2>2. r \in Records /\ r[1] = "ORDER" /\ r \in OrderRecords
    BY <2>1, RecordsAre, KindsApart DEF OrderRecords, OrderRec
  <2>3. n[r] \in {0, 1}
    BY <2>1 DEF Deliveries
  <2>4. CASE v = p.w /\ c = T[NextRec(v, e)] /\ c >= FirstNew
    <3>1. T[NextRec(p.w, e)] \in FirstNew .. Cust
      BY <1>2, <2>4
    <3>2. r \in DOMAIN l
      BY <1>5, <2>1, <2>4, <3>1
    <3>3. l[r] = [type |-> RW, copy |-> Updated("DELIVERY", r, T[r])]
      BY <2>2, <3>2 DEF DeliveryOK
    <3>4. l[r].type = RW /\ l[r].copy = Updated("DELIVERY", r, T[r])
      BY <3>3
    <3>5. U[r] = Updated("DELIVERY", r, T[r])
      BY <2>2, <3>2, <3>4 DEF Writes
    <3>6. U[r] = [T[r] EXCEPT !.carrier = TRUE]
      BY <2>2, <3>5 DEF Updated
    <3>7. k[r] = n[r] + 1
      BY <2>2, <3>2
    <3> QED BY <2>1, <2>4, <3>6, <3>7
  <2>5. CASE ~(v = p.w /\ c = T[NextRec(v, e)] /\ c >= FirstNew)
    <3>1. ASSUME r \in DOMAIN l PROVE FALSE
      <4>1. PICK d \in Dist : o[d] # 0 /\ r = OrderRec(p.w, d, o[d])
        BY <2>2, <3>1 DEF DeliveryOK
      <4>2. v = p.w /\ e = d /\ c = o[d]
        BY <2>1, <4>1 DEF OrderRec
      <4>3. o[e] = T[NextRec(p.w, e)] /\ o[e] \in FirstNew .. Cust
        BY <1>5, <4>1, <4>2
      <4>4. c >= FirstNew
        BY <1>2, <4>2, <4>3
      <4> QED BY <2>5, <4>2, <4>3, <4>4
    <3>2. U[r] = T[r]
      BY <2>2, <3>1 DEF Writes
    <3>3. k[r] = n[r]
      BY <2>2, <2>3, <3>1
    <3> QED BY <2>1, <2>5, <3>2, <3>3
  <2> QED BY <2>4, <2>5
<1> QED BY <1>3, <1>4, <1>6, <1>7 DEF DeliveryDoes

------------------------------------------------------------------------------
(* The steps of a transaction, and the consistency conditions *)

LEMMA Commits == ASSUME TpccInv, NEW t \in Terminal, CommitProc(t) PROVE TpccInv'
<1>1. PICK p : p = par[t]
  OBVIOUS
<1>2. PICK o : o = oid[t]
  OBVIOUS
<1>3. PICK l : l = list[t]
  OBVIOUS
<1>4. PICK i : i = query[t]
  OBVIOUS
<1>5. TermOK(tpc[t], i, committed[t], o, l, p, table) /\ tpc[t] = "run" /\ NextQuery(t) = NoQuery
  BY <1>1, <1>2, <1>3, <1>4 DEF TpccInv, Terminals, CommitProc
<1>6. p \in Params /\ ProcOK(p, i, l, o, table) /\ committed[t] < PerTerminal /\ DOMAIN l \subseteq Records
  BY <1>5 DEF TermOK
<1>7. /\ p.proc = "PAYMENT" => i = 4
      /\ p.proc = "NEW_ORDER" => i > 2 * Len(p.lines) + 2
      /\ p.proc = "DELIVERY" => i = 4 * DistNum + 1
  BY <1>1, <1>4, <1>5, EndsQuery
<1>8. PICK s : s = book.orders
  OBVIOUS
<1>9. PICK n : n = book.delivered
  OBVIOUS
<1>10. PICK T : T = table
  OBVIOUS
<1>11. PICK U : U = [r \in Records |-> IF r \in DOMAIN l /\ l[r].type = RW THEN l[r].copy ELSE T[r]]
  OBVIOUS
<1>12. PICK k : k = [r \in OrderRecords |-> n[r] + IF p.proc = "DELIVERY" /\ r \in DOMAIN l THEN 1 ELSE 0]
  OBVIOUS
<1>13. PICK z : z = IF p.proc = "NEW_ORDER" /\ p.da = RW
                    THEN [s EXCEPT ![DistRec(p.w, p.d)] = Append(@, l[DistRec(p.w, p.d)].copy.next - 1)]
                    ELSE s
  OBVIOUS
<1>14. PICK a, b : a = book.ware /\ b = book.dist
  OBVIOUS
<1>15. PICK c, e : c = Tally(a, p, RW, RO) /\ e = Tally(b, p, RO, RW)
  OBVIOUS
<1>16. table' = U /\ book'.orders = z /\ book'.delivered = k /\ book'.ware = c /\ book'.dist = e
  <2>1. table' = U
    BY <1>3, <1>10, <1>11 DEF CommitProc, RW
  <2>2. NewId(t) = l[DistRec(p.w, p.d)].copy.next - 1
    BY <1>1, <1>3 DEF NewId, DistRec
  <2>3. book' = [orders |-> IF p.proc = "NEW_ORDER" /\ p.da = RW THEN [book.orders EXCEPT ![DistRec(p.w, p.d)] = Append(@, NewId(t))]
                            ELSE book.orders,
                 delivered |-> [r \in OrderRecords |-> book.delivered[r]
                                  + IF p.proc = "DELIVERY" /\ r \in DOMAIN l THEN 1 ELSE 0],
                 ware |-> Tally(book.ware, p, RW, RO), dist |-> Tally(book.dist, p, RO, RW)]
    BY <1>1, <1>3 DEF CommitProc, DistRec, Tally, PaidLike, PaidFor, RO, RW
  <2>4. book' = [orders |-> z, delivered |-> k, ware |-> c, dist |-> e]
    BY <1>8, <1>9, <1>12, <1>13, <1>14, <1>15, <2>2, <2>3
  <2> QED BY <2>1, <2>4
<1>17. Books(T, s, n, a, b)
  BY <1>8, <1>9, <1>10, <1>14 DEF TpccInv
<1>18. ASSUME p.proc # "PAYMENT" PROVE c = a /\ e = b
  <2>1. a \in [Ware -> Nat] /\ b \in [Ware -> Nat]
    BY <1>17 DEF Books, Incomes
  <2> QED BY <1>15, <1>18, <2>1, TallyStays
<1>19. Writes(l, T, U)
  BY <1>11 DEF Writes
<1>20. ASSUME p.proc # "DELIVERY", Books(U, z, n, c, e) PROVE Books(U, z, k, c, e)
  <2>1. ASSUME NEW r \in OrderRecords PROVE k[r] = n[r]
    <3>1. PICK w \in Ware, d \in Dist, j \in 1 .. Cust : r = OrderRec(w, d, j)
      BY DEF OrderRecords, OrderRec
    <3>2. n[r] \in {0, 1}
      BY <1>17, <3>1 DEF Books, Deliveries
    <3> QED BY <1>12, <1>20, <3>2
  <2>2. \A w \in Ware, d \in Dist : \A j \in 1 .. Cust : OrderRec(w, d, j) \in OrderRecords
    BY DEF OrderRecords, OrderRec
  <2>3. DOMAIN k = OrderRecords
    BY <1>12
  <2>4. Deliveries(U, k)
    BY <1>20, <2>1, <2>2, <2>3 DEF Books, Deliveries
  <2> QED BY <1>20, <2>4 DEF Books
<1>21. Books(U, z, k, c, e)
  <2>1. CASE p.proc = "PAYMENT"
    <3>1. PaymentOK(p, 4, l, T)
      BY <1>6, <1>7, <1>10, <2>1 DEF ProcOK
    <3>2. PaymentDoes(p, T, U)
      BY <1>6, <1>19, <2>1, <3>1, PaymentWrites
    <3>3. Books(U, s, n, c, e)
      BY <1>6, <1>17, <1>15, <2>1, <3>2, PaymentBooks
    <3> QED BY <1>13, <1>20, <2>1, <3>3
  <2>2. CASE p.proc = "NEW_ORDER"
    <3>1. NewOrderOK(p, i, l, T) /\ i > 2 * Len(p.lines) + 2 /\ TableOK(T)
      BY <1>6, <1>7, <1>10, <1>17, <2>2 DEF ProcOK, Books
    <3>2. NewOrderDoes(p, T, U) /\ l[DistRec(p.w, p.d)].copy.next - 1 = T[DistRec(p.w, p.d)].next
      BY <1>6, <1>19, <2>2, <3>1, NewOrderWrites
    <3>3. z = IF p.da = RW THEN [s EXCEPT ![DistRec(p.w, p.d)] = Append(@, T[DistRec(p.w, p.d)].next)] ELSE s
      BY <1>13, <2>2, <3>2
    <3>4. Books(U, z, n, a, b)
      BY <1>6, <1>17, <2>2, <3>2, <3>3, NewOrderBooks
    <3> QED BY <1>20, <1>18, <2>2, <3>4
  <2>3. CASE p.proc = "DELIVERY"
    <3>1. DeliveryOK(p, 4 * DistNum + 1, l, o, T)
      BY <1>6, <1>7, <1>10, <2>3 DEF ProcOK
    <3>2. k = [r \in OrderRecords |-> n[r] + IF r \in DOMAIN l THEN 1 ELSE 0]
      BY <1>12, <2>3
    <3>3. TableOK(T) /\ Deliveries(T, n)
      BY <1>17 DEF Books
    <3>4. DeliveryDoes(p, T, U, n, k)
      BY <1>6, <1>19, <3>1, <3>2, <3>3, DeliveryWrites
    <3>5. DOMAIN k = OrderRecords
      BY <3>2
    <3>6. Books(U, s, k, a, b)
      BY <1>6, <1>17, <3>4, <3>5, DeliveryBooks
    <3> QED BY <1>13, <1>18, <2>3, <3>6
  <2> QED BY <1>6, <2>1, <2>2, <2>3, ParamsAre
<1>22. /\ tpc' = At(tpc, t, "idle") /\ query' = At(query, t, 0) /\ oid' = At(oid, t, [d \in Dist |-> 0])
       /\ list' = At(list, t, [r \in {} |-> 0]) /\ par' = At(par, t, NoParam)
       /\ committed' = At(committed, t, committed[t] + 1)
  BY TerminalChanges DEF CommitProc
<1>23. Shaped'
  <2>1. DOMAIN table' = Records
    BY <1>11, <1>16
  <2> QED BY <1>22, <2>1, AtGives DEF Shaped
<1>24. /\ tpc'[t] = "idle" /\ query'[t] = 0 /\ oid'[t] = [d \in Dist |-> 0] /\ DOMAIN list'[t] = {} /\ par'[t] = NoParam
       /\ committed'[t] = committed[t] + 1
       /\ \A u \in Terminal : u # t => /\ tpc'[u] = tpc[u] /\ query'[u] = query[u] /\ oid'[u] = oid[u]
                                       /\ list'[u] = list[u] /\ par'[u] = par[u] /\ committed'[u] = committed[u]
  BY <1>22 DEF At
<1>25. Terminals'
  <2>1. ASSUME NEW u \in Terminal
        PROVE  TermOK(tpc'[u], query'[u], committed'[u], oid'[u], list'[u], par'[u], table')
    <3>1. CASE u = t
      <4>1. committed[t] + 1 \in 0 .. PerTerminal
        BY <1>5, <1>6, TpccAssumption DEF TermOK
      <4>2. [d \in Dist |-> 0] \in [Dist -> 0 .. Cust + 1]
        BY DistIs
      <4> QED BY <1>24, <3>1, <4>1, <4>2 DEF TermOK
    <3>2. CASE u # t
      <4>1. TermOK(tpc[u], query[u], committed[u], oid[u], list[u], par[u], T)
        BY <1>10 DEF TpccInv, Terminals
      <4>2. ASSUME NEW r \in DOMAIN list[u] PROVE U[r] = T[r]
        <5>1. r \in Records
          BY <4>1 DEF TermOK
        <5>2. r \in DOMAIN l => l[r].type # RW
          BY <1>3, <3>2 DEF TpccInv, LocksApart, RO, RW
        <5> QED BY <1>19, <5>1, <5>2 DEF Writes
      <4>3. PICK j, g, q, x : j = query[u] /\ g = list[u] /\ q = par[u] /\ x = oid[u]
        OBVIOUS
      <4>4. tpc[u] = "run" => ProcOK(q, j, g, x, T)
        BY <4>1, <4>3 DEF TermOK
      <4>5. tpc[u] = "run" => ProcOK(q, j, g, x, U)
        BY <4>2, <4>3, <4>4, ProcFrame
      <4>6. TermOK(tpc[u], query[u], committed[u], oid[u], list[u], par[u], U)
        BY <4>1, <4>3, <4>5 DEF TermOK
      <4> QED BY <1>16, <1>24, <3>2, <4>6
    <3> QED BY <3>1, <3>2
  <2> QED BY <2>1 DEF Terminals
<1>26. LocksApart'
  <2>1. ASSUME NEW u \in Terminal, NEW v \in Terminal, u # v, NEW r \in DOMAIN list'[u], r \in DOMAIN list'[v]
        PROVE  list'[u][r].type = RO /\ list'[v][r].type = RO
    <3>1. u # t /\ v # t
      BY <1>24, <2>1
    <3> QED BY <1>24, <2>1, <3>1 DEF TpccInv, LocksApart
  <2> QED BY <2>1 DEF LocksApart
<1> QED BY <1>16, <1>21, <1>23, <1>25, <1>26 DEF TpccInv

LEMMA TpccStarts == TpccInit => TpccInv
<1> SUFFICES ASSUME TpccInit PROVE TpccInv
  OBVIOUS
<1>1. Shaped
  BY DEF TpccInit, Shaped, OnTerminals
<1>2. LocksApart
  BY DEF TpccInit, LocksApart
<1>3. Terminals
  <2>1. [d \in Dist |-> 0] \in [Dist -> 0 .. Cust + 1] /\ 0 \in 0 .. PerTerminal
    BY DistIs, TpccAssumption
  <2> QED BY <2>1 DEF TpccInit, Terminals, TermOK
<1>4. FirstNew \in Nat /\ FirstNew >= 2 /\ FirstNew <= Cust + 1 /\ Cust \in Nat
  BY DistIs
<1>5. ASSUME NEW w \in Ware PROVE table[WareRec(w)] = 0
  <2>1. WareRec(w) \in Records /\ WareRec(w)[1] = "WAREHOUSE"
    BY RecordsAre, KindsApart
  <2> QED BY <2>1 DEF TpccInit, Initial
<1>6. ASSUME NEW w \in Ware, NEW d \in Dist
      PROVE  table[DistRec(w, d)] = [ytd |-> 0, next |-> Cust + 1] /\ table[NextRec(w, d)] = FirstNew
  <2>1. DistRec(w, d) \in Records /\ NextRec(w, d) \in Records
    BY RecordsAre
  <2>2. DistRec(w, d)[1] = "DISTRICT" /\ NextRec(w, d)[1] = "DISTRICT_NEW_ORDER"
    BY DEF DistRec, NextRec
  <2> QED BY <2>1, <2>2 DEF TpccInit, Initial
<1>7. ASSUME NEW w \in Ware, NEW d \in Dist, NEW c \in 1 .. Cust
      PROVE  /\ table[OrderRec(w, d, c)] = [customer |-> c, carrier |-> (c < FirstNew)]
             /\ book.delivered[OrderRec(w, d, c)] = 0
  <2>1. OrderRec(w, d, c) \in Records /\ OrderRec(w, d, c)[1] = "ORDER" /\ OrderRec(w, d, c)[4] = c
    BY RecordsAre DEF OrderRec
  <2>2. OrderRec(w, d, c) \in OrderRecords
    BY DEF OrderRec, OrderRecords
  <2> QED BY <2>1, <2>2 DEF TpccInit, Initial
<1>8. TableOK(table)
  <2>1. ASSUME NEW w \in Ware, NEW d \in Dist
        PROVE  /\ table[DistRec(w, d)] \in [ytd : Nat, next : Nat] /\ table[DistRec(w, d)].next > Cust
               /\ table[NextRec(w, d)] \in {1} \cup FirstNew .. Cust + 1
    BY <1>4, <1>6
  <2>2. ASSUME NEW w \in Ware, NEW d \in Dist, NEW c \in 1 .. Cust
        PROVE  table[OrderRec(w, d, c)] \in [customer : {c}, carrier : BOOLEAN]
    <3>1. PICK b \in BOOLEAN : b = (c < FirstNew)
      <4>1. (c < FirstNew) \in BOOLEAN
        BY <1>4, SMT
      <4> QED BY <4>1, Zenon
    <3>2. table[OrderRec(w, d, c)] = [customer |-> c, carrier |-> b]
      BY <1>7, <3>1
    <3> QED BY <3>2
  <2> QED BY <1>5, <2>1, <2>2 DEF TableOK
<1>9. Incomes(table, book.ware, book.dist)
  <2>1. book.ware = [w \in Ware |-> 0] /\ book.dist = [w \in Ware |-> 0]
    BY DEF TpccInit
  <2>2. ASSUME NEW w \in Ware, NEW f, IsSum(f, Income(table, w), Dist)
        PROVE  table[WareRec(w)] + book.dist[w] = f[Dist] + book.ware[w]
    <3>1. PICK g : g = Income(table, w)
      OBVIOUS
    <3>2. IsSum(f, g, Dist) /\ \A d \in Dist : g[d] = 0
      BY <1>6, <2>2, <3>1 DEF Income
    <3>3. f[Dist] = 0
      BY <3>2, SumOfNone, TpccAssumption
    <3> QED BY <1>5, <2>1, <3>3
  <2> QED BY <2>1, <2>2 DEF Incomes
<1>10. Numbered(table, book.orders)
  <2>1. book.orders = [r \in DistrictRecords |-> <<>>]
    BY DEF TpccInit
  <2>2. ASSUME NEW w \in Ware, NEW d \in Dist
        PROVE  /\ book.orders[DistRec(w, d)] \in Seq(Nat)
               /\ Len(book.orders[DistRec(w, d)]) = table[DistRec(w, d)].next - (Cust + 1)
               /\ Range(book.orders[DistRec(w, d)]) = Cust + 1 .. table[DistRec(w, d)].next - 1
    <3>1. DistRec(w, d) \in DistrictRecords
      BY DEF DistRec, DistrictRecords
    <3>2. book.orders[DistRec(w, d)] = <<>> /\ table[DistRec(w, d)].next = Cust + 1
      BY <1>6, <2>1, <3>1
    <3>3. <<>> \in Seq(Nat) /\ Len(<<>>) = 0 /\ Range(<<>>) = {}
      BY DEF Range
    <3>4. 0 = (Cust + 1) - (Cust + 1) /\ Cust + 1 .. (Cust + 1) - 1 = {}
      BY <1>4
    <3> QED BY <3>2, <3>3, <3>4
  <2> QED BY <2>1, <2>2 DEF Numbered
<1>11. Deliveries(table, book.delivered)
  <2>1. DOMAIN book.delivered = OrderRecords
    BY DEF TpccInit
  <2>2. ASSUME NEW w \in Ware, NEW d \in Dist, NEW c \in 1 .. Cust
        PROVE  /\ book.delivered[OrderRec(w, d, c)] = IF IsDelivered(table, w, d, c) THEN 1 ELSE 0
               /\ table[OrderRec(w, d, c)].carrier = (c < FirstNew \/ IsDelivered(table, w, d, c))
    <3>1. ~IsDelivered(table, w, d, c)
      BY <1>4, <1>6 DEF IsDelivered
    <3>2. PICK b \in BOOLEAN : b = (c < FirstNew)
      <4>1. (c < FirstNew) \in BOOLEAN
        BY <1>4, SMT
      <4> QED BY <4>1, Zenon
    <3>3. table[OrderRec(w, d, c)] = [customer |-> c, carrier |-> b]
      BY <1>7, <3>2
    <3>4. table[OrderRec(w, d, c)].carrier = b
      BY <3>3
    <3>5. b = (c < FirstNew \/ IsDelivered(table, w, d, c))
      BY <3>1, <3>2, Zenon
    <3>6. book.delivered[OrderRec(w, d, c)] = 0
      BY <1>7
    <3> QED BY <3>1, <3>4, <3>5, <3>6
  <2> QED BY <2>1, <2>2 DEF Deliveries
<1> QED BY <1>1, <1>2, <1>3, <1>8, <1>9, <1>10, <1>11 DEF TpccInv, Books

LEMMA TpccSteps == TpccInv /\ [TpccNext]_tpccVars => TpccInv'
<1>1. ASSUME TpccInv, NEW t \in Terminal, Found(t) PROVE TpccInv'
  BY <1>1, FindsAny, FindsCounter, FindsOrder
<1>2. ASSUME TpccInv, UNCHANGED tpccVars PROVE TpccInv'
  BY <1>2 DEF TpccInv, tpccVars, Shaped, Terminals, LocksApart
<1> QED BY <1>1, <1>2, Starts, Skips, Refuses, Misses, Commits DEF TpccNext

\* The income of the districts, as the property sums it.
LEMMA YtdIs ==
  ASSUME NEW w
  PROVE  \E f : IsSum(f, Income(table, w), Dist) /\ YtdSum(w) = f[Dist]
<1> DEFINE Body(f) == [s \in SUBSET Dist |->
                         IF s = {} THEN 0
                         ELSE LET x == CHOOSE x \in s : TRUE IN table[<<"DISTRICT", w, x>>].ytd + f[s \ {x}]]
           F == CHOOSE f : f = Body(f)
<1>1. YtdSum(w) = F[Dist]
  BY DEF YtdSum, MapThenSumSet, MapThenFoldSet
<1>2. ASSUME NEW f PROVE f = Body(f) <=> IsSum(f, Income(table, w), Dist)
  <2>1. ASSUME NEW s \in SUBSET Dist, s # {} PROVE Pick(s) \in Dist
    BY <2>1, PickIn
  <2>2. \A s \in SUBSET Dist :
          Body(f)[s] = IF s = {} THEN 0 ELSE Income(table, w)[Pick(s)] + f[s \ {Pick(s)}]
    BY <2>1 DEF Pick, Income, DistRec
  <2>3. Body(f) = [s \in SUBSET Dist |-> Body(f)[s]]
    OBVIOUS
  <2> HIDE DEF Body
  <2> QED BY <2>2, <2>3 DEF IsSum
<1>3. \E f : f = Body(f)
  <2>1. IsFiniteSet(Dist)
    BY TpccAssumption
  <2> HIDE DEF Body
  <2> QED BY <1>2, <2>1, SumExists
<1>4. F = Body(F)
  <2> HIDE DEF Body
  <2> QED BY <1>3
<1> HIDE DEF F, Body
<1> QED BY <1>1, <1>2, <1>4

LEMMA TpccHolds == TpccInv => TpccConsistent
<1> SUFFICES ASSUME TpccInv PROVE TpccConsistent
  OBVIOUS
<1>1. Books(table, book.orders, book.delivered, book.ware, book.dist) /\ Shaped /\ Terminals
  BY DEF TpccInv
<1>2. TpccTypeOK
  <2>1. OnTerminals(tpc) /\ OnTerminals(query) /\ OnTerminals(oid) /\ OnTerminals(committed) /\ DOMAIN table = Records
    BY <1>1 DEF Shaped
  <2>2. ASSUME NEW t \in Terminal
        PROVE  /\ tpc[t] \in {"idle", "run", "assert"} /\ (par[t] = NoParam \/ par[t] \in Params) /\ query[t] \in Nat
               /\ DOMAIN list[t] \subseteq Records /\ oid[t] \in [Dist -> 0 .. Cust + 1]
               /\ committed[t] \in 0 .. PerTerminal
    BY <1>1 DEF Terminals, TermOK
  <2>3. tpc \in [Terminal -> {"idle", "run", "assert"}]
    BY <2>1, <2>2 DEF OnTerminals
  <2>4. query \in [Terminal -> Nat]
    BY <2>1, <2>2 DEF OnTerminals
  <2>5. oid \in [Terminal -> [Dist -> 0 .. Cust + 1]]
    BY <2>1, <2>2 DEF OnTerminals
  <2>6. committed \in [Terminal -> 0 .. PerTerminal]
    BY <2>1, <2>2 DEF OnTerminals
  <2> QED BY <2>1, <2>2, <2>3, <2>4, <2>5, <2>6 DEF TpccTypeOK
<1>3. YtdAgree
  <2>1. ASSUME NEW w \in Ware
        PROVE  table[<<"WAREHOUSE", w>>] + book.dist[w] = YtdSum(w) + book.ware[w]
    <3>1. PICK f : IsSum(f, Income(table, w), Dist) /\ YtdSum(w) = f[Dist]
      BY YtdIs
    <3>2. table[WareRec(w)] + book.dist[w] = f[Dist] + book.ware[w]
      BY <1>1, <3>1 DEF Books, Incomes
    <3> QED BY <3>1, <3>2 DEF WareRec
  <2> QED BY <2>1, Zenon DEF YtdAgree
<1>4. OrderIds
  <2>1. ASSUME NEW r \in DistrictRecords
        PROVE  /\ Len(book.orders[r]) = table[r].next - (Cust + 1)
               /\ Range(book.orders[r]) = Cust + 1 .. table[r].next - 1
    <3>1. PICK w \in Ware, d \in Dist : r = DistRec(w, d)
      BY DEF DistrictRecords, DistRec
    <3> QED BY <1>1, <3>1 DEF Books, Numbered
  <2> QED BY <2>1 DEF OrderIds
<1>5. DeliveredOnce
  <2>1. ASSUME NEW r \in OrderRecords
        PROVE  /\ book.delivered[r] <= 1 /\ (book.delivered[r] = 1 => r[4] >= FirstNew)
               /\ table[r].carrier = (r[4] < FirstNew \/ book.delivered[r] = 1)
    <3>1. PICK w \in Ware, d \in Dist, o \in 1 .. Cust : r = OrderRec(w, d, o)
      BY DEF OrderRecords, OrderRec
    <3>2. r[4] = o
      BY <3>1 DEF OrderRec
    <3>3. /\ book.delivered[r] = IF IsDelivered(table, w, d, o) THEN 1 ELSE 0
          /\ table[r].carrier = (o < FirstNew \/ IsDelivered(table, w, d, o))
      BY <1>1, <3>1 DEF Books, Deliveries
    <3>4. CASE IsDelivered(table, w, d, o)
      <4>1. o >= FirstNew
        BY <3>4 DEF IsDelivered
      <4>2. book.delivered[r] = 1
        BY <3>3, <3>4
      <4> QED BY <3>2, <3>3, <3>4, <4>1, <4>2
    <3>5. CASE ~IsDelivered(table, w, d, o)
      <4>1. book.delivered[r] = 0
        BY <3>3, <3>5
      <4>2. (o < FirstNew \/ IsDelivered(table, w, d, o)) = (o < FirstNew \/ book.delivered[r] = 1)
        <5>1. book.delivered[r] # 1
          BY <4>1
        <5> QED BY <3>5, <5>1, Zenon
      <4>3. book.delivered[r] <= 1 /\ book.delivered[r] # 1
        BY <4>1
      <4> QED BY <3>2, <3>3, <4>2, <4>3
    <3> QED BY <3>4, <3>5
  <2> QED BY <2>1 DEF DeliveredOnce
<1>6. NoProcAssert
  BY <1>1 DEF Terminals, TermOK, NoProcAssert
<1> QED BY <1>2, <1>3, <1>4, <1>5, <1>6 DEF TpccConsistent

\* The procedures of TPC-C keep the consistency conditions, however they interleave.
THEOREM TpccIsConsistent == TpccSpec => []TpccConsistent
<1>1. TpccInit => TpccInv
  BY TpccStarts
<1>2. TpccInv /\ [TpccNext]_tpccVars => TpccInv'
  BY TpccSteps
<1>3. TpccInv => TpccConsistent
  BY TpccHolds
<1> QED BY <1>1, <1>2, <1>3, PTL DEF TpccSpec
==============================================================================
