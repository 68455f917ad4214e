------------------------------- MODULE WRLock --------------------------------
(****************************************************************************)
(* The reader-writer spin lock of WRLock.h, which guards every cache line   *)
(* and every set of lines.  One 16-bit word holds LOCKED or twice the       *)
(* number of readers; each operation is a load and a compare-and-swap, and  *)
(* the word may change in between.                                          *)
(****************************************************************************)
EXTENDS Integers, FiniteSets

CONSTANTS
  Thread,    \* application threads and cache agents of a node
  Word       \* 2^16: the values of std::atomic<uint16_t> l

\* A thread holds the lock at most once and the word has room for all of them.
ASSUME WordAssumption ==
  /\ IsFiniteSet(Thread)
  /\ Word \in Nat
  /\ 2 * Cardinality(Thread) < Word

UNLOCKED == 0

LOCKED == 1

VARIABLES
  l,     \* the lock word
  pc,    \* what a thread is doing with the lock
  v      \* the value a thread has loaded

vars == <<l, pc, v>>

Init ==
  /\ l = UNLOCKED
  /\ pc = [t \in Thread |-> "out"]
  /\ v = [t \in Thread |-> UNLOCKED]

Goto(t, p) == pc' = [pc EXCEPT ![t] = p]

\* A call of wLock, try_wLock, rLock or try_rLock.
Call(t) ==
  /\ pc[t] = "out"
  /\ \E p \in {"wLock", "try_wLock", "rLock", "try_rLock"} : Goto(t, p)
  /\ UNCHANGED <<l, v>>

\* wLock: spin until the word is UNLOCKED, then try to swap; start over if the
\* swap fails.  try_wLock gives up in both cases.
WLoad(t) ==
  /\ \/ pc[t] = "wLock" /\ l = UNLOCKED /\ Goto(t, "wCas")
     \/ pc[t] = "try_wLock" /\ Goto(t, IF l = UNLOCKED THEN "try_wCas" ELSE "out")
  /\ UNCHANGED <<l, v>>

\* Fault: the wrong expected value, the swap always fails.
WCas_fault(t) ==
  /\ pc[t] \in {"wCas", "try_wCas"}
  /\ Goto(t, IF pc[t] = "wCas" THEN "wLock" ELSE "out")
  /\ UNCHANGED <<l, v>>

WCas(t) ==
  /\ pc[t] \in {"wCas", "try_wCas"}
  /\ IF l = UNLOCKED
     THEN l' = LOCKED /\ Goto(t, "write")
     ELSE l' = l /\ Goto(t, IF pc[t] = "wCas" THEN "wLock" ELSE "out")
  /\ UNCHANGED v

\* Fault: LOCKED is not waited for.
RLoad_fault(t) ==
  /\ \/ pc[t] = "rLock" /\ Goto(t, "rCas")
     \/ pc[t] = "try_rLock" /\ Goto(t, "try_rCas")
  /\ v' = [v EXCEPT ![t] = l]
  /\ UNCHANGED l

\* rLock: spin while the word is LOCKED, then try to add a reader; start over
\* if the word has changed.  try_rLock gives up only when it is LOCKED.
RLoad(t) ==
  /\ \/ pc[t] = "rLock" /\ l # LOCKED /\ Goto(t, "rCas")
     \/ pc[t] = "try_rLock" /\ Goto(t, IF l # LOCKED THEN "try_rCas" ELSE "out")
  /\ v' = [v EXCEPT ![t] = l]
  /\ UNCHANGED l

\* Fault: a store instead of a compare-and-swap.
RCas_fault(t) ==
  /\ pc[t] \in {"rCas", "try_rCas"}
  /\ l' = (v[t] + 2) % Word
  /\ Goto(t, "read")
  /\ UNCHANGED v

RCas(t) ==
  /\ pc[t] \in {"rCas", "try_rCas"}
  /\ IF l = v[t]
     THEN l' = (v[t] + 2) % Word /\ Goto(t, "read")
     ELSE l' = l /\ Goto(t, IF pc[t] = "rCas" THEN "rLock" ELSE "try_rLock")
  /\ UNCHANGED v

RUnlockLoad(t) ==
  /\ pc[t] = "read"
  /\ v' = [v EXCEPT ![t] = l]
  /\ Goto(t, "rUnCas")
  /\ UNCHANGED l

RUnlockCas(t) ==
  /\ pc[t] = "rUnCas"
  /\ IF l = v[t]
     THEN l' = (v[t] - 2) % Word /\ Goto(t, "out")
     ELSE l' = l /\ Goto(t, "read")
  /\ UNCHANGED v

WUnlock(t) ==
  /\ pc[t] = "write"
  /\ l' = UNLOCKED
  /\ Goto(t, "out")
  /\ UNCHANGED v

Step(t) == WLoad(t) \/ WCas(t) \/ RLoad(t) \/ RCas(t)

Unlock(t) == RUnlockLoad(t) \/ RUnlockCas(t) \/ WUnlock(t)

Next == \E t \in Thread : Call(t) \/ Step(t) \/ Unlock(t)

Spec == Init /\ [][Next]_vars

------------------------------------------------------------------------------
\* The word stays a word and every thread is somewhere in the code.
TypeOK ==
  /\ l \in 0 .. Word - 1
  /\ pc \in [Thread -> {"out", "wLock", "try_wLock", "rLock", "try_rLock", "wCas", "try_wCas",
                        "rCas", "try_rCas", "read", "rUnCas", "write"}]
  /\ v \in [Thread -> 0 .. Word - 1]

Reading == {t \in Thread : pc[t] \in {"read", "rUnCas"}}

Writing == {t \in Thread : pc[t] = "write"}

\* A thread inside wLock .. wUnlock is alone.
Exclusive == \A t \in Writing : Reading = {} /\ Writing = {t}

\* The word says exactly who is inside.  A swap that succeeds although the word
\* changed and changed back in the meantime does no harm.
WordCounts ==
  l = IF Writing # {} THEN LOCKED ELSE 2 * Cardinality(Reading)

\* A reader never adds itself to a locked word.
Loaded == \A t \in Thread : pc[t] \in {"rCas", "try_rCas"} => v[t] # LOCKED

LockInv == TypeOK /\ Exclusive /\ WordCounts /\ Loaded

------------------------------------------------------------------------------
\* Threads run, and whoever is inside leaves; nothing makes a thread call.
Fairness == \A t \in Thread : WF_vars(Step(t)) /\ WF_vars(Unlock(t))

FairSpec == Spec /\ Fairness

Inside == Reading \cup Writing

\* The lock is never lost: while threads spin for it, somebody gets in.  (It is
\* not fair: readers that come and go can keep a writer out.)
SomebodyGetsIn ==
  (\E t \in Thread : pc[t] \in {"wLock", "wCas", "rLock", "rCas"}) ~> Inside # {}
==============================================================================
