--------------------------- MODULE RxRestart_proofs ---------------------------
(****************************************************************************)
(* The receive rings never overwrite a message and deliver every message in *)
(* order, for any number of rings and any size (module RxRing).  When the   *)
(* host process is started again, any number of times and with any messages *)
(* unread, they lose no message but those sent during the start, and do not *)
(* skip those (module RxRestart).                                           *)
(****************************************************************************)
EXTENDS RxRestart, TLAPS

\* The next slot is a slot, one step ahead and different.
LEMMA SuccSlot ==
  ASSUME NEW i \in Slot
  PROVE  Succ(i) \in Slot /\ Dist(i, Succ(i)) = 1 /\ Succ(i) # i
BY SizeAssumption DEF Slot, Succ, Dist

\* A distance is less than the size, and 0 only from a slot to itself.
LEMMA DistSlot ==
  ASSUME NEW i \in Slot, NEW j \in Slot
  PROVE  Dist(i, j) \in 0 .. Size - 1 /\ (Dist(i, j) = 0 <=> i = j)
BY SizeAssumption DEF Slot, Dist

\* Moving the far end one slot on adds one, unless it closes the circle.
LEMMA DistNext ==
  ASSUME NEW i \in Slot, NEW j \in Slot, Succ(j) # i
  PROVE  Dist(i, Succ(j)) = Dist(i, j) + 1
BY SizeAssumption DEF Slot, Dist, Succ

\* Moving the near end one slot on takes one off.
LEMMA DistStep ==
  ASSUME NEW i \in Slot, NEW j \in Slot, i # j
  PROVE  Dist(Succ(i), j) = Dist(i, j) - 1
BY SizeAssumption DEF Slot, Dist, Succ

\* Distances add up as long as they do not go round the circle.
LEMMA DistSum ==
  ASSUME NEW i \in Slot, NEW j \in Slot, NEW k \in Slot, Dist(i, j) + Dist(j, k) <= Size - 1
  PROVE  Dist(i, k) = Dist(i, j) + Dist(j, k)
BY SizeAssumption DEF Slot, Dist

\* The window of a ring grows by the slot at its far end.
LEMMA BetweenNext ==
  ASSUME NEW h \in Slot, NEW l \in Slot, Succ(l) # h
  PROVE  Between(h, Succ(l)) = Between(h, l) \cup {l} /\ l \notin Between(h, l)
<1>1. Dist(h, Succ(l)) = Dist(h, l) + 1
  BY DistNext
<1>2. ASSUME NEW i \in Slot
      PROVE  /\ Dist(h, i) \in Nat /\ Dist(h, l) \in Nat
             /\ Dist(h, i) = Dist(h, l) <=> i = l
  BY SizeAssumption DEF Slot, Dist
<1> QED BY <1>1, <1>2 DEF Between

\* It shrinks by the slot at its near end.
LEMMA BetweenStep ==
  ASSUME NEW h \in Slot, NEW l \in Slot, h # l
  PROVE  Between(Succ(h), l) = Between(h, l) \ {h} /\ h \in Between(h, l)
<1>1. Dist(Succ(h), l) = Dist(h, l) - 1 /\ Dist(h, l) \in 1 .. Size - 1 /\ Dist(h, h) = 0
  BY DistStep, DistSlot
<1>2. Dist(Succ(h), h) = Size - 1
  BY SizeAssumption DEF Slot, Succ, Dist
<1>3. ASSUME NEW i \in Slot, i # h
      PROVE  Dist(Succ(h), i) = Dist(h, i) - 1 /\ Dist(h, i) \in Nat
  BY <1>3, DistStep, DistSlot
<1> QED BY <1>1, <1>2, <1>3, SizeAssumption DEF Between

------------------------------------------------------------------------------
(* The flags of one ring *)

\* A message lands: one more flag, at the far end of the window.
LEMMA FlagsLand ==
  ASSUME NEW h \in Slot, NEW l \in Slot, NEW o \in [Slot -> BOOLEAN], NEW step, NEW gone,
         Flags(o, h, l, step, gone), Succ(l) # h, l \notin gone, step = "post" => h # l
  PROVE  Flags([o EXCEPT ![l] = TRUE], h, Succ(l), step, gone)
BY BetweenNext DEF Flags

\* A message lands elsewhere: the window grows, no flag is set.
LEMMA FlagsLost ==
  ASSUME NEW h \in Slot, NEW l \in Slot, NEW o \in [Slot -> BOOLEAN], NEW step, NEW gone,
         Flags(o, h, l, step, gone), Succ(l) # h
  PROVE  Flags(o, h, Succ(l), step, gone \cup {l})
BY BetweenNext DEF Flags

\* The thread clears the first flag.
LEMMA FlagsTake ==
  ASSUME NEW h \in Slot, NEW l \in Slot, NEW o \in [Slot -> BOOLEAN], NEW gone,
         Flags(o, h, l, "poll", gone), o[h]
  PROVE  /\ Flags([o EXCEPT ![h] = FALSE], h, l, "post", gone)
         /\ h # l /\ h \notin gone
<1>1. h \in Between(h, l) /\ h \notin gone
  BY DEF Flags
<1>2. h # l
  BY <1>1, DistSlot DEF Between
<1> QED BY <1>1, <1>2 DEF Flags

\* It goes on to the next slot.
LEMMA FlagsStep ==
  ASSUME NEW h \in Slot, NEW l \in Slot, NEW o, NEW gone,
         Flags(o, h, l, "post", gone), h # l
  PROVE  Flags(o, Succ(h), l, "held", gone)
BY BetweenStep DEF Flags

------------------------------------------------------------------------------
(* The indices *)

\* The whole circle, from the register to the tail.
LEMMA RingDist ==
  ASSUME TypeOK, RingOrder, NEW q \in Queue
  PROVE  /\ Dist(hidx[q], head[q]) = Dist(hidx[q], posted[q]) + Dist(posted[q], head[q])
         /\ Dist(hidx[q], landed[q]) = Dist(hidx[q], head[q]) + Dist(head[q], landed[q])
         /\ Dist(hidx[q], tidx[q]) = Dist(hidx[q], landed[q]) + Dist(landed[q], tidx[q])
         /\ Dist(head[q], tidx[q]) = Dist(head[q], landed[q]) + Dist(landed[q], tidx[q])
<1> DEFINE h == hidx[q]  p == posted[q]  d == head[q]  l == landed[q]  t == tidx[q]
<1>1. h \in Slot /\ p \in Slot /\ d \in Slot /\ l \in Slot /\ t \in Slot
  BY DEF TypeOK
<1>2. Dist(h, p) + Dist(p, d) + Dist(d, l) + Dist(l, t) <= Size - 1
  BY DEF RingOrder
<1>3. /\ Dist(h, p) \in Nat /\ Dist(p, d) \in Nat /\ Dist(d, l) \in Nat /\ Dist(l, t) \in Nat
      /\ Size \in Nat
  BY <1>1, DistSlot, SizeAssumption
<1> HIDE DEF h, p, d, l, t
<1>4. Dist(h, d) = Dist(h, p) + Dist(p, d)
  BY <1>1, <1>2, <1>3, DistSum
<1>5. Dist(h, l) = Dist(h, d) + Dist(d, l)
  BY <1>1, <1>2, <1>3, <1>4, DistSum
<1>6. Dist(h, t) = Dist(h, l) + Dist(l, t)
  BY <1>1, <1>2, <1>3, <1>4, <1>5, DistSum
<1>7. Dist(d, t) = Dist(d, l) + Dist(l, t)
  BY <1>1, <1>2, <1>3, DistSum
<1> QED BY <1>4, <1>5, <1>6, <1>7 DEF h, p, d, l, t

\* A new process starts with the tail as its head, whatever the register holds.
LEMMA InitInv == Init => RingInv
<1> SUFFICES ASSUME Init PROVE RingInv
  OBVIOUS
<1>1. TypeOK
  BY DEF Init, TypeOK
<1>2. RingOrder
  <2> SUFFICES ASSUME NEW q \in Queue
               PROVE  Dist(hidx[q], posted[q]) + Dist(posted[q], head[q]) + Dist(head[q], landed[q])
                        + Dist(landed[q], tidx[q]) <= Size - 1
    BY DEF RingOrder
  <2>1. hidx[q] \in Slot /\ tidx[q] \in Slot
    BY DEF Init
  <2>2. posted[q] = hidx[q] /\ head[q] = tidx[q] /\ landed[q] = tidx[q]
    BY DEF Init
  <2>3. Dist(hidx[q], hidx[q]) = 0 /\ Dist(tidx[q], tidx[q]) = 0
    BY <2>1, DistSlot
  <2>4. Dist(hidx[q], tidx[q]) \in 0 .. Size - 1
    BY <2>1, DistSlot
  <2> QED BY <2>2, <2>3, <2>4, SizeAssumption
<1>3. InOrder
  <2> SUFFICES ASSUME NEW q \in Queue, NEW i \in Slot PROVE i \notin Between(head[q], landed[q])
    BY DEF Init, InOrder, Flags
  <2> QED BY DistSlot DEF Init, Between
<1>4. Taking
  BY DEF Init, Taking
<1> QED BY <1>1, <1>2, <1>3, <1>4 DEF RingInv, Indices

\* What the manager does.
LEMMA DeliverIndices == ASSUME Indices, NEW q \in Queue, Deliver(q) PROVE Indices'
<1>1. CASE ~HasRoom(q)
  BY <1>1 DEF Deliver, Indices, TypeOK, RingOrder, Taking
<1>2. CASE HasRoom(q)
  <2>1. TypeOK'
    BY <1>2, SuccSlot DEF Deliver, Indices, TypeOK
  <2>2. ASSUME NEW p \in Queue
        PROVE  Dist(hidx'[p], posted'[p]) + Dist(posted'[p], head'[p]) + Dist(head'[p], landed'[p])
                 + Dist(landed'[p], tidx'[p]) <= Size - 1
    <3>1. CASE p # q
      BY <1>2, <3>1 DEF Deliver, Indices, TypeOK, RingOrder
    <3>2. CASE p = q
      <4>1. tidx[q] \in Slot /\ hidx[q] \in Slot /\ landed[q] \in Slot /\ tidx'[q] = Succ(tidx[q])
        BY <1>2 DEF Deliver, Indices, TypeOK
      <4>2. Dist(hidx[q], Succ(tidx[q])) = Dist(hidx[q], tidx[q]) + 1
        BY <1>2, <4>1, DistNext DEF HasRoom
      <4>3. Dist(hidx[q], Succ(tidx[q])) <= Size - 1
        BY <4>1, SuccSlot, DistSlot
      <4>4. Dist(landed[q], Succ(tidx[q])) <= Dist(landed[q], tidx[q]) + 1
        BY <4>1, SizeAssumption DEF Slot, Succ, Dist
      <4>5. Dist(hidx[q], tidx[q]) = Dist(hidx[q], posted[q]) + Dist(posted[q], head[q])
               + Dist(head[q], landed[q]) + Dist(landed[q], tidx[q])
        BY RingDist DEF Indices
      <4>6. /\ Dist(hidx[q], posted[q]) \in Nat /\ Dist(posted[q], head[q]) \in Nat
            /\ Dist(head[q], landed[q]) \in Nat /\ Dist(landed[q], tidx[q]) \in Nat
            /\ Dist(landed[q], Succ(tidx[q])) \in Nat /\ Dist(hidx[q], Succ(tidx[q])) \in Nat
        BY DistSlot, SuccSlot DEF Indices, TypeOK
      <4>7. /\ hidx'[q] = hidx[q] /\ posted'[q] = posted[q]
            /\ head'[q] = head[q] /\ landed'[q] = landed[q]
        BY DEF Deliver
      <4> QED BY <3>2, <4>1, <4>2, <4>3, <4>4, <4>5, <4>6, <4>7, SizeAssumption
    <3> QED BY <3>1, <3>2
  <2>3. RingOrder'
    BY <2>2 DEF RingOrder
  <2>4. Taking'
    BY <1>2 DEF Deliver, Indices, Taking
  <2> QED BY <2>1, <2>3, <2>4 DEF Indices
<1> QED BY <1>1, <1>2

\* A register write arrives.
LEMMA RegArriveIndices == ASSUME Indices, NEW q \in Queue, RegArrive(q) PROVE Indices'
<1>1. TypeOK'
  BY DEF RegArrive, Indices, TypeOK
<1>2. ASSUME NEW p \in Queue
      PROVE  Dist(hidx'[p], posted'[p]) + Dist(posted'[p], head'[p]) + Dist(head'[p], landed'[p])
               + Dist(landed'[p], tidx'[p]) <= Size - 1
  <2>1. /\ posted'[p] = posted[p] /\ head'[p] = head[p] /\ landed'[p] = landed[p] /\ tidx'[p] = tidx[p]
        /\ hidx'[p] \in {hidx[p], posted[p]}
    BY DEF RegArrive, Indices, TypeOK
  <2>2. Dist(posted[p], posted[p]) = 0 /\ Dist(hidx[p], posted[p]) \in Nat
    BY DistSlot DEF Indices, TypeOK
  <2>3. /\ Dist(posted[p], head[p]) \in Nat /\ Dist(head[p], landed[p]) \in Nat
        /\ Dist(landed[p], tidx[p]) \in Nat
    BY DistSlot DEF Indices, TypeOK
  <2> QED BY <2>1, <2>2, <2>3, SizeAssumption DEF Indices, RingOrder
<1>3. RingOrder'
  BY <1>2 DEF RingOrder
<1>4. Taking'
  BY DEF RegArrive, Indices, Taking
<1> QED BY <1>1, <1>3, <1>4 DEF Indices

\* A message lands, here or elsewhere.
LEMMA LandIndices ==
  ASSUME Indices, NEW q \in Queue, landed[q] # tidx[q],
         landed' = [landed EXCEPT ![q] = Succ(@)], owner' \in [Queue -> [Slot -> BOOLEAN]],
         UNCHANGED <<tidx, hidx, posted, head, pc, retry>>
  PROVE  Indices' /\ Succ(landed[q]) # head[q]
<1>1. TypeOK'
  BY SuccSlot DEF Indices, TypeOK
<1>2. /\ hidx[q] \in Slot /\ posted[q] \in Slot /\ head[q] \in Slot /\ landed[q] \in Slot
      /\ tidx[q] \in Slot /\ landed[q] # tidx[q] /\ landed'[q] = Succ(landed[q])
  BY DEF Indices, TypeOK
<1>3. /\ Dist(hidx[q], posted[q]) \in Nat /\ Dist(posted[q], head[q]) \in Nat
      /\ Dist(head[q], landed[q]) \in Nat /\ Dist(landed[q], tidx[q]) \in Nat
      /\ Dist(landed[q], tidx[q]) # 0
  BY <1>2, DistSlot
<1>4. Dist(hidx[q], posted[q]) + Dist(posted[q], head[q]) + Dist(head[q], landed[q])
        + Dist(landed[q], tidx[q]) <= Size - 1
  BY DEF Indices, RingOrder
<1>5. Dist(head[q], landed[q]) < Size - 1
  BY <1>3, <1>4, SizeAssumption
<1>6. Succ(landed[q]) # head[q] /\ Dist(head[q], Succ(landed[q])) = Dist(head[q], landed[q]) + 1
  <2>1. ASSUME Succ(landed[q]) = head[q] PROVE Dist(head[q], landed[q]) = Size - 1
    BY <1>2, <2>1, SizeAssumption DEF Slot, Dist, Succ
  <2>2. Succ(landed[q]) # head[q]
    BY <1>3, <1>5, <2>1, SizeAssumption
  <2> QED BY <1>2, <2>2, DistNext
<1>7. Dist(Succ(landed[q]), tidx[q]) = Dist(landed[q], tidx[q]) - 1
  BY <1>2, DistStep
<1>8. RingOrder'
  <2> SUFFICES ASSUME NEW p \in Queue
               PROVE  Dist(hidx'[p], posted'[p]) + Dist(posted'[p], head'[p]) + Dist(head'[p], landed'[p])
                        + Dist(landed'[p], tidx'[p]) <= Size - 1
    BY DEF RingOrder
  <2>1. CASE p # q
    BY <2>1 DEF Indices, TypeOK, RingOrder
  <2>2. CASE p = q
    <3>1. hidx'[q] = hidx[q] /\ posted'[q] = posted[q] /\ head'[q] = head[q] /\ tidx'[q] = tidx[q]
      OBVIOUS
    <3> QED BY <2>2, <3>1, <1>2, <1>3, <1>4, <1>6, <1>7, SizeAssumption
  <2> QED BY <2>1, <2>2
<1>9. Taking'
  <2> SUFFICES ASSUME NEW p \in Queue
               PROVE  /\ pc'[p] = "post" => head'[p] # landed'[p]
                      /\ pc'[p] = "held" => head'[p] = Succ(posted'[p])
    BY DEF Taking
  <2>1. CASE p # q
    BY <2>1 DEF Indices, TypeOK, Taking
  <2>2. CASE p = q
    BY <1>2, <1>6, <2>2 DEF Indices, TypeOK, Taking
  <2> QED BY <2>1, <2>2
<1> QED BY <1>1, <1>6, <1>8, <1>9 DEF Indices

\* The thread clears the flag of the head slot.
LEMMA TakeIndices == ASSUME Indices, NEW q \in Queue, Take(q), head[q] # landed[q] PROVE Indices'
<1>1. TypeOK'
  BY DEF Take, Indices, TypeOK
<1>2. RingOrder'
  BY DEF Take, Indices, RingOrder
<1>3. Taking'
  BY DEF Take, Indices, TypeOK, Taking
<1> QED BY <1>1, <1>2, <1>3 DEF Indices

\* The thread reports the slot it read and goes on to the next.
LEMMA StepHeadIndices == ASSUME Indices, NEW q \in Queue, StepHead(q) PROVE Indices'
<1>1. TypeOK'
  BY SuccSlot DEF StepHead, Indices, TypeOK
<1>2. /\ hidx[q] \in Slot /\ posted[q] \in Slot /\ head[q] \in Slot /\ landed[q] \in Slot
      /\ tidx[q] \in Slot /\ pc[q] = "post" /\ pc'[q] = "held"
      /\ posted'[q] = head[q] /\ head'[q] = Succ(head[q])
  BY DEF StepHead, Indices, TypeOK
<1>3. head[q] # landed[q]
  BY <1>2 DEF Indices, Taking
<1>4. Dist(Succ(head[q]), landed[q]) = Dist(head[q], landed[q]) - 1
  BY <1>2, <1>3, DistStep
<1>5. Dist(head[q], Succ(head[q])) = 1
  BY <1>2, SuccSlot
<1>6. RingOrder'
  <2> SUFFICES ASSUME NEW p \in Queue
               PROVE  Dist(hidx'[p], posted'[p]) + Dist(posted'[p], head'[p]) + Dist(head'[p], landed'[p])
                        + Dist(landed'[p], tidx'[p]) <= Size - 1
    BY DEF RingOrder
  <2>1. CASE p # q
    BY <2>1 DEF StepHead, Indices, TypeOK, RingOrder
  <2>2. CASE p = q
    <3>1. hidx'[q] = hidx[q] /\ landed'[q] = landed[q] /\ tidx'[q] = tidx[q]
      BY DEF StepHead
    <3>2. Dist(hidx[q], head[q]) = Dist(hidx[q], posted[q]) + Dist(posted[q], head[q])
      BY RingDist DEF Indices
    <3>3. Dist(hidx[q], posted[q]) + Dist(posted[q], head[q]) + Dist(head[q], landed[q])
            + Dist(landed[q], tidx[q]) <= Size - 1
      BY DEF Indices, RingOrder
    <3>4. /\ Dist(hidx[q], posted[q]) \in Nat /\ Dist(posted[q], head[q]) \in Nat
          /\ Dist(head[q], landed[q]) \in Nat /\ Dist(landed[q], tidx[q]) \in Nat
          /\ Dist(hidx[q], head[q]) \in Nat
      BY <1>2, DistSlot
    <3> QED BY <1>2, <1>4, <1>5, <2>2, <3>1, <3>2, <3>3, <3>4, SizeAssumption
  <2> QED BY <2>1, <2>2
<1>7. Taking'
  BY DEF StepHead, Indices, TypeOK, Taking
<1> QED BY <1>1, <1>6, <1>7 DEF Indices

\* The caller is done with the slot.
LEMMA ReleaseIndices == ASSUME Indices, NEW q \in Queue, Release(q) PROVE Indices'
<1>1. TypeOK'
  BY DEF Release, Indices, TypeOK
<1>2. RingOrder'
  BY DEF Release, Indices, RingOrder
<1>3. Taking'
  BY DEF Release, Indices, TypeOK, Taking
<1> QED BY <1>1, <1>2, <1>3 DEF Indices

------------------------------------------------------------------------------
(* The rings of one process *)

\* Every step keeps the invariant.
LEMMA NextInv == RingInv /\ [Next]_vars => RingInv'
<1> SUFFICES ASSUME RingInv, [Next]_vars PROVE RingInv'
  OBVIOUS
<1> USE DEF RingInv
<1>1. CASE UNCHANGED vars
  BY <1>1 DEF vars, Indices, TypeOK, RingOrder, InOrder, Flags, Taking, Between
<1>2. ASSUME NEW q \in Queue, Deliver(q) PROVE RingInv'
  BY <1>2, DeliverIndices DEF Deliver, InOrder
<1>3. ASSUME NEW q \in Queue, Land(q) PROVE RingInv'
  <2>1. owner' \in [Queue -> [Slot -> BOOLEAN]]
    BY <1>3 DEF Indices, TypeOK, Land
  <2>2. Indices' /\ Succ(landed[q]) # head[q]
    BY <1>3, <2>1, LandIndices DEF Land
  <2>3. Flags([owner[q] EXCEPT ![landed[q]] = TRUE], head[q], Succ(landed[q]), pc[q], {})
    BY <2>2, FlagsLand DEF Indices, TypeOK, InOrder, Taking
  <2>4. ASSUME NEW p \in Queue PROVE Flags(owner'[p], head'[p], landed'[p], pc'[p], {})
    BY <1>3, <2>3 DEF Land, Indices, TypeOK, InOrder
  <2> QED BY <2>2, <2>4 DEF InOrder
<1>4. ASSUME NEW q \in Queue, RegArrive(q) PROVE RingInv'
  BY <1>4, RegArriveIndices DEF RegArrive, InOrder
<1>5. ASSUME NEW q \in Queue, Take(q) PROVE RingInv'
  <2>1. /\ Flags([owner[q] EXCEPT ![head[q]] = FALSE], head[q], landed[q], "post", {})
        /\ head[q] # landed[q]
    <3>1. Flags(owner[q], head[q], landed[q], "poll", {}) /\ owner[q][head[q]]
      BY <1>5 DEF Take, InOrder
    <3>2. head[q] \in Slot /\ landed[q] \in Slot /\ owner[q] \in [Slot -> BOOLEAN]
      BY DEF Indices, TypeOK
    <3> QED BY <3>1, <3>2, FlagsTake
  <2>2. ASSUME NEW p \in Queue PROVE Flags(owner'[p], head'[p], landed'[p], pc'[p], {})
    BY <1>5, <2>1 DEF Take, Indices, TypeOK, InOrder
  <2> QED BY <1>5, <2>1, <2>2, TakeIndices DEF InOrder
<1>6. ASSUME NEW q \in Queue, StepHead(q) PROVE RingInv'
  <2>1. Flags(owner[q], Succ(head[q]), landed[q], "held", {})
    BY <1>6, FlagsStep DEF StepHead, Indices, TypeOK, InOrder, Taking
  <2>2. ASSUME NEW p \in Queue PROVE Flags(owner'[p], head'[p], landed'[p], pc'[p], {})
    BY <1>6, <2>1 DEF StepHead, Indices, TypeOK, InOrder
  <2> QED BY <1>6, <2>2, StepHeadIndices DEF InOrder
<1>7. ASSUME NEW q \in Queue, Release(q) PROVE RingInv'
  <2>1. ASSUME NEW p \in Queue PROVE Flags(owner'[p], head'[p], landed'[p], pc'[p], {})
    BY <1>7 DEF Release, Indices, TypeOK, InOrder, Flags
  <2> QED BY <1>7, <2>1, ReleaseIndices DEF InOrder
<1> QED BY <1>1, <1>2, <1>3, <1>4, <1>5, <1>6, <1>7 DEF Next

\* A slot in flight is at least as far from the head as the last landed one,
\* and it is not the slot just reported, which the register protects.
LEMMA NotOverwritten ==
  ASSUME Indices, NEW q \in Queue, NEW gone,
         Flags(owner[q], head[q], landed[q], pc[q], gone), NEW i \in Between(landed[q], tidx[q])
  PROVE  ~owner[q][i] /\ i \notin Reading(q)
<1>1. /\ hidx[q] \in Slot /\ posted[q] \in Slot /\ head[q] \in Slot /\ landed[q] \in Slot
      /\ tidx[q] \in Slot /\ i \in Slot /\ pc[q] \in {"poll", "post", "held"}
  BY DEF Indices, TypeOK, Between
<1>2. Dist(landed[q], i) < Dist(landed[q], tidx[q])
  BY DEF Between
<1>3. Dist(hidx[q], posted[q]) + Dist(posted[q], head[q]) + Dist(head[q], landed[q])
        + Dist(landed[q], tidx[q]) <= Size - 1
  BY DEF Indices, RingOrder
<1>4. /\ Dist(hidx[q], posted[q]) \in Nat /\ Dist(posted[q], head[q]) \in Nat
      /\ Dist(head[q], landed[q]) \in Nat /\ Dist(landed[q], tidx[q]) \in Nat
      /\ Dist(landed[q], i) \in Nat /\ Size \in Nat
  BY <1>1, DistSlot, SizeAssumption
<1>5. Dist(head[q], i) = Dist(head[q], landed[q]) + Dist(landed[q], i)
  BY <1>1, <1>2, <1>3, <1>4, DistSum
<1>6. i \notin Between(head[q], landed[q])
  BY <1>4, <1>5 DEF Between
<1>7. ~owner[q][i]
  BY <1>1, <1>6 DEF Flags
<1>8. ASSUME pc[q] = "post" PROVE i # head[q]
  <2>1. Dist(head[q], landed[q]) # 0
    BY <1>1, <1>8, DistSlot DEF Indices, Taking
  <2> QED BY <1>1, <1>4, <1>5, <2>1, DistSlot
<1>9. ASSUME pc[q] = "held" PROVE i # posted[q]
  <2>1. Dist(posted[q], head[q]) = 1
    BY <1>1, <1>9, SuccSlot DEF Indices, Taking
  <2>2. Dist(posted[q], i) = Dist(posted[q], head[q]) + Dist(head[q], i)
    <3>1. Dist(head[q], i) \in Nat
      BY <1>1, DistSlot
    <3> QED BY <1>1, <1>2, <1>3, <1>4, <1>5, <3>1, DistSum
  <2> QED BY <1>1, <1>4, <1>5, <2>1, <2>2, DistSlot
<1> QED BY <1>1, <1>7, <1>8, <1>9 DEF Reading

\* The invariant holds always.
LEMMA Always == Spec => []RingInv
BY InitInv, NextInv, PTL DEF Spec

\* The indices of the rings are slots and flags are flags (rx_ring_buffer::head
\* and reg_q_tidx_arr wrap at the same place).
THEOREM RingTypeCorrect == Spec => []TypeOK
<1>1. RingInv => TypeOK
  BY DEF RingInv, Indices
<1> QED BY <1>1, Always, PTL

\* However late register writes and DMA writes arrive, the manager's full test
\* and step_head together keep it from overwriting an unread message or the one
\* a caller of recv still reads through the pointer it got.
THEOREM RingNoOverwrite == Spec => []NoOverwrite
<1>1. RingInv => NoOverwrite
  BY NotOverwritten DEF RingInv, NoOverwrite, InOrder
<1> QED BY <1>1, Always, PTL

\* The flagged slots are always exactly those between the thread's head and the
\* last landed message: recv finds every message once, in order.
THEOREM RingInOrder == Spec => []InOrder
<1>1. RingInv => InOrder
  BY DEF RingInv
<1> QED BY <1>1, Always, PTL

------------------------------------------------------------------------------
(* The process is started again *)

\* The values of the start's variables.
StartTypes ==
  /\ phase \in [Queue -> {"clear", "low", "high", "run"}]
  /\ lost \in [Queue -> SUBSET Slot]

\* A cleared ring has the flags it should have.
Found(q) == phase[q] # "clear" => Flags(owner[q], head[q], landed[q], pc[q], lost[q])

\* A lost message is ahead of the thread, and is not the one it has found.
Waited(q) ==
  /\ lost[q] \subseteq Between(head[q], tidx[q])
  /\ pc[q] = "post" => phase[q] = "run" /\ head[q] \notin lost[q]

RestartInv == Indices /\ StartTypes /\ \A q \in Queue : Found(q) /\ Waited(q)

\* A step that concerns one ring leaves the others as they are.
LEMMA OthersKeep ==
  ASSUME RestartInv, NEW q \in Queue, NEW p \in Queue, p # q,
         tidx'[p] = tidx[p], landed'[p] = landed[p], head'[p] = head[p],
         owner'[p] = owner[p], pc'[p] = pc[p], phase'[p] = phase[p], lost'[p] = lost[p]
  PROVE  Found(p)' /\ Waited(p)'
BY DEF RestartInv, Found, Waited

\* The window of what was sent grows with the tail, never onto the head.
LEMMA SentNext ==
  ASSUME Indices, NEW q \in Queue, HasRoom(q)
  PROVE  /\ Between(head[q], Succ(tidx[q])) = Between(head[q], tidx[q]) \cup {tidx[q]}
         /\ tidx[q] \notin Between(head[q], landed[q])
         /\ head[q] # landed[q] => tidx[q] # head[q]
<1>1. /\ hidx[q] \in Slot /\ posted[q] \in Slot /\ head[q] \in Slot /\ landed[q] \in Slot
      /\ tidx[q] \in Slot
  BY DEF Indices, TypeOK
<1>2. /\ Dist(hidx[q], posted[q]) \in Nat /\ Dist(posted[q], head[q]) \in Nat
      /\ Dist(head[q], landed[q]) \in Nat /\ Dist(landed[q], tidx[q]) \in Nat
      /\ Dist(hidx[q], head[q]) \in Nat /\ Dist(head[q], head[q]) = 0
      /\ Dist(hidx[q], Succ(tidx[q])) \in 0 .. Size - 1 /\ Size \in Nat
      /\ head[q] # landed[q] => Dist(head[q], landed[q]) # 0
  BY <1>1, DistSlot, SuccSlot, SizeAssumption
<1>3. Dist(head[q], tidx[q]) = Dist(head[q], landed[q]) + Dist(landed[q], tidx[q])
  BY RingDist DEF Indices
<1>4. Dist(head[q], tidx[q]) < Size - 1
  <2>1. Dist(hidx[q], Succ(tidx[q])) = Dist(hidx[q], tidx[q]) + 1
    BY <1>1, DistNext DEF HasRoom
  <2>2. Dist(hidx[q], tidx[q]) = Dist(hidx[q], head[q]) + Dist(head[q], landed[q])
                                    + Dist(landed[q], tidx[q])
    BY RingDist DEF Indices
  <2> QED BY <1>2, <1>3, <2>1, <2>2
<1>5. Succ(tidx[q]) # head[q]
  <2>1. ASSUME Succ(tidx[q]) = head[q] PROVE Dist(head[q], tidx[q]) = Size - 1
    BY <1>1, <2>1, SizeAssumption DEF Slot, Dist, Succ
  <2> QED BY <1>2, <1>3, <1>4, <2>1
<1>6. tidx[q] \notin Between(head[q], landed[q])
  BY <1>2, <1>3 DEF Between
<1>7. head[q] # landed[q] => tidx[q] # head[q]
  BY <1>2, <1>3
<1> QED BY <1>1, <1>5, <1>6, <1>7, BetweenNext

\* What has landed was sent.
LEMMA LandedSent ==
  ASSUME Indices, NEW q \in Queue
  PROVE  /\ Between(head[q], landed[q]) \subseteq Between(head[q], tidx[q])
         /\ landed[q] # tidx[q] => landed[q] \in Between(head[q], tidx[q])
<1>1. /\ head[q] \in Slot /\ landed[q] \in Slot /\ tidx[q] \in Slot
  BY DEF Indices, TypeOK
<1>2. /\ Dist(head[q], landed[q]) \in Nat /\ Dist(landed[q], tidx[q]) \in Nat
      /\ landed[q] # tidx[q] => Dist(landed[q], tidx[q]) # 0
      /\ \A i \in Slot : Dist(head[q], i) \in Nat
  BY <1>1, DistSlot
<1>3. Dist(head[q], tidx[q]) = Dist(head[q], landed[q]) + Dist(landed[q], tidx[q])
  BY RingDist DEF Indices
<1> QED BY <1>1, <1>2, <1>3 DEF Between

\* The new process makes the tail its head: nothing is in flight, nothing lost.
LEMMA ReadTailInv == ASSUME RestartInv, NEW q \in Queue, ReadTail(q) PROVE RestartInv'
<1>1. /\ hidx[q] \in Slot /\ tidx[q] \in Slot /\ landed[q] = tidx[q] /\ posted[q] = hidx[q]
      /\ head'[q] = tidx[q] /\ pc'[q] = "poll" /\ phase'[q] = "clear" /\ lost'[q] = {}
  BY DEF RestartInv, Indices, StartTypes, TypeOK, ReadTail
<1>2. tidx' = tidx /\ landed' = landed /\ hidx' = hidx /\ posted' = posted /\ owner' = owner
  BY DEF ReadTail
<1>3. ASSUME NEW p \in Queue, p # q
      PROVE  head'[p] = head[p] /\ pc'[p] = pc[p] /\ phase'[p] = phase[p] /\ lost'[p] = lost[p]
  BY <1>3 DEF RestartInv, Indices, StartTypes, TypeOK, ReadTail
<1>4. TypeOK' /\ StartTypes'
  BY <1>1 DEF RestartInv, Indices, StartTypes, TypeOK, ReadTail
<1>5. RingOrder'
  <2> SUFFICES ASSUME NEW p \in Queue
               PROVE  Dist(hidx[p], posted[p]) + Dist(posted[p], head'[p]) + Dist(head'[p], landed[p])
                        + Dist(landed[p], tidx[p]) <= Size - 1
    BY <1>2 DEF RingOrder
  <2>1. CASE p # q
    BY <1>3, <2>1 DEF RestartInv, Indices, RingOrder
  <2>2. CASE p = q
    <3>1. Dist(hidx[q], hidx[q]) = 0 /\ Dist(tidx[q], tidx[q]) = 0
      BY <1>1, DistSlot
    <3>2. Dist(hidx[q], tidx[q]) \in 0 .. Size - 1
      BY <1>1, DistSlot
    <3> QED BY <1>1, <2>2, <3>1, <3>2, SizeAssumption
  <2> QED BY <2>1, <2>2
<1>6. Taking'
  BY <1>1, <1>2, <1>3 DEF RestartInv, Indices, Taking
<1>7. ASSUME NEW p \in Queue PROVE Found(p)' /\ Waited(p)'
  <2>1. CASE p = q
    BY <1>1, <2>1 DEF Found, Waited
  <2>2. CASE p # q
    BY <1>2, <1>3, <2>2, OthersKeep
  <2> QED BY <2>1, <2>2
<1> QED BY <1>4, <1>5, <1>6, <1>7 DEF RestartInv, Indices

\* The memset takes the flags of all that has landed.
LEMMA ClearInv == ASSUME RestartInv, NEW q \in Queue, Clear(q) PROVE RestartInv'
<1>1. /\ owner'[q] = [i \in Slot |-> FALSE] /\ phase[q] = "clear" /\ phase'[q] = "low"
      /\ lost'[q] = lost[q] \cup Between(head[q], landed[q])
      /\ pc[q] # "post"
  BY DEF RestartInv, Indices, StartTypes, TypeOK, Clear, Waited
<1>2. /\ tidx' = tidx /\ landed' = landed /\ hidx' = hidx /\ posted' = posted /\ head' = head
      /\ pc' = pc /\ retry' = retry
  BY DEF Clear
<1>3. Indices'
  <2>1. [i \in Slot |-> FALSE] \in [Slot -> BOOLEAN]
    OBVIOUS
  <2>2. TypeOK'
    BY <1>2, <2>1 DEF RestartInv, Indices, TypeOK, Clear
  <2> QED BY <1>2, <2>2 DEF RestartInv, Indices, RingOrder, Taking
<1>4. StartTypes'
  BY DEF RestartInv, StartTypes, Clear, Between
<1>5. ASSUME NEW p \in Queue PROVE Found(p)' /\ Waited(p)'
  <2>1. CASE p = q
    <3>1. Flags([i \in Slot |-> FALSE], head[q], landed[q], pc[q], lost'[q])
      BY <1>1 DEF Flags
    <3>2. lost'[q] \subseteq Between(head[q], tidx[q])
      BY <1>1, LandedSent DEF RestartInv, Waited
    <3> QED BY <1>1, <1>2, <2>1, <3>1, <3>2 DEF Found, Waited
  <2>2. CASE p # q
    <3>1. owner'[p] = owner[p] /\ phase'[p] = phase[p] /\ lost'[p] = lost[p]
      BY <2>2 DEF RestartInv, Indices, StartTypes, TypeOK, Clear
    <3> QED BY <1>2, <2>2, <3>1, OthersKeep
  <2> QED BY <2>1, <2>2
<1> QED BY <1>3, <1>4, <1>5 DEF RestartInv

\* The two writes of the address change where later messages go.
LEMMA AddressInv ==
  ASSUME RestartInv, NEW q \in Queue, WriteLow(q) \/ WriteHigh(q)
  PROVE  RestartInv'
<1>1. UNCHANGED vars /\ lost' = lost
  BY DEF WriteLow, WriteHigh
<1>2. phase[q] \in {"low", "high"} /\ phase'[q] # "clear" /\ StartTypes'
  BY DEF WriteLow, WriteHigh, RestartInv, StartTypes
<1>3. \A p \in Queue : p # q => phase'[p] = phase[p]
  BY DEF WriteLow, WriteHigh, RestartInv, StartTypes
<1>4. Indices'
  BY <1>1 DEF vars, RestartInv, Indices, TypeOK, RingOrder, Taking
<1>5. ASSUME NEW p \in Queue PROVE Found(p)' /\ Waited(p)'
  BY <1>1, <1>2, <1>3 DEF vars, RestartInv, Found, Waited
<1> QED BY <1>2, <1>4, <1>5 DEF RestartInv

\* A message that goes elsewhere joins the lost ones at the far end.
LEMMA SendInv == ASSUME RestartInv, NEW q \in Queue, Send(q) PROVE RestartInv'
<1>1. Indices'
  BY DeliverIndices DEF RestartInv, Send
<1>2. /\ landed' = landed /\ head' = head /\ owner' = owner /\ pc' = pc /\ phase' = phase
  BY DEF Send, Deliver, start
<1>3. ASSUME NEW p \in Queue, p # q PROVE tidx'[p] = tidx[p] /\ lost'[p] = lost[p]
  BY <1>3 DEF RestartInv, Indices, StartTypes, TypeOK, Send, Deliver
<1>4. StartTypes'
  BY DEF RestartInv, Indices, StartTypes, TypeOK, Send, start
<1>5. CASE ~HasRoom(q)
  <2>1. tidx' = tidx /\ lost' = lost
    BY <1>5 DEF RestartInv, StartTypes, Send, Deliver
  <2> QED BY <1>1, <1>2, <1>4, <2>1 DEF RestartInv, Found, Waited
<1>6. CASE HasRoom(q)
  <2>1. /\ tidx'[q] = Succ(tidx[q])
        /\ lost'[q] \in {lost[q], lost[q] \cup {tidx[q]}}
    BY <1>6 DEF RestartInv, Indices, StartTypes, TypeOK, Send, Deliver
  <2>2. /\ Between(head[q], Succ(tidx[q])) = Between(head[q], tidx[q]) \cup {tidx[q]}
        /\ tidx[q] \notin Between(head[q], landed[q])
        /\ head[q] # landed[q] => tidx[q] # head[q]
    BY <1>6, SentNext DEF RestartInv
  <2>3. Found(q)'
    BY <1>2, <2>1, <2>2 DEF RestartInv, Found, Flags
  <2>4. Waited(q)'
    BY <1>2, <2>1, <2>2 DEF RestartInv, Indices, Taking, Waited
  <2>5. ASSUME NEW p \in Queue, p # q PROVE Found(p)' /\ Waited(p)'
    BY <1>2, <1>3, <2>5, OthersKeep
  <2> QED BY <1>1, <1>4, <2>3, <2>4, <2>5 DEF RestartInv
<1> QED BY <1>5, <1>6

\* A message lands, in the buffer or elsewhere.
LEMMA LandsInv ==
  ASSUME RestartInv, NEW q \in Queue, LandHere(q) \/ LandLost(q)
  PROVE  RestartInv'
<1>1. /\ landed[q] # tidx[q] /\ landed' = [landed EXCEPT ![q] = Succ(@)]
      /\ UNCHANGED <<tidx, hidx, posted, head, pc, retry>> /\ phase' = phase
  BY DEF LandHere, LandLost, Land, start
<1>2. owner' \in [Queue -> [Slot -> BOOLEAN]]
  <2>1. owner \in [Queue -> [Slot -> BOOLEAN]] /\ landed[q] \in Slot
    BY DEF RestartInv, Indices, TypeOK
  <2>2. [owner EXCEPT ![q][landed[q]] = TRUE] \in [Queue -> [Slot -> BOOLEAN]]
    BY <2>1
  <2>3. CASE LandHere(q)
    BY <2>2, <2>3 DEF LandHere, Land
  <2>4. CASE LandLost(q)
    BY <2>1, <2>4 DEF LandLost
  <2> QED BY <2>3, <2>4
<1>3. Indices' /\ Succ(landed[q]) # head[q]
  BY <1>1, <1>2, LandIndices DEF RestartInv
<1>4. ASSUME NEW p \in Queue, p # q
      PROVE  landed'[p] = landed[p] /\ owner'[p] = owner[p] /\ lost'[p] = lost[p]
  BY <1>4 DEF LandHere, LandLost, Land, RestartInv, Indices, StartTypes, TypeOK
<1>5. StartTypes'
  <2>1. lost \in [Queue -> SUBSET Slot] /\ landed[q] \in Slot
    BY DEF RestartInv, Indices, StartTypes, TypeOK
  <2>2. lost' \in {lost, [lost EXCEPT ![q] = @ \cup {landed[q]}]}
    BY DEF LandHere, LandLost
  <2> QED BY <1>1, <2>1, <2>2 DEF RestartInv, StartTypes
<1>6. /\ head[q] \in Slot /\ landed[q] \in Slot /\ owner[q] \in [Slot -> BOOLEAN]
      /\ landed'[q] = Succ(landed[q])
      /\ pc[q] = "post" => head[q] # landed[q]
  BY <1>1 DEF RestartInv, Indices, TypeOK, Taking
<1>7. Found(q)' /\ Waited(q)'
  <2>1. CASE LandHere(q)
    <3>1. landed[q] \notin lost[q] /\ owner'[q] = [owner[q] EXCEPT ![landed[q]] = TRUE] /\ lost' = lost
      BY <2>1 DEF LandHere, Land, RestartInv, Indices, TypeOK
    <3>2. phase[q] # "clear" => Flags(owner[q], head[q], landed[q], pc[q], lost[q])
      BY DEF RestartInv, Found
    <3>3. phase[q] # "clear" =>
            Flags([owner[q] EXCEPT ![landed[q]] = TRUE], head[q], Succ(landed[q]), pc[q], lost[q])
      BY <1>3, <1>6, <3>1, <3>2, FlagsLand
    <3> QED BY <1>1, <1>6, <3>1, <3>3 DEF RestartInv, Found, Waited
  <2>2. CASE LandLost(q)
    <3>1. owner' = owner /\ lost'[q] = lost[q] \cup {landed[q]}
      BY <2>2 DEF LandLost, RestartInv, StartTypes
    <3>2. phase[q] # "clear" => Flags(owner[q], head[q], landed[q], pc[q], lost[q])
      BY DEF RestartInv, Found
    <3>3. phase[q] # "clear" =>
            Flags(owner[q], head[q], Succ(landed[q]), pc[q], lost[q] \cup {landed[q]})
      BY <1>3, <1>6, <3>2, FlagsLost
    <3>4. landed[q] \in Between(head[q], tidx[q])
      BY <1>1, LandedSent DEF RestartInv
    <3> QED BY <1>1, <1>6, <3>1, <3>3, <3>4 DEF RestartInv, Found, Waited
  <2> QED BY <2>1, <2>2
<1>8. ASSUME NEW p \in Queue, p # q PROVE Found(p)' /\ Waited(p)'
  BY <1>1, <1>4, <1>8, OthersKeep
<1> QED BY <1>3, <1>5, <1>7, <1>8 DEF RestartInv

\* The thread finds a message, which is then not a lost one, and goes past it.
LEMMA ThreadInv ==
  ASSUME RestartInv, NEW q \in Queue, Running(q), Take(q) \/ StepHead(q) \/ Release(q)
  PROVE  RestartInv'
<1>1. phase[q] = "run" /\ phase' = phase /\ lost' = lost /\ landed' = landed /\ tidx' = tidx
  BY DEF Running, start, Take, StepHead, Release
<1>2. ASSUME NEW p \in Queue, p # q
      PROVE  owner'[p] = owner[p] /\ head'[p] = head[p] /\ pc'[p] = pc[p]
  BY <1>2 DEF Take, StepHead, Release, RestartInv, Indices, TypeOK
<1>3. /\ head[q] \in Slot /\ landed[q] \in Slot /\ tidx[q] \in Slot
      /\ owner[q] \in [Slot -> BOOLEAN]
      /\ Flags(owner[q], head[q], landed[q], pc[q], lost[q])
  BY <1>1 DEF RestartInv, Indices, TypeOK, Found
<1>4. CASE Take(q)
  <2>1. /\ Flags(owner[q], head[q], landed[q], "poll", lost[q]) /\ owner[q][head[q]]
        /\ owner'[q] = [owner[q] EXCEPT ![head[q]] = FALSE] /\ pc'[q] = "post" /\ head' = head
    BY <1>3, <1>4 DEF Take, RestartInv, Indices, TypeOK
  <2>2. /\ Flags([owner[q] EXCEPT ![head[q]] = FALSE], head[q], landed[q], "post", lost[q])
        /\ head[q] # landed[q] /\ head[q] \notin lost[q]
    BY <1>3, <2>1, FlagsTake
  <2>3. Indices'
    BY <1>4, <2>2, TakeIndices DEF RestartInv
  <2>4. Found(q)' /\ Waited(q)'
    BY <1>1, <2>1, <2>2 DEF RestartInv, Found, Waited
  <2> QED BY <1>1, <1>2, <2>3, <2>4, OthersKeep DEF RestartInv, StartTypes
<1>5. CASE StepHead(q)
  <2>1. /\ pc[q] = "post" /\ pc'[q] = "held" /\ head'[q] = Succ(head[q]) /\ owner' = owner
        /\ head[q] # landed[q] /\ head[q] \notin lost[q]
    BY <1>5 DEF StepHead, RestartInv, Indices, TypeOK, Taking, Waited
  <2>2. Flags(owner[q], Succ(head[q]), landed[q], "held", lost[q])
    BY <1>3, <2>1, FlagsStep
  <2>3. head[q] # tidx[q]
    <3>1. head[q] \in Between(head[q], tidx[q])
      BY <1>3, <2>1, BetweenStep, LandedSent DEF RestartInv
    <3> QED BY <1>3, <3>1, DistSlot DEF Between
  <2>4. Between(Succ(head[q]), tidx[q]) = Between(head[q], tidx[q]) \ {head[q]}
    BY <1>3, <2>3, BetweenStep
  <2>5. Indices'
    BY <1>5, StepHeadIndices DEF RestartInv
  <2>6. Found(q)' /\ Waited(q)'
    BY <1>1, <2>1, <2>2, <2>4 DEF RestartInv, Found, Waited
  <2> QED BY <1>1, <1>2, <2>5, <2>6, OthersKeep DEF RestartInv, StartTypes
<1>6. CASE Release(q)
  <2>1. pc[q] = "held" /\ pc'[q] = "poll" /\ head' = head /\ owner' = owner
    BY <1>6 DEF Release, RestartInv, Indices, TypeOK
  <2>2. Indices'
    BY <1>6, ReleaseIndices DEF RestartInv
  <2>3. Found(q)' /\ Waited(q)'
    BY <1>1, <2>1 DEF RestartInv, Found, Waited, Flags
  <2> QED BY <1>1, <1>2, <2>2, <2>3, OthersKeep DEF RestartInv, StartTypes
<1> QED BY <1>4, <1>5, <1>6

\* Every step keeps the invariant.
LEMMA RestartNextInv == RestartInv /\ [RestartNext]_restartVars => RestartInv'
<1> SUFFICES ASSUME RestartInv, [RestartNext]_restartVars PROVE RestartInv'
  OBVIOUS
<1>1. CASE UNCHANGED restartVars
  BY <1>1 DEF restartVars, vars, start, RestartInv, Indices, StartTypes, TypeOK, RingOrder,
              Taking, Found, Waited
<1>2. ASSUME NEW q \in Queue, RegArrive(q), UNCHANGED <<start, lost>> PROVE RestartInv'
  BY <1>2, RegArriveIndices DEF RegArrive, start, RestartInv, StartTypes, Found, Waited
<1>3. CASE RestartNext
  BY <1>2, <1>3, ReadTailInv, ClearInv, AddressInv, SendInv, LandsInv, ThreadInv DEF RestartNext
<1> QED BY <1>1, <1>3

\* A process that takes the FPGA's tail as its head and clears the slots is safe
\* whatever the process before left (stale head register, unread messages, a
\* message in the manager's retry register) and whatever arrives between its
\* constructors' reading of the tail, its memset and its writes of the buffer's
\* address: no slot is overwritten, and the messages missing among the flags are
\* exactly those lost to the start, which its thread does not go past.  For any
\* rings, any size and any number of restarts.
THEOREM RestartIsSafe == RestartSpec => []RestartSafe
<1>1. RestartInit => RestartInv
  BY InitInv DEF RestartInit, RingInv, RestartInv, StartTypes, InOrder, Found, Waited
<1>2. RestartSpec => []RestartInv
  BY <1>1, RestartNextInv, PTL DEF RestartSpec
<1>3. RestartInv => RestartSafe
  BY NotOverwritten DEF RestartInv, RestartSafe, LostAhead, Found, Waited
<1> QED BY <1>2, <1>3, PTL

=============================================================================
