------------------------------- MODULE GAddrArray -----------------------------
(****************************************************************************)
(* The array of bucket headers in global memory (GAddrArray.h): a tree of   *)
(* segments with Fan slots (N in the code), pointers in the inner layers,   *)
(* elements in the last.  Init allocates it layer by layer; an element is   *)
(* found by following the digits of its index.                              *)
(****************************************************************************)
EXTENDS Naturals, FiniteSets, Functions

CONSTANTS
  Fan,      \* slots of a segment
  MaxSize   \* array sizes 1 .. MaxSize are tried

GAddrArrayAssumption == Fan \in Nat \ {0, 1} /\ MaxSize \in Nat \ {0}

VARIABLES
  size,     \* array_size_
  layer, pos, \* the loops of Init; layer = layer_num_ once it is over
  seg,      \* seg: segments allocated; seg[i] is what segment i holds
  ptr       \* ptr[<<i, s>>]: the segment that slot s of segment i points to

vars == <<size, layer, pos, seg, ptr>>

\* layer_num_: layers that n elements need.
LayerNum(n) == CHOOSE l \in 0 .. n : Fan^l >= n /\ \A m \in 0 .. l - 1 : Fan^m < n

L == LayerNum(size)

\* What a segment of layer l holds.
Holds(l) == IF l < L - 1 THEN "pointers" ELSE "elements"

Init ==
  /\ size \in 1 .. MaxSize
  /\ layer = 1 /\ pos = 0
  /\ seg = [i \in {0} |-> IF LayerNum(size) = 1 THEN "elements" ELSE "pointers"]
  /\ ptr = [x \in {} |-> 0]

\* path[j] of LocateParentNode.
Digit(l, p, j) == (p \div (Fan^(l - j))) % Fan

\* LocateParentNode: the segment j layers down on the way to p.
Locate(l, p) ==
  LET Down[j \in 0 .. l] == IF j = 0 THEN 0 ELSE ptr[<<Down[j - 1], Digit(l, p, j)>>]
  IN IF l <= 1 THEN 0 ELSE Down[l - 1]

\* The slots that LocateParentNode reads for p are written.
OnWay(l, p) ==
  LET Down[j \in 0 .. l] ==
        IF j = 0 THEN {0}
        ELSE {ptr[x] : x \in DOMAIN ptr \cap {<<i, Digit(l, p, j)>> : i \in Down[j - 1]}}
  IN l <= 1 \/ Down[l - 1] # {}

Slot(p) == p % Fan

\* One turn of the loops of Init: a segment, and its pointer in the parent.
Allocate ==
  LET new == Cardinality(DOMAIN seg) IN
  /\ layer < L
  /\ seg' = [i \in DOMAIN seg \cup {new} |-> IF i = new THEN Holds(layer) ELSE seg[i]]
  /\ ptr' = [x \in DOMAIN ptr \cup {<<Locate(layer, pos), Slot(pos)>>} |->
               IF x = <<Locate(layer, pos), Slot(pos)>> THEN new ELSE ptr[x]]
  /\ IF pos + 1 < Fan^layer THEN pos' = pos + 1 /\ UNCHANGED layer
                            ELSE pos' = 0 /\ layer' = layer + 1
  /\ UNCHANGED size

Next == Allocate

Spec == Init /\ [][Next]_vars

Built == layer >= L

\* GetElementGAddr
Element(o) == <<Locate(L, o), Slot(o)>>

------------------------------------------------------------------------------
TypeOK ==
  /\ size \in 1 .. MaxSize /\ layer \in Nat /\ pos \in Nat
  /\ seg \in [0 .. Cardinality(DOMAIN seg) - 1 -> {"pointers", "elements"}]
  /\ \A x \in DOMAIN ptr : x[1] \in DOMAIN seg /\ x[2] \in 0 .. Fan - 1 /\ ptr[x] \in DOMAIN seg

\* LocateParentNode follows no pointer that is not written yet, neither while the
\* tree is built nor when an element is looked up.
WayWritten ==
  /\ ~Built => OnWay(layer, pos)
  /\ Built => \A o \in 0 .. size - 1 : OnWay(L, o)

\* Two elements never share a place, and an element never lies on a pointer.
Separate ==
  Built => /\ IsInjective([o \in 0 .. size - 1 |-> Element(o)])
           /\ \A o \in 0 .. size - 1 : L > 0 => seg[Element(o)[1]] = "elements"

\* No segment is reached from two places or from none.
Tree == Built => IsInjective(ptr) /\ Range(ptr) = DOMAIN seg \ {0}
==============================================================================
