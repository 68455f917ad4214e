--------------------------------- MODULE Keys ---------------------------------
(****************************************************************************)
(* The primary keys of the TPC-C records (TpccKeyGenerator.h).  A key is a  *)
(* 64-bit word that packs warehouse, table, district, order and line; it is *)
(* the only thing that tells records apart in the hash index.               *)
(*                                                                          *)
(* A word is the set of its bits that are 1: a shift to the left moves them *)
(* and loses those beyond the word, and "|" is the union.                   *)
(****************************************************************************)
EXTENDS Naturals, FiniteSets

CONSTANTS
  W, D, O, L, I    \* the warehouse, district, order, line and item (or customer)
                   \* numbers that are tried

KeysAssumption == \A S \in {W, D, O, L, I} : S \subseteq Nat /\ IsFiniteSet(S)

Width == 64

kWarehouseBits == 58
kTableIdLowBits == 54
kDistrictLowBits == 32

kOrderIdLowBits == 4

Bits(n) == {b \in 0 .. 30 : (n \div 2^b) % 2 = 1}

Shift(n, k) == {b + k : b \in Bits(n)} \cap (0 .. Width - 1)

\* TableType
TableId ==
  [item |-> 0, stock |-> 1, warehouse |-> 2, district |-> 3, districtNewOrder |-> 4,
   newOrder |-> 5, order |-> 6, orderLine |-> 7, customer |-> 8, history |-> 9]

\* A record: its table and the numbers that its key function takes.  Numbers that
\* the function does not take are 0.
Record ==
  [table : {"item", "stock"}, w : W, d : {0}, o : {0}, x : I]
  \cup [table : {"warehouse"}, w : W, d : {0}, o : {0}, x : {0}]
  \cup [table : {"district", "districtNewOrder"}, w : W, d : D, o : {0}, x : {0}]
  \cup [table : {"customer", "history"}, w : W, d : D, o : {0}, x : I]
  \cup [table : {"order", "newOrder"}, w : W, d : D, o : O, x : {0}]
  \cup [table : {"orderLine"}, w : W, d : D, o : O, x : L]

\* All key functions: they differ only in which of the numbers they take.
Key(r) ==
  Shift(r.w, kWarehouseBits) \cup Shift(TableId[r.table], kTableIdLowBits)
  \cup Shift(r.d, kDistrictLowBits) \cup Shift(r.o, kOrderIdLowBits) \cup Bits(r.x)

VARIABLE rec    \* the record that is inserted or looked up

Init == rec \in Record

Next == rec' \in Record

Spec == Init /\ [][Next]_rec

------------------------------------------------------------------------------
\* No two records of any tables have the same key: a search in the index finds the
\* record it is for.
KeysApart == \A r \in Record : Key(r) = Key(rec) => r = rec
==============================================================================
