-------------------------------- MODULE Locality ------------------------------
(****************************************************************************)
(* The options -r and -l of the workload: ModifyNewOrder replaces items of  *)
(* an order by items of the order before it, ModifyPayment is to repeat the *)
(* payment before it (TpccSource.h).  gForceRandomAccess, which nothing     *)
(* sets, is false.                                                          *)
(*                                                                          *)
(* One turn of the loop of ModifyNewOrder is a step, a random choice is any *)
(* choice.  The access types, which are drawn afterwards, are left out.     *)
(****************************************************************************)
EXTENDS Naturals, Sequences, FiniteSets, Functions, SequencesExt

CONSTANTS
  Item, Payment,  \* item ids, payment parameters
  MinOl, MaxOl,   \* MIN_OL_CNT, MAX_OL_CNT
  NoPayment

ASSUME LocalityAssumption ==
  /\ IsFiniteSet(Item) /\ MinOl \in Nat \ {0} /\ MaxOl \in Nat
  /\ MinOl <= MaxOl /\ MaxOl < Cardinality(Item)

VARIABLES
  lpc,      \* where ModifyNewOrder is
  last,     \* new_order_access_items_
  ids,      \* i_ids_: modified before index item, as generated from there on
  item,     \* loop variable
  exist,    \* exist_items
  count,    \* use_last_txn_count
  lastPay,  \* last_payment_param_
  paid      \* the payment made last, the one before it, and whether that was to be used

localityVars == <<lpc, last, ids, item, exist, count, lastPay, paid>>

LocalityInit ==
  /\ lpc = "idle"
  /\ last = {} /\ exist = {}
  /\ ids = <<>>
  /\ item = 0 /\ count = 0
  /\ lastPay = NoPayment
  /\ paid = [pay |-> NoPayment, prev |-> NoPayment, use |-> FALSE]

\* GenerateNewOrderParam: different items.
Order ==
  /\ lpc = "idle"
  /\ \E n \in MinOl .. MaxOl : \E s \in [1 .. n -> Item] : IsInjective(s) /\ ids' = s
  /\ lpc' = "modify"
  /\ item' = 1 /\ exist' = {} /\ count' = 0
  /\ UNCHANGED <<last, lastPay, paid>>

\* The end of a turn: item x of the order, or another if the order has it already.
Taken(x) ==
  \E y \in IF x \in exist THEN Item \ exist ELSE {x} :
    /\ ids' = [ids EXCEPT ![item] = y]
    /\ exist' = exist \cup {y}

\* An item of the last order is wanted, and counted as not used up.
Wants == Cardinality(last) > count

\* The item is one of the last order, by choice.
Repeat ==
  /\ lpc = "modify" /\ item <= Len(ids) /\ Wants
  /\ \E x \in last \ exist : Taken(x)
  /\ count' = count + 1
  /\ item' = item + 1
  /\ UNCHANGED <<lpc, last, lastPay, paid>>

\* ... or by chance.
CountOf(x) == IF x \in last THEN count + 1 ELSE count

Keep ==
  /\ lpc = "modify" /\ item <= Len(ids)
  /\ Taken(ids[item])
  /\ count' = CountOf(ids[item])
  /\ item' = item + 1
  /\ UNCHANGED <<lpc, last, lastPay, paid>>

EndOrder ==
  /\ lpc = "modify" /\ item > Len(ids)
  /\ last' = exist
  /\ lpc' = "idle"
  /\ ids' = <<>> /\ exist' = {} /\ item' = 0 /\ count' = 0
  /\ UNCHANGED <<lastPay, paid>>

\* GeneratePaymentParam and ModifyPayment: the assignment goes from the new payment to
\* the last one.
Pay ==
  /\ lpc = "idle"
  /\ \E p \in Payment, use \in BOOLEAN :
       /\ lastPay' = p
       /\ paid' = [pay |-> p, prev |-> lastPay, use |-> use /\ lastPay # NoPayment]
  /\ UNCHANGED <<lpc, last, ids, item, exist, count>>

LocalityNext == Order \/ Repeat \/ Keep \/ EndOrder \/ Pay

LocalitySpec == LocalityInit /\ [][LocalityNext]_localityVars

------------------------------------------------------------------------------
LocalityTypeOK ==
  /\ lpc \in {"idle", "modify"}
  /\ last \subseteq Item /\ exist \subseteq Item
  /\ Len(ids) \in 0 .. MaxOl /\ ToSet(ids) \subseteq Item
  /\ item \in 0 .. Len(ids) + 1 /\ count \in 0 .. Len(ids)
  /\ Cardinality(last) \in {0} \cup MinOl .. MaxOl
  /\ lastPay \in Payment \cup {NoPayment}

\* The loop that draws an item of the last order until it draws a new one comes to an
\* end: there is one, though items come into the order by chance, are counted that are
\* replaced afterwards, and replace others without being counted.
PickEnds == lpc = "modify" /\ Wants => last \ exist # {}

\* assert: an order has no item twice.
Distinct == lpc = "modify" /\ item > Len(ids) => IsInjective(ids)
==============================================================================
