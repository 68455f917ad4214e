---------------------------------- MODULE Tpcc --------------------------------
(****************************************************************************)
(* The procedures of the TPC-C workload (TpccProcedure.h) on the records of *)
(* TpccPopulator.h, with the parameters of TpccSource.h.  A step is one     *)
(* SearchRecord, under the locks of TwoPL, which are taken to work;         *)
(* CommitTransaction and AbortTransaction, which TwoPL takes apart, are one *)
(* step each.  A procedure that fails is executed again with the same       *)
(* parameters (TransactionExecutor.h).                                      *)
(*                                                                          *)
(* The parameters say which records are accessed READ_ONLY.  A procedure    *)
(* changes its copy of such a record too, but the commit does not write it. *)
(*                                                                          *)
(* Columns are kept where a property needs them; a payment has amount 1.    *)
(* OrderStatus and StockLevel commit without an access and are left out.    *)
(****************************************************************************)
EXTENDS Naturals, Sequences, FiniteSets, FiniteSetsExt, Functions

CONSTANTS
  Terminal,           \* threads
  Ware, Dist, Goods,  \* 1 .. number of warehouses, districts of each, items
  Cust,               \* customers of a district, who have one order each
  NewOrders,          \* how many of these orders are still to be delivered
  Procs,              \* procedures of the workload
  Lines,              \* most lines of an order
  Drawn,              \* records whose access type is drawn: all with option -r, else none
  PerTerminal         \* transactions of a thread

ASSUME TpccAssumption ==
  /\ Cust \in Nat /\ NewOrders \in Nat /\ NewOrders < Cust /\ PerTerminal \in Nat
  /\ IsFiniteSet(Dist) /\ Dist = 1 .. Cardinality(Dist) /\ Lines \in Nat
  /\ Procs \subseteq {"NEW_ORDER", "PAYMENT", "DELIVERY"}
  /\ Drawn \subseteq {"WAREHOUSE", "DISTRICT", "CUSTOMER", "STOCK"}

VARIABLES
  tpc,       \* tpc[t]: idle, run or assert
  par,       \* par[t]: the parameters
  query,     \* query[t]: next query of the procedure
  list,      \* list[t]: the records of the access list: type and copy
  oid,       \* oid[t][d]: no_o_ids of Delivery, 0 where there is no order
  table,     \* table[r]: the records in global memory
  committed, \* committed[t]: transactions of t that are committed
  book       \* history: order numbers that districts have kept, deliveries of each order,
             \* and payments that only the warehouse, only the district has kept

tpccVars == <<tpc, par, query, list, oid, table, committed, book>>

------------------------------------------------------------------------------
(* StartPopulate *)

FirstNew == Cust - NewOrders + 1

DistrictRecords == {<<"DISTRICT", w, d>> : w \in Ware, d \in Dist}
OrderRecords == {<<"ORDER", w, d, o>> : w \in Ware, d \in Dist, o \in 1 .. Cust}

Records ==
  UNION {{<<"WAREHOUSE", w>> : w \in Ware},
         {<<x, w, i>> : x \in {"ITEM", "STOCK"}, w \in Ware, i \in Goods},
         DistrictRecords,
         {<<"DISTRICT_NEW_ORDER", w, d>> : w \in Ware, d \in Dist},
         {<<"NEW_ORDER", w, d, o>> : w \in Ware, d \in Dist, o \in FirstNew .. Cust},
         OrderRecords,
         {<<"CUSTOMER", w, d, c>> : w \in Ware, d \in Dist, c \in 1 .. Cust}}

Initial(r) ==
  CASE r[1] = "DISTRICT" -> [ytd |-> 0, next |-> Cust + 1]
    [] r[1] = "DISTRICT_NEW_ORDER" -> FirstNew
    [] r[1] = "ORDER" -> [customer |-> r[4], carrier |-> r[4] < FirstNew]
    [] OTHER -> 0

NoParam == [proc |-> "none"]

TpccInit ==
  /\ tpc = [t \in Terminal |-> "idle"]
  /\ par = [t \in Terminal |-> NoParam]
  /\ query = [t \in Terminal |-> 0]
  /\ list = [t \in Terminal |-> [r \in {} |-> 0]]
  /\ oid = [t \in Terminal |-> [d \in Dist |-> 0]]
  /\ table = [r \in Records |-> Initial(r)]
  /\ committed = [t \in Terminal |-> 0]
  /\ book = [orders |-> [r \in DistrictRecords |-> <<>>], delivered |-> [r \in OrderRecords |-> 0],
             ware |-> [w \in Ware |-> 0], dist |-> [w \in Ware |-> 0]]

------------------------------------------------------------------------------
(* GenerateNewOrderParam, GeneratePaymentParam, GenerateDeliveryParam, and what *)
(* ModifyNewOrder and ModifyPayment make of the access types under -r           *)

AccessType(x) == IF x \in Drawn THEN {"READ_ONLY", "READ_WRITE"} ELSE {"READ_WRITE"}

\* Lines of an order: different items, from any warehouse, each with the type of its stock.
OrderLines ==
  UNION {{s \in [1 .. k -> Goods \X Ware \X AccessType("STOCK")] :
            \A i, j \in 1 .. k : s[i][1] = s[j][1] => i = j} : k \in 1 .. Lines}

\* A customer who pays elsewhere has a warehouse and a district of its own; one who
\* does not has those of the payment.
Params ==
  UNION {
    {[proc |-> "NEW_ORDER", w |-> w, d |-> d, c |-> c, lines |-> l, da |-> da] :
       w \in Ware, d \in Dist, c \in 1 .. Cust, l \in OrderLines, da \in AccessType("DISTRICT")},
    {[proc |-> "PAYMENT", w |-> w, d |-> d, cw |-> x[1], cd |-> x[2], c |-> c, wa |-> y[1], da |-> y[2], ca |-> y[3]] :
       w \in Ware, d \in Dist, x \in Ware \X Dist, c \in 1 .. Cust,
       y \in AccessType("WAREHOUSE") \X AccessType("DISTRICT") \X AccessType("CUSTOMER")},
    {[proc |-> "DELIVERY", w |-> w] : w \in Ware}}

StartProc(t) ==
  /\ tpc[t] = "idle" /\ committed[t] < PerTerminal
  /\ \E p \in {q \in Params : /\ q.proc \in Procs
                              /\ q.proc = "PAYMENT" /\ q.cw = q.w => q.cd = q.d} :
       par' = [par EXCEPT ![t] = p]
  /\ query' = [query EXCEPT ![t] = 1]
  /\ tpc' = [tpc EXCEPT ![t] = "run"]
  /\ UNCHANGED <<list, oid, table, committed, book>>

------------------------------------------------------------------------------
(* The queries of a procedure, in order *)

Query(r, y) == [rec |-> r, type |-> y]
NoQuery == Query(<<>>, "NONE")

NewOrderQuery(p, i) ==
  LET k == Len(p.lines) IN
  CASE i <= k         -> Query(<<"ITEM", p.w, p.lines[i][1]>>, "READ_ONLY")
    [] i \in k + 1 .. 2 * k -> Query(<<"STOCK", p.lines[i - k][2], p.lines[i - k][1]>>, p.lines[i - k][3])
    [] i = 2 * k + 1  -> Query(<<"WAREHOUSE", p.w>>, "READ_ONLY")
    [] i = 2 * k + 2  -> Query(<<"DISTRICT", p.w, p.d>>, p.da)
    [] i = 2 * k + 3  -> Query(<<"CUSTOMER", p.w, p.d, p.c>>, "READ_ONLY")
    [] OTHER          -> NoQuery

\* Fault: the payment reads its district only, whatever its parameters say.
PaymentQuery_fault(p, i) ==
  CASE i = 1 -> Query(<<"WAREHOUSE", p.w>>, p.wa)
    [] i = 2 -> Query(<<"DISTRICT", p.w, p.d>>, "READ_ONLY")
    [] i = 3 -> Query(<<"CUSTOMER", p.cw, p.cd, p.c>>, p.ca)
    [] OTHER -> NoQuery

PaymentQuery(p, i) ==
  CASE i = 1 -> Query(<<"WAREHOUSE", p.w>>, p.wa)
    [] i = 2 -> Query(<<"DISTRICT", p.w, p.d>>, p.da)
    [] i = 3 -> Query(<<"CUSTOMER", p.cw, p.cd, p.c>>, p.ca)
    [] OTHER -> NoQuery

DistNum == Cardinality(Dist)

\* The three loops of Delivery; districts without an order are passed over.
DeliveryQuery(t, p, i) ==
  LET d == IF i <= 2 * DistNum THEN (i + 1) \div 2 ELSE ((i - 1) % DistNum) + 1 IN
  CASE i <= 2 * DistNum /\ i % 2 = 1 -> Query(<<"DISTRICT_NEW_ORDER", p.w, d>>, "READ_WRITE")
    [] i <= 2 * DistNum /\ i % 2 = 0 -> Query(<<"NEW_ORDER", p.w, d, oid[t][d]>>, "READ_ONLY")
    [] i \in 2 * DistNum + 1 .. 4 * DistNum /\ oid[t][d] = 0 -> Query(<<>>, "SKIP")
    [] i \in 2 * DistNum + 1 .. 3 * DistNum /\ oid[t][d] # 0 -> Query(<<"ORDER", p.w, d, oid[t][d]>>, "READ_WRITE")
    [] i \in 3 * DistNum + 1 .. 4 * DistNum /\ oid[t][d] # 0 ->
         Query(<<"CUSTOMER", p.w, d, list[t][<<"ORDER", p.w, d, oid[t][d]>>].copy.customer>>, "READ_WRITE")
    [] OTHER -> NoQuery

NextQuery(t) ==
  LET p == par[t] IN
  CASE p.proc = "NEW_ORDER" -> NewOrderQuery(p, query[t])
    [] p.proc = "PAYMENT" -> PaymentQuery(p, query[t])
    [] p.proc = "DELIVERY" -> DeliveryQuery(t, p, query[t])

\* What a procedure makes of the copy v of record r.
Updated(proc, r, v) ==
  CASE proc = "PAYMENT" /\ r[1] \in {"WAREHOUSE", "CUSTOMER"} -> v + 1
    [] proc = "PAYMENT" /\ r[1] = "DISTRICT" -> [v EXCEPT !.ytd = @ + 1]
    [] proc = "NEW_ORDER" /\ r[1] = "DISTRICT" -> [v EXCEPT !.next = @ + 1]
    [] proc = "NEW_ORDER" /\ r[1] = "STOCK" -> v + 1
    [] proc = "DELIVERY" /\ r[1] = "ORDER" -> [v EXCEPT !.carrier = TRUE]
    [] OTHER -> v

------------------------------------------------------------------------------
(* SearchRecord *)

Holders(r) == {u \in Terminal : r \in DOMAIN list[u]}

\* TwoPL's locks: readers share, a writer is alone.
Unlocked(r, y) == \A u \in Holders(r) : y = "READ_ONLY" /\ list[u][r].type = "READ_ONLY"

\* The index finds the records of the populator only.
Missing(r) == r \notin Records

With(t, r, y) ==
  [list EXCEPT ![t] = [x \in DOMAIN @ \cup {r} |->
     IF x = r THEN [type |-> y, copy |-> Updated(par[t].proc, r, table[r])] ELSE @[x]]]

Advance(t) == query' = [query EXCEPT ![t] = @ + 1]

\* The query finds its record and locks it.
Found(t) ==
  LET q == NextQuery(t) IN
  /\ tpc[t] = "run" /\ q.type \in {"READ_ONLY", "READ_WRITE"} /\ ~Missing(q.rec) /\ Unlocked(q.rec, q.type)
  /\ list' = IF q.rec[1] = "NEW_ORDER"
            THEN [With(t, q.rec, q.type) EXCEPT ![t][<<"DISTRICT_NEW_ORDER", q.rec[2], q.rec[3]>>].copy = @ + 1]
            ELSE With(t, q.rec, q.type)
  /\ oid' = IF q.rec[1] = "DISTRICT_NEW_ORDER" THEN [oid EXCEPT ![t][q.rec[3]] = table[q.rec]] ELSE oid
  /\ Advance(t)
  /\ UNCHANGED <<tpc, par, table, committed, book>>

\* Delivery: a new order that is not in the index makes the district start again.
NotFound(t) ==
  LET q == NextQuery(t) IN
  /\ tpc[t] = "run" /\ q.type \in {"READ_ONLY", "READ_WRITE"} /\ Missing(q.rec)
  /\ list' = [list EXCEPT ![t][<<"DISTRICT_NEW_ORDER", q.rec[2], q.rec[3]>>].copy = 1]
  /\ oid' = [oid EXCEPT ![t][q.rec[3]] = 0]
  /\ Advance(t)
  /\ UNCHANGED <<tpc, par, table, committed, book>>

Skip(t) ==
  /\ tpc[t] = "run" /\ NextQuery(t).type = "SKIP"
  /\ Advance(t)
  /\ UNCHANGED <<tpc, par, list, oid, table, committed, book>>

\* The lock is taken: AbortTransaction.  The procedure returns and is executed again,
\* but for NewOrder's items, where it asserts, and Delivery's new orders, where it
\* would go on without its records.
Refused(t) ==
  LET q == NextQuery(t) IN
  /\ tpc[t] = "run" /\ q.type \in {"READ_ONLY", "READ_WRITE"} /\ ~Missing(q.rec) /\ ~Unlocked(q.rec, q.type)
  /\ list' = [list EXCEPT ![t] = [r \in {} |-> 0]]
  /\ oid' = [oid EXCEPT ![t] = [d \in Dist |-> 0]]
  /\ query' = [query EXCEPT ![t] = 1]
  /\ tpc' = IF q.rec[1] \in {"ITEM", "NEW_ORDER"} THEN [tpc EXCEPT ![t] = "assert"] ELSE tpc
  /\ UNCHANGED <<par, table, committed, book>>

\* The id that a new order gets: d_next_o_id as it was read.
NewId(t) == list[t][<<"DISTRICT", par[t].w, par[t].d>>].copy.next - 1

\* The procedure is a payment to warehouse w that accesses warehouse and district like this.
PaidFor(t, w, y, z) == par[t].proc = "PAYMENT" /\ par[t].w = w /\ par[t].wa = y /\ par[t].da = z

\* The insertions of a procedure (they never fail), and CommitTransaction.
CommitProc(t) ==
  /\ tpc[t] = "run" /\ NextQuery(t) = NoQuery
  /\ table' = [r \in Records |-> IF r \in DOMAIN list[t] /\ list[t][r].type = "READ_WRITE"
                                 THEN list[t][r].copy ELSE table[r]]
  /\ book' = [orders |-> IF par[t].proc = "NEW_ORDER" /\ par[t].da = "READ_WRITE"
                        THEN [book.orders EXCEPT ![<<"DISTRICT", par[t].w, par[t].d>>] = Append(@, NewId(t))]
                        ELSE book.orders,
             delivered |-> [r \in OrderRecords |-> book.delivered[r]
                              + IF par[t].proc = "DELIVERY" /\ r \in DOMAIN list[t] THEN 1 ELSE 0],
             ware |-> [w \in Ware |-> book.ware[w] + IF PaidFor(t, w, "READ_WRITE", "READ_ONLY") THEN 1 ELSE 0],
             dist |-> [w \in Ware |-> book.dist[w] + IF PaidFor(t, w, "READ_ONLY", "READ_WRITE") THEN 1 ELSE 0]]
  /\ list' = [list EXCEPT ![t] = [r \in {} |-> 0]]
  /\ oid' = [oid EXCEPT ![t] = [d \in Dist |-> 0]]
  /\ query' = [query EXCEPT ![t] = 0]
  /\ par' = [par EXCEPT ![t] = NoParam]
  /\ tpc' = [tpc EXCEPT ![t] = "idle"]
  /\ committed' = [committed EXCEPT ![t] = @ + 1]

TpccNext == \E t \in Terminal : StartProc(t) \/ Found(t) \/ NotFound(t) \/ Skip(t) \/ Refused(t) \/ CommitProc(t)

TpccSpec == TpccInit /\ [][TpccNext]_tpccVars

------------------------------------------------------------------------------
TpccTypeOK ==
  /\ tpc \in [Terminal -> {"idle", "run", "assert"}]
  /\ \A t \in Terminal : par[t] = NoParam \/ par[t] \in Params
  /\ query \in [Terminal -> Nat]
  /\ \A t \in Terminal : DOMAIN list[t] \subseteq Records
  /\ oid \in [Terminal -> [Dist -> 0 .. Cust + 1]]
  /\ DOMAIN table = Records
  /\ committed \in [Terminal -> 0 .. PerTerminal]

YtdSum(w) == MapThenSumSet(LAMBDA d : table[<<"DISTRICT", w, d>>].ytd, Dist)

\* A warehouse has taken in what its districts have, but for the payments that one of the
\* two accessed READ_ONLY and did not keep: no payment is lost or counted twice, whatever
\* procedures run beside it.
YtdAgree == \A w \in Ware : table[<<"WAREHOUSE", w>>] + book.dist[w] = YtdSum(w) + book.ware[w]

\* The new orders that a district keeps are numbered without a gap and without a
\* repetition.  One that accessed it READ_ONLY leaves its number to the next.
OrderIds ==
  \A r \in DistrictRecords : /\ Len(book.orders[r]) = table[r].next - (Cust + 1)
                             /\ Range(book.orders[r]) = Cust + 1 .. table[r].next - 1

\* An order is delivered once, also when Delivery has come to the end of the orders
\* and starts again at 1; and one that was never new is not delivered.
DeliveredOnce ==
  \A r \in OrderRecords : /\ book.delivered[r] <= 1
                          /\ book.delivered[r] = 1 => r[4] >= FirstNew
                          /\ table[r].carrier = (r[4] < FirstNew \/ book.delivered[r] = 1)

\* NewOrder's assert(false) is not reached, and Delivery does not take a refused lock
\* for a missing order and go on with records that AbortTransaction has deleted.
NoProcAssert == \A t \in Terminal : tpc[t] # "assert"

\* The procedures keep the consistency conditions of TPC-C that they can disturb, as far
\* as their access types allow: income of warehouse and districts agree, order numbers
\* have no gap, an order is delivered once, no assertion fails.
TpccConsistent == TpccTypeOK /\ YtdAgree /\ OrderIds /\ DeliveredOnce /\ NoProcAssert
==============================================================================
