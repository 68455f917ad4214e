SPECIFICATION DatabaseSpec
CONSTANTS
  Thread = {t1, t2, t3}
  Rec = {r1, r2}
  New = {n1}
  Types = {"READ_ONLY", "READ_WRITE"}
  Limit = 1
  MaxAccess = 2
  Locks = TRUE
  None = None
  Worker <- MCWorker
  Jobs <- MCJobs
  FailLimit = 2
  PartitionNum = 4
  Plan <- MCPlan
  Warehouses = {1, 2, 4, 6}
  Partitions = 2
  Threads = {1, 2, 3}
  Batch = 2
  NumTxn = 7
  Item = {1, 2, 3, 4}
  Payment = {p1, p2}
  MinOl = 2
  MaxOl = 3
  NoPayment = None
  Terminal = {u1, u2}
  Ware = {1}
  Dist = {1, 2}
  Goods = {1}
  Cust = 2
  NewOrders = 1
  Procs = {"NEW_ORDER", "PAYMENT", "DELIVERY"}
  Lines = 1
  Drawn = {"DISTRICT"}
  PerTerminal = 2
SYMMETRY MCNames
CONSTRAINT MCProcedures
INVARIANTS
  CopyCurrent
  Serializable
  NothingLeft
  Measured
  TotalsExact
  IndexSound
  TpccConsistent
  WorkDealt
PROPERTY
  IsBarrier
CHECK_DEADLOCK FALSE
