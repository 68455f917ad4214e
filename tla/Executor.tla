------------------------------- MODULE Executor -------------------------------
(****************************************************************************)
(* The threads that run a node's transactions (TransactionExecutor.h).  The *)
(* main thread starts them, waits until all are ready, lets them begin, and *)
(* joins them.  The first thread at the end of its batches takes the time   *)
(* and tells the others to finish.  A transaction that fails is repeated    *)
(* until it succeeds or the thread has failed more than FailLimit times.    *)
(*                                                                          *)
(* Whether an Execute succeeds is open: TwoPL models what it does.          *)
(****************************************************************************)
EXTENDS Naturals, FiniteSets, FiniteSetsExt

CONSTANTS
  Worker,   \* thread ids, 0 .. thread_count - 1
  Jobs,     \* Jobs[t]: parameters in the batches of thread t
  FailLimit \* failures after which a transaction is given up (10 in the code)

ASSUME ExecutorAssumption ==
  /\ Worker = 0 .. Cardinality(Worker) - 1 /\ IsFiniteSet(Worker) /\ Worker # {}
  /\ Jobs \in [Worker -> Nat] /\ FailLimit \in Nat \ {0}

VARIABLES
  main,     \* main: what the main thread does
  scan,     \* scan: next flag it looks at, and is_all_ready
  ready,    \* is_ready_
  begin,    \* is_begin_
  finish,   \* is_finish_
  stamp,    \* whether end_timestamp_ has been taken
  place,    \* place[t]: where thread t is
  idx,      \* idx[t]: parameters it is through with
  cnt,      \* cnt[t]: count, abort_count and abort_me
  total,    \* total_count_ and total_abort_count_
  tally     \* history: Executes of t that succeeded and that failed

execVars == <<main, scan, ready, begin, finish, stamp, place, idx, cnt, total, tally>>

Workers == Cardinality(Worker)

ExecInit ==
  /\ main = "scan"
  /\ scan = [at |-> 0, all |-> TRUE]
  /\ ready = [t \in Worker |-> FALSE]
  /\ begin = FALSE /\ finish = FALSE /\ stamp = FALSE
  /\ place = [t \in Worker |-> "prepare"]
  /\ idx = [t \in Worker |-> 0]
  /\ cnt = [t \in Worker |-> [done |-> 0, abort |-> 0, abortMe |-> FALSE]]
  /\ total = [done |-> 0, abort |-> 0]
  /\ tally = [t \in Worker |-> [done |-> 0, abort |-> 0]]

------------------------------------------------------------------------------
(* ProcessQuery: the main thread *)

mainVars == <<main, scan, begin>>
thrVars == <<ready, finish, stamp, place, idx, cnt, total, tally>>

\* Fault: the flag found before the last is forgotten.
Scanned_fault(i) == [at |-> i + 1, all |-> ready[i]]

\* One turn of the inner loop: a flag that is not set ends it.
Scanned(i) == IF ready[i] THEN [scan EXCEPT !.at = i + 1] ELSE [at |-> Workers, all |-> FALSE]

Scan ==
  /\ main = "scan" /\ scan.at < Workers
  /\ scan' = Scanned(scan.at)
  /\ UNCHANGED <<main, begin, thrVars>>

ScanAgain == [at |-> 0, all |-> TRUE]

Decide ==
  /\ main = "scan" /\ scan.at = Workers
  /\ IF scan.all THEN main' = "join" /\ begin' = TRUE /\ UNCHANGED scan
                 ELSE scan' = ScanAgain /\ UNCHANGED <<main, begin>>
  /\ UNCHANGED thrVars

Join ==
  /\ main = "join" /\ \A t \in Worker : place[t] = "exit"
  /\ main' = "report"
  /\ UNCHANGED <<scan, begin, thrVars>>

------------------------------------------------------------------------------
(* ProcessQueryThread *)

Go(t, l) == place' = [place EXCEPT ![t] = l]

Ready(t) ==
  /\ place[t] = "prepare"
  /\ ready' = [ready EXCEPT ![t] = TRUE]
  /\ Go(t, "wait")
  /\ UNCHANGED <<mainVars, finish, stamp, idx, cnt, total, tally>>

Wait(t) ==
  /\ place[t] = "wait" /\ begin
  /\ Go(t, "next")
  /\ UNCHANGED <<mainVars, ready, finish, stamp, idx, cnt, total, tally>>

\* The head of the loops over batches and parameters.
Take(t) ==
  /\ place[t] = "next"
  /\ IF idx[t] < Jobs[t] THEN Go(t, "execute") /\ cnt' = [cnt EXCEPT ![t].abortMe = FALSE]
                         ELSE Go(t, "stamp") /\ UNCHANGED cnt
  /\ UNCHANGED <<mainVars, ready, finish, stamp, idx, total, tally>>

Succeed(t) ==
  /\ tally' = [tally EXCEPT ![t].done = @ + 1]
  /\ Go(t, "count")
  /\ UNCHANGED cnt

\* Execute, the first time.
Execute(t) ==
  /\ place[t] = "execute"
  /\ \/ Succeed(t)
     \/ /\ tally' = [tally EXCEPT ![t].abort = @ + 1]
        /\ cnt' = [cnt EXCEPT ![t].abort = @ + 1]
        /\ Go(t, "failed")
  /\ UNCHANGED <<mainVars, ready, finish, stamp, idx, total>>

GiveUp(n) == n > FailLimit

\* Execute in the loop that repeats it.
Retry(t) ==
  /\ place[t] = "retry"
  /\ \/ Succeed(t)
     \/ /\ tally' = [tally EXCEPT ![t].abort = @ + 1]
        /\ cnt' = [cnt EXCEPT ![t].abort = @ + 1, ![t].abortMe = GiveUp(cnt[t].abort + 1)]
        /\ Go(t, IF GiveUp(cnt[t].abort + 1) THEN "count" ELSE "failed")
  /\ UNCHANGED <<mainVars, ready, finish, stamp, idx, total>>

Leave(t) ==
  /\ total' = [done |-> total.done + cnt[t].done, abort |-> total.abort + cnt[t].abort]
  /\ Go(t, "exit")

\* is_finish_ is looked at after a failure.
Failed(t) ==
  /\ place[t] = "failed"
  /\ IF finish THEN Leave(t) ELSE Go(t, "retry") /\ UNCHANGED total
  /\ UNCHANGED <<mainVars, ready, finish, stamp, idx, cnt, tally>>

\* Fault: a transaction that was given up is counted.
Count_fault(t) ==
  /\ place[t] = "count"
  /\ cnt' = [cnt EXCEPT ![t].done = @ + 1]
  /\ Go(t, "done")
  /\ UNCHANGED <<mainVars, ready, finish, stamp, idx, total, tally>>

Count(t) ==
  /\ place[t] = "count"
  /\ cnt' = IF cnt[t].abortMe THEN cnt ELSE [cnt EXCEPT ![t].done = @ + 1]
  /\ Go(t, "done")
  /\ UNCHANGED <<mainVars, ready, finish, stamp, idx, total, tally>>

\* is_finish_ is looked at after a transaction.
Done(t) ==
  /\ place[t] = "done"
  /\ IF finish THEN Leave(t) /\ UNCHANGED idx
               ELSE Go(t, "next") /\ idx' = [idx EXCEPT ![t] = @ + 1] /\ UNCHANGED total
  /\ UNCHANGED <<mainVars, ready, finish, stamp, cnt, tally>>

\* end_timestamp_ is taken before is_finish_ is set, under time_lock_.
Stamp(t) ==
  /\ place[t] = "stamp" /\ \A u \in Worker : place[u] # "finish"
  /\ stamp' = TRUE
  /\ Go(t, "finish")
  /\ UNCHANGED <<mainVars, ready, finish, idx, cnt, total, tally>>

Finish(t) ==
  /\ place[t] = "finish"
  /\ finish' = TRUE
  /\ Leave(t)
  /\ UNCHANGED <<mainVars, ready, stamp, idx, cnt, tally>>

WorkerStep(t) ==
  \/ Ready(t) \/ Wait(t) \/ Take(t) \/ Execute(t) \/ Retry(t) \/ Failed(t)
  \/ Count(t) \/ Done(t) \/ Stamp(t) \/ Finish(t)

Main == Scan \/ Decide \/ Join

ExecNext == Main \/ \E t \in Worker : WorkerStep(t)

ExecSpec == ExecInit /\ [][ExecNext]_execVars

------------------------------------------------------------------------------
ExecTypeOK ==
  /\ main \in {"scan", "join", "report"}
  /\ scan \in [at : 0 .. Workers, all : BOOLEAN]
  /\ ready \in [Worker -> BOOLEAN]
  /\ begin \in BOOLEAN /\ finish \in BOOLEAN /\ stamp \in BOOLEAN
  /\ place \in [Worker -> {"prepare", "wait", "next", "execute", "failed", "retry", "count", "done",
                        "stamp", "finish", "exit"}]
  /\ idx \in [Worker -> Nat]
  /\ cnt \in [Worker -> [done : Nat, abort : Nat, abortMe : BOOLEAN]]
  /\ total \in [done : Nat, abort : Nat]
  /\ tally \in [Worker -> [done : Nat, abort : Nat]]

\* No thread begins before all are ready: the throughput is measured with every
\* thread at work.
NoEarlyStart == \A t \in Worker : place[t] \notin {"prepare", "wait"} => \A u \in Worker : ready[u]

\* When the main thread reports, the time of the end has been taken, even if most
\* threads were told to stop.
EndStamped == main = "report" => stamp

\* The report counts every transaction that committed and every failure, also
\* those of the threads that were told to stop.
TotalsExact ==
  main = "report" =>
    /\ total.done = MapThenSumSet(LAMBDA t : tally[t].done, Worker)
    /\ total.abort = MapThenSumSet(LAMBDA t : tally[t].abort, Worker)

\* A thread fails at most twice for a transaction once it has used up its failures:
\* abort_count is never reset.
FailureBound == \A t \in Worker : cnt[t].abort <= FailLimit + 1 + 2 * idx[t]

\* What the report says of throughput is of a run in which all threads began together,
\* whose end was taken, and in which no transaction was repeated for ever.
Measured == NoEarlyStart /\ EndStamped /\ FailureBound
==============================================================================
