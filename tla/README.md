# Ting: TLA+ models, checks and proofs

Ting is a distributed shared memory whose coherence directory and cache
controller run on FPGAs. Every node has a host (`soft_multi_node`: cache, cache
agents, DSM interface, a transactional database on top) and an FPGA
(`hard_multi_node`: HLS pipelines for the directory, the cache controller, the
network path and the DMA queues). A global block lives in the memory of its
home node; the home FPGA keeps a directory entry for it in its DDR; other nodes
cache it in lines of 4 KB.

Faulty variants of definitions, which `PROJECT.json` lists under "mutants", have
names that end in `_fault` and stand before what they replace; nothing else uses
them.

## 1. The system

| Part | State | Operations | Talks to |
|---|---|---|---|
| Directory controller (`dirCtrlHLS_to_net`) | entry: state, bitmap, replica count; copy registers | five requests, four answers, the invalidation loop | network path of the home FPGA |
| Directory pipeline (`dirCtrlHLS_from_net`, `ddrInstHLS_*`) | lock table, retry register, streams, DDR | lock and read an entry, join, write back, unlock, `INIT_DIR` | directory controller, DDR |
| FPGA cache controller (`cacheCtrlHLS_*`) | copy flag | hand a message to the host; acknowledge on behalf of the host | directory, other FPGAs, host rings |
| Network path (`ctrlMsgCopy`, `dataMsgFetch`, `parser`, `deparser`) | messages waiting for data; frame stage | fetch data, send, route, write data to host memory | everything on the FPGA |
| Message dealer and buffer managers (`c2hCtrlMsgDeliver`, `c2h{App,Sys}MultiBufferMgr`) | next system queue; ring tails; retry register | put a message into a host ring | host rings |
| DMA arbiter and host-to-card path (`c2hCmdDataDeliver`, `h2c*`) | round-robin index, burst flag | pass commands and data | DMA engine |
| Host rings (`rx_ring_buffer`, `channel_context`) | head, owner flags, head register | `send`, `recv`, `recv_msg` | buffer managers |
| `Cache` | sets of lines, shadow lines, buffers, eviction registers | `readLine`, `writeLine`, `newLine`, misses, eviction | FPGA, cache agents |
| `CacheAgent` | none of its own | four handlers, each a CAS loop on a line | `Cache` lines |
| `WRLock` | a 16-bit word | `wLock`, `rLock`, their `try_` forms, unlocks | `Cache`, `CacheAgent` |
| `DSM`, allocators | chunk lists, thread registration | `read`, `write`, `malloc`, start-up | `Cache`, FPGA |
| Database | records, lock words, transactions | two-phase locking, executor, cluster fence, TPC-C | `DSM` |

What is hard here. The FPGA acknowledges invalidations before the host has seen
them. Messages without data overtake messages with data. The application thread
and the agents change a line only by compare-and-swap, and each waits for the
other by spinning. Directory entries are read from and written to a slow memory
by a pipeline, so that a lock table has to keep two messages for one entry
apart. Host and FPGA know each other's ring index only through registers and
flags that arrive late. `PROJECT.json` lists every hazard at its line with the
properties that would catch it.

What makes each part correct. Directory: bitmap, count and state fit the
answers still due. Pipeline: a message always meets the newest entry of its own
block, and a lock is neither lost nor left. Rings: no message lost, overwritten
or seen twice. Lock: exclusion. Protocol: directory and caches agree once
things have settled, at most one node can write without having been told to
stop, and every request is answered. Card: data and command, data and message
never part, and nothing waits for ever. Cache of a node: a block has one line, a
buffer one owner. Memory: what is handed out does not overlap. Database:
transactions are serialisable and leave nothing behind, a fence is a barrier, an
inserted record is found, the books of TPC-C balance, and what the executor
reports is what was run.

## 2. The plan

The order in which the models were made is that of what breaks most: the directory and the
protocol around it, then the rings and the pipeline that the protocol
relies on, then the cache of a node with several threads, then the card's data
paths, memory, and the database. `Directory` is the abstract specification of
`Coherence`, `Barrier` that of `ClusterSync`. `CacheLine` is used by `Coherence` and
`SetCache`, `DirEntry` by `Directory` and `Coherence`, `RxRing` is extended by
`RxRestart`. `Card`, `Host` and `Database` collect the parts that a run takes
one at a time. Theorems are kept in modules that end in `_proofs` (section 5).

## 3. The modules

### DirEntry, Directory

`DirEntry` is the handler of `dirCtrlHLS_to_net` as operators: one per case of
its switch (`ReadMiss`, `WriteMiss`, `WriteShared`, `EvictShared`, `EvictDirty`
and the four answers), giving the entry written back, the messages sent and the
copy registers; `CopyOut` and `CopyNext` are one cycle of the invalidation loop,
`AgentNode` the search for the owner. A result record is what one pass of the
pipeline writes to its streams. Addresses carried by entries and messages are
left out; the count keeps its eight bits.

`Directory` is the directory of one block against an environment that sends any
request from any node at any time and answers every message to an agent once,
in any order (`owed`). It is also the abstract specification that `Coherence`
implements. `DirConsistent` is its main invariant; `TransientCloses` says how a
transient entry may change, `TransientEnds` that it does. `Init` is the entry
as `INIT_DIR` sets it.

### Coherence

The protocol for one block and N nodes. No node is distinguished: the home
node's messages go through the same streams as the others'. State and actions:

- directory: `entry`, `copy`, `mem`; `DirReceive`, `DirCopyLoop`;
- network: `up`, `down`, `peer`, one queue per node and direction.
  `Deliverable` is the overtaking of `dataMsgFetch`;
- FPGA cache controller: `FpgaToAgent` (the message goes to a system thread's
  ring and the acknowledgement out at once; its second cycle is merged with the
  first) and `FpgaToApp`;
- cache agents: `AgentTake` (find the line, under the set lock) and
  `AgentApply` (the CAS; disabled while the handler spins);
- application thread, one per node: `Begin`, `NewLine`, `StartMiss` (the CAS to
  a transient status and the request), `Receive`, `Spin`, `Settle` (the CAS
  loops after a miss), `Hit` and `Access` (the check and the copy, which are not
  atomic); `EvictLine`, `EvictMark`, `EvictSend`, `EvictReply`, `EvictUndo`,
  `EvictSpin` for `newLine`'s eviction branch, `start_evict` and `wait_evict`.

Abstractions. Data is reduced to freshness: does this copy hold the last
completed store. The FPGA's read of a buffer is taken when the message is
handled. Other blocks exist as the cause of evictions. `R_EVICT_DIRTY` is
written to an address that the host never set, so the home memory gets it or
does not. The dealer's counter is advanced by messages of other blocks, so a
message may go to any system thread that gets any (`SysThread`: the last queue
never does). The wait of 2 microseconds for the data of an answer is taken to
be enough. An eviction is followed to its end before the thread starts its next
access to the block; in the code, accesses to other blocks may come in between.
The 10 s time-out of `recv_msg` is left out.

### RxRing

The rings of one buffer manager. `Deliver` is one cycle of
`c2hAppMultiBufferMgrHLS` (`c2hSysMultiBufferMgrHLS` is the same code),
`Land` the DMA write of a slot, `RegArrive` the arrival of the last register
write of the host, `Take` and `StepHead` the two halves of `recv`, `Release` the
moment the caller has copied the message it got a pointer to. Register writes
that follow each other before one arrives are merged: only the last value can be
seen later, and seeing an earlier one first is a step the manager may take
before. `step_head` reports the head it is about to leave, so a ring of fewer
than three slots would never hold a message. At the start the register holds
what the process before left, but not "full".

### DirPipeline

Messages as blocks, entries as "is it the result of the last message". `LockTurn`
and `UnlockTurn` alternate as the source flag does; `DdrRead` may sample entries
in any order while answers stay in order; `DdrWrite` acknowledges a write once it
can be read. It is the reason why `Directory` and `Coherence` may take a message
and its entry as one step. The messages of other nodes are assumed to come after
the `INIT_DIR` messages have been acknowledged; nothing in the DSM constructor
makes sure of that, and `LocksMatch` fails within five steps without it.

### DmaArbiter

`c2hCmdDataDeliverHLS`, one action per kind of cycle: `Arbitrate` chooses a
source and passes a command with the first beat, `Continue` passes the rest of a
cache line. The sources write command and data as they get room; `Engine` is the
DMA engine, which pairs the two streams by position alone. A packet is its source
and its number there, counted modulo 3, which tells neighbours apart. The index
register keeps its arithmetic: an idle cycle leaves `0xffff` in it, a cycle in which all three sources wait counts up from
there until the register wraps around. On the card that takes up to 2^32 cycles,
about 17 s at 250 MHz, which is longer than the 10 s after which `recv` gives up;
the run shows that it happens only while all three sources wait
(`StallOnlyWhenFull`) and that it ends (`Served`).

### NetPath

From the two controllers of one card to those of another: `ctrlMsgCopy`,
`dataMsgFetch` (its four kinds of cycle are `NextBeat`, `Join`, `TakeMessage`,
`WriteLoop`), the host's memory (`HostRead`), `parser` and `deparser` with their
three stages. A beat is known by the message it was fetched for and its place in
the line, so that `OwnData` can tell whether it ends up with that message.
`OnlyPlainOvertakes` is what `Deliverable` of `Coherence` assumes of the network.
`LoopDepth` is the depth of the stream from `dataMsgFetch` to itself;
`Delivered` needs it to hold the messages that wait for data, because the module
blocks on it while nobody else could empty it.

### RxRestart

`RxRing` with a host process that is killed at any point, its own start included,
and started again while the FPGA goes on. A process takes seconds to get as far as
its rings, so DMA and register writes from before `ReadTail` are taken to have
settled by then; what the FPGA sends afterwards is not. The start is four steps, as in the
constructors: `ReadTail` (`ring_buffer.h:93`) takes the tail as the head, `Clear`
is the `memset` (`channel_context.h:123`), `WriteLow` and `WriteHigh` are the
arrival of the two halves of the buffer's address (126, 127). The manager adds the
slot to the address it has when it takes a message, so `Send` notes in `lost` a
message that goes to an address other than the new buffer's, `Clear` one that
has landed in it before, and `LandLost` one that lands while the `memset` runs. `own` says whether the address
registers name the new buffer, which they may from the beginning, if its pool is
where the old one was, or after the first half.

So the code does lose messages that are sent during a start, and worse: the
tail has moved past their slots, no flag will be set there, and the thread waits at
the first of them for ever (`recv` exits after 10 s, `recv_msg` returns `0xff`).
Nothing in the repository says otherwise, so there is no finding, but the
properties are stated accordingly. `RestartSafe`: once the buffer is cleared its
flags are those of the messages sent since the tail was read, less the lost ones; no thread goes past
a lost one; nothing unread or being read is overwritten. The new process does not
write the head register either; a ring that was full when its process died
therefore stays full for the manager, and since the retry register is shared, so
do the rings behind it. `RetryEndsUnlessFull` says that such a ring and one whose
thread waits for a lost message are the only ones to hold the manager up.

Each ring has its own restart, which covers the real case, where all rings of a
process start again one after the other.

### Card

`Directory`, `DirPipeline`, `DmaArbiter` and `NetPath` in one specification. They
share no register, so a behaviour is that of one of them: `focus`, chosen at the start,
says which, and the others rest in their initial state. Fairness is that of the
part in focus. `Host` and `Database` are built in the same way. What such a
module adds is one set of properties for all its parts, not their interplay;
where parts interact (`Coherence`, `SetCache`, `RxRestart`, `Tpcc`) they are
modelled in one state.

### CacheLine, SetCache

`CacheLine` is the status word of a line and what an agent does to it
(`CacheAgent.cpp`), used by `Coherence` and `SetCache`.

`SetCache` is the cache of one node: the lines of one set and of the shadow set,
the buffers they are given, the set lock, several application threads and an
agent. `newLine` is there in full with its victim, its buffer and the eviction
registers; `wait_evict`, `DrainEviction` and the replies that a thread takes from
its ring for an eviction are actions of their own. The directory appears as what
it grants, refuses and takes back (`home`). It follows buffers, not what is in them. A
`memcpy` is two steps: `Load` takes the buffer that the line has at that moment (`buf`),
and `CopyData` is its end, with whatever has happened to the line in between.

`EvictedAlone` is about lines: an eviction under way has its shadow line to itself,
because a thread that found that line stores under its read lock and is done before
`start_evict` gets the write lock (`:572`). It is not about buffers, and for them the
code has two holes. `newLine` moves the buffer of a line of the set to the shadow line
under the set lock only (`:480-489`), while a thread that holds that line's own lock may
be copying to or from it (`:315`, `:368`, `:387`); the eviction then goes out during the
copy, since `start_evict` locks the shadow line and not the one the thread has. And
`start_evict` frees a shadow line that has become `INVALID`, with its buffer, without
that line's lock (`:558-568`). The model has both, and the buffer of a copy may go to an
eviction, to a stack and to another block while the copy lasts.

Some things that a reader might expect do not hold. A copy need not find the line
still its own, because the set lock is released before (`OwnLine`, `Cache.cpp:175`):
the run `set_cache_stale` shows it. The others are not claimed: that a reply is
always for the eviction under way, with two ways and four blocks (`:764`); that an
eviction finds a buffer when each thread was given only one (`:488`); that data is
there when its notification is (`:715`).

### WRLock

`WRLock.h` with a load and a compare-and-swap as separate steps. The assumption
that threads fit into the word stands for at most 32 threads against 16 bits.

### Alloc, Slabs, DsmAccess, Host

`Alloc`: `GlobalAllocator` (one per system thread), the request and its answer by
an agent, `LocalAllocator`, `Cache::malloc` with its alignment and its round over
nodes. The message types `PRIMITIVE_ALLOC*` are missing from the enumeration, and
`send_with_lock` and `Cache::free` are declared only: the exchange is modelled as
`Cache.cpp` and `CacheAgent.cpp` use it. `FreshChunkFits` is claimed where the share
of a system thread is a multiple of a line; with three system threads it is not, and
the assertion at `Cache.cpp:1047` can fail. Not claimed either: that a node has a
chunk at all (201 MB divided among eight system threads leave each less than the 32 MB
of a chunk, `GlobalAllocator.h:11`), and that all memory handed out has directory
entries (it is rounded up past the next MB before it is divided, `Config.h:38` and
`DSM.cpp:79`, so that with 256 MB and two system threads the last chunk ends half a MB
behind the last entry).

`Slabs`: the size classes, preallocation, pages, free lists and accounts of the
three allocators that share the pool of a process, and how `DSM::DSM` divides it.
Its lock is taken as working, the growth factor is 1 as in every call.

`DsmAccess`: how `DSM::read` and `DSM::write` cut an access into lines.

`Host` puts them and `WRLock` together: it extends `WRLock`, `Alloc` and `DsmAccess`,
whose variables have names of their own, and instantiates `Slabs` with the small pool
of the run.

### TwoPL

`TransactionManager2PL.cpp`: `SelectLock`, `SelectRead`, `InsertRecord`,
commit (`WriteBack`, `UnLockRecord`, record by record, then `EndCommit`) and abort
(`AbortStep`, `EndAbort`). A record is a version. `Locks` chooses between locks
that exclude and the stubs of `DSM.h`, which always succeed: with the stubs
`Serializable` fails, as one would expect. With deletions the assertion in
`InsertRecord` (`TransactionManager2PL.cpp:71`) can fail, because a record is
unlocked before it is freed; the run and the proofs leave `DELETE_ONLY`, which no
procedure of TPC-C uses, aside.

### Executor

`TransactionExecutor.h`: the flags by which main and worker threads start
together, the retry loop, the end time and the totals. `Measured` collects what the
report rests on. The count of failures is not reset between transactions, so it is
bounded by the limit and two for each transaction, and not by the limit.

### ClusterSync, Barrier

`ClusterSync.h` with the key-value store, in the order in which main uses it;
`Barrier` is what it promises. `Put` and `Get` are GAM's (`DSM.h` throws), and so
are the write locks of `HashIndex`.

### HashIndex, GAddrArray, Keys

`HashIndex`: insertions under a bucket's lock and searches without one, a step
for each access to global memory. `GAddrArray`: the tree of segments that holds the
buckets, allocated and followed as in the code. `Keys`: the 64-bit words of
`TpccKeyGenerator.h` as sets of bits; six bits are left for the warehouse, so 63
warehouses are the most for which keys differ (`TpccKeyGenerator.h:15`).

### Tpcc, Workload: TxnSource, Locality

`Tpcc`: the procedures that write, on the records of the populator, with one step
for each search. Orders that are placed during a run never enter the index, so
only the populated ones are delivered. `DELIVERY` writes the sum `sums`, which is
never assigned.

How a payment accesses its warehouse, district and customer, and a new order its
district and stocks, is a parameter (`TpccProcedure.h:124,162,289,300,314`), which
`ModifyNewOrder` and `ModifyPayment` draw `READ_ONLY` with the probability that option
`-r` gives (`BenchmarkArguments.h:91-93`, `TpccSource.h:308-326`, `392-403`). The
constant `Drawn` names the kinds of records for which both are drawn; it is empty where
`-r` is 0. A procedure changes its copy of a record whatever its type, and
`CommitTransaction` writes back the copies of type `READ_WRITE` only
(`TransactionManager2PL.cpp:59`). So under `-r` the plain sums of TPC-C do not hold: a
payment may reach the warehouse and not the district, or the reverse, and a new order
that only read its district takes a number that the next one takes again.
`TpccConsistent` therefore counts such payments (`book.ware`, `book.dist`) and asks that
the sums differ by exactly these, and that the numbers of the orders that did write
their district have no gap and no repetition. With `Drawn` empty this is the plain
statement. Record locks are taken to work, as everywhere in the database modules: those
of `DSM.h:19-21` always succeed, and with them none of this holds.

`TxnSource`: which warehouses a node has, and how batches are made
and dealt to threads. `Locality`: how orders repeat items. The last two have variables of
their own, and `Workload` puts them together.

Here, too, some expectations do not hold and are not claimed: `-t` transactions per
thread are `-t` per node (`TpccSource.h:94`); a node may get no warehouse
(`TpccParams.h:37`); a payment never repeats the one before (`TpccSource.h:385`).

### Database

The modules of the last four sections in one specification, as `Card` does it.

## 4. The runs

| Run | Instance | Shows |
|---|---|---|
| `coherence2` | 2 nodes that read, write and evict, one agent | no assert, agreement, no unanswered spinning, refinement of `Directory` |
| `coherence3` | 3 nodes: two writers, a reader that evicts | agreement, no orphan, a single writer |
| `coherence_live` | 2 nodes, no eviction, fair | requests answered, agents finish, no deadlock |
| `coherence_two_agents` | 2 nodes, 3 system threads | violation: `Agreement` |
| `coherence_data` | 2 nodes | violation: `NoLostUpdate` |
| `coherence_evict` | 2 nodes, eviction | violation: `NoSelfLock` |
| `rx_ring` | 2 rings of 3 slots, one restart each | `RestartSafe`, `RetryEndsUnlessFull` |
| `card` | 6 nodes; 5 entries, 3 buckets, streams of 4; index of 7 values, lines of 2 beats, streams of 2; 2 and 1 messages | `DirTypeOK`, `DirConsistent`, `TransientCloses`, `TransientEnds`; `Joined`, `NoStaleEntry`, `LocksMatch`, `RetryEnds`; `DmaInOrder`, `Served`; `NetSound`, `Delivered` |
| `host` | 3 threads, word of 8 values; 2 threads, 2 system threads of 2 chunks; 3 allocators; lines of 4 bytes | `Exclusive`, `WordCounts`, `SomebodyGetsIn`; `MemorySound`; `SlabsSound` |
| `set_cache` | 2 threads, 2 blocks, 1 way, 2 buffers for each thread | `OneOwner`, `OneLine`, `EvictedAlone` |
| `set_cache_stale` | the same, no other node takes blocks | violation: `OwnLine` |
| `database` | see below | `CopyCurrent`, `Serializable`, `NothingLeft`; `Measured`, `TotalsExact`; `IsBarrier`; `IndexSound`; `TpccConsistent`; `WorkDealt` |

Bounds. The queues of `Coherence` need none: a thread has one request under way
and the directory one round of answers. Two nodes exercise every pair of racing
messages between an owner, a requester and the directory; the third gives rounds
of invalidations with more than one answer, and a requester that is not the one
being invalidated. `coherence3` says nothing of data, and no guard looks at
freshness, so it uses `VIEW ControlView` and visits one state for each state of
the control; the view of `set_cache` leaves out registers of a thread that it will set
before it reads them again, and the names of buffers: it keeps where each one is, in
lines, on stacks, in requests and in copies, and no action or property asks for more. Six nodes for
the directory alone cost nothing. Three slots are the
fewest that the code works with; they wrap, fill with two messages, of which one may be
lost to a start and one not, and differ in full and empty. Three threads are the fewest in which a swap can succeed after the word has
changed and changed back. Three buckets with two blocks in two of them give
conflicts on the same block, on another block of the bucket, and none. An index of
7 values with an idle value of 4 wraps around after an idle cycle and after a
row of full ones. Three messages are enough for one without data to overtake one
that waits for it while a third arrives. One way and two blocks make every miss an
eviction. Sizes 3 and 8 of a chunk of 8 leave a rest that is too small, and an
allocation that needs alignment; accesses of up to 17 bytes with lines of 4 begin
and end anywhere and contain whole lines.

The `database` instance. Three transactions on two records and a new one, two
accesses each (threads, records and new addresses are interchangeable:
`SYMMETRY`); three workers with two or one transactions and a limit of two
failures; four nodes with main's plan of a fence, a broadcast and five fences; two
inserters of three records each, a block of two, keys that share a bucket, and a
searcher; arrays of up to 27 elements with segments of 3; the smallest and largest
numbers of TPC-C in keys; two interchangeable threads with up to two
transactions each, three in all (`MCProcedures`: enough for a delivery after the last
order and one after the counter's restart, or a third beside two that conflict), on a
warehouse with two districts, two customers and an item, where the district is accessed
either way (`Drawn` has `DISTRICT`: it is the record that payments, new orders and
deliveries share, and both its sum and its order number depend on it). By hand the run
also passes with four transactions, and the procedures alone with four and with
`WAREHOUSE` in `Drawn` as well. One to six warehouses on two nodes with one to three
threads; orders of two or three of four items.

Deadlock. Deadlock checking is off in the `Coherence` runs with evictions because
the program really stops there (`coherence_evict`), and in the runs of which
the work comes to an end: messages of `NetPath`, allocations when memory is used
up, the transactions of a thread, the starts of a process. `coherence_live` checks it.

Fairness. FPGA pipelines are free running and the network is taken to be
lossless, as the code takes it (nothing retransmits). Host threads and agents spin
and are pinned to cores, so each is scheduled. DMA reads and writes end. Nothing is
assumed of who starts an access, and whoever holds a `WRLock` leaves it. `coherence_live`
has no evictions, so `AgentFinishes` says nothing of an agent that meets a line in the
states of an eviction; with evictions the program may stop (`coherence_evict`).

What the violations show. `coherence_two_agents`: two messages for one line go
to different agents; the later is handled first, the line is acquired again, and
the earlier downgrade then hits the new owner's line. `coherence_data`: a store
that hits is made after the FPGA has read the buffer for another node.
`coherence_evict`: a refused eviction is started again under its own lock.
`set_cache_stale`: between finding a line and copying from or to it a thread holds no
lock; the miss of another thread evicts the line and gives it to another block.
`PROJECT.json` quotes what the repository says.

## 5. The proofs

A module that ends in `_proofs` extends the modules it is about. Inductive
invariants were model-checked as invariants of the runs' instances before they
were proved. The theorems hold for every value of the constants that the named
assumptions of the modules allow.

`DirEntry_proofs` (any N in 1..255) has the lemmas about the handler: what each of
its cases does to an entry that is typed and consistent with the answers under way.
The point is `Invalidating`: the count of an entry in `S_TO_DIRTY` is the number of
nodes that still have to answer, plus one when the requester is itself among the
sharers. The nodes that have to answer are those with an answer under way and those
the copy loop has not reached; the two are disjoint, and an answer or a cycle of the
loop moves one node at a time. Cardinalities come from the finite set theorems. The
lemmas are stated of an entry, copy registers and a set of answers, so that both
`Directory` and `Coherence` can use them.

`Card_proofs`: the directory (`DirTypeOK`, `DirConsistent`, `TransientCloses` from
the lemmas above) and its pipeline, for any blocks, buckets and depths. `PipeInv`
adds to `Joined` and `NoStaleEntry` that every message behind the lock stage has its
bucket locked and its block to itself (`Locked`), that a locked bucket has such a
message (`Used`), that nothing else is under way while entries are initialised
(`Starting`), and that the newest entry of a block is in the DDR or is the one on its
way there (`Newest`). `NoStaleEntry` alone is not inductive: it needs that a
block's lock is held from its read to the acknowledgement of its write. The third part
is the arbiter in front of the DMA engine (`DmaInOrder`, any length of a line, depth
of the streams and width of the index). `DmaInv` says of each pair of streams that
their beats are those of their packets one after the other: there is a map from
beats to packets and places (`Paired`) that begins where the engine is in the oldest
packet and ends where the source, or the arbiter within a burst, is in the newest.
A source whose burst is under way has given its command away, so its beats are
paired with that command and those still in front of the arbiter (`Waiting`).
`Numbered` adds that the packet a source will make next comes after its newest one.
The fourth part is the way from card to card (`NetSound`, any messages, length of a
line and depths). `PathInv` speaks of two orders that no module knows: O, in which the
parser gets the messages, and G, in which `dataMsgFetch` sends for their data. Those of
O that have data are the first of G (`Ranked`); the rest of G is what waits in the loop
(`Awaited`). Every beat of data, from the host's memory to the memory of the other
host, is at a place of one row of beats, that of the lines of G (`IsBeat`), and what
each stage has taken so far is a number of beats that ends at, or within, the line of
the last message it has taken (`Coming`, `Passed`, `Parsing`, `Received`); on the wire
the counts run from the deparser's to the parser's, beat by beat (`Wired`). A command
and its beats therefore have the same number in G. That O differs from the order of
sending only by messages without data that pass others with data is `InOrder`, for
which what is still merged must be younger than all that has gone (`Ordered`).
`NetPathAssumption` says which types each controller sends.

`Coherence_proofs` (any number of nodes and of agents): `NetInv` is what travels.
Orders and answers between the directory and a node are at most one at a time, an
acknowledgement travels only for an order that the directory counts, and the
entry fits the answers under way (`EntryConsistent` of `DirEntry`). With the
mapping of `owed` to `Owed`, every step is a step of `Directory` or a stutter:
`CoherenceImplementsDirectory`, and the theorems on the directory hold of the
protocol.

`Protocol_proofs` (any number of nodes, one cache agent each, `SysNum <= 2`):
`ProtocolInv` relates, node by node, five things that the code never sees together:
where the thread is and the words of its line and shadow line (`Shape`), the request,
answer or refusal it waits for, which is under way exactly once (`Expects`), the
copy that the node has or has been granted (`Has`), the copy that the directory
reckons with once all has arrived (`Known`), and the orders in front of the agent,
which make up exactly the difference of the last two (`Agrees`, `AgentOK`). Each
action is treated once as a step on these abstract values, decided by cases, and once
as the change of queues that leads to it. `NoAssert`, `SpinIsAnswered`,
`Agreement`, `NoOrphan` and `SingleWriter` follow. The hypothesis on the agents is
needed and not a convenience: with two agents the orders to a node are no longer
carried out in their order, and `coherence_two_agents` refutes `Agreement`.

`SetCache_proofs` (any threads, blocks, ways and buffers): `SetInv` says that a line
in use, and no other, has a buffer and its block to itself (`LinesOK`), that every
buffer is somewhere, once (`BuffersOK`), that locks exclude (`LocksOK`), that the
shadow lines in the eviction registers of two threads are different ones (`OwnOK`,
`Apart`), and that whatever a thread has under way, request, reply or a reply put
aside, is for the line it waits for or for a shadow line it has locked, one for each
block (`Once`, `MailOK`). The last part is what makes it safe to free a shadow line
when a reply names its tag, and it holds even where a second eviction overwrites
`cur_evict_cline`: the first line stays locked for ever then, but nobody else gets it.
`StepOf` says what a step of one thread may do to lines and locks, and one lemma
shows for all actions that such a step leaves the other threads' parts alone.
`SetCacheEvictedAlone` follows from `LocksOK`, `MailOK` and the uniqueness of a
buffer's line: a thread that copies has the lock of its line, so that line is not the
one evicted, and if it has that line's buffer in hand its own line has lost it.

`RxRestart_proofs` (any set of rings, any size of at least 3): `RingInv` says of the
indices (`Indices`) that register, reported head, head, DMA and tail lie in this order
once round the circle (`RingOrder`) and how head and reported head lie
while a message is taken (`Taking`), and of the flags that they are those of the
window from the head to the last landed slot (`InOrder`). Lemmas on the circular
distance and on windows carry the arithmetic. For restarts, at any point and any number of times, the
indices keep the same invariant: the new head is the tail, so head, DMA and tail
coincide while the register may be anywhere behind them. `Found` says what the
flags are once the buffer is cleared, `Waited` that lost messages lie
between head and tail and that one being taken is not lost.

`Host_proofs` has three parts. The lock (any finite set of threads that fits the
word): exclusion needs that the word counts the readers and that a reader never swaps
on a loaded LOCKED (`Loaded`). Global memory (any nodes, threads, system threads,
sizes, and shares that need not divide evenly; chunks are whole lines, as 32 MB are):
`AllocInv` says that a chunk that has been handed out belongs to one thread
(`ChunksOK`), which cuts it or is about to, and that every piece returned lies in one
chunk below the mark of the thread that cuts it (`RegionsOK`). That chunks do not
overlap, lie in the memory of their node, and begin at lines where the shares do, is
arithmetic of the divisions in `DSM.cpp` and `GlobalAllocator.h` (`BasesApart`,
`BaseInMemory`, `BaseAligned`). Accesses (any line, address and size): `Copied` gives
the bytes moved as a function of the cursor, and the number of visits as that of the
lines between the first byte and the last one copied; `TouchedIs` says that these are
the lines of the bytes. The prover knows no more of division than its definition, so
that the proof carries its own lemmas (`DivIs`, `DivMod`, `DivMono`).

`Database_proofs` has five parts. The executor (any threads, any batches, any limit
of at least one; the code has 10): `ExecInv` adds to the types who has reported ready
before main lets the threads begin (`Started`), that the first to end has taken the
time before it says so (`Ended`), and how many failures a thread can have at each
place of the retry loop (`Failures`). `TotalsInv` adds that the totals are the sums of
what the threads that have left had counted, and that each thread has counted the
commits it has made, but for one between the commit and the count. Two-phase locking (any threads, records and
accesses, under `Working`: locks exclude and nothing is deleted): `LockingInv` says
that a thread holds exactly the locks of its accesses that it has not given back, that
a writer's lock excludes all others and that a copy under a lock is current.
`MemoryInv` adds that the memory of a new record belongs to a transaction that will
keep or free it, or has been kept; `NothingLeft` follows. `SerialInv` gives every
transaction a place, at the moment it has its last lock or gives up: from then on it
only gives locks back. Whoever precedes another has taken an earlier place
(`EdgesUp`), and the places of all that used a record are before that of the
transaction that has it locked for writing (`WriterLast`). So in any set of
transactions the one with the last place precedes no other, which is `Serializable`;
that there is a last one follows from the strict inclusion of finite sets being well
founded (`LastPlace`). The cluster (any number of
nodes, any plan): `SyncInv` gives `sync_key_` as a function of the operations a node
has finished, `Base(k)`, the number of operations and of fences before, so that nodes
use the same keys for the same operation although each counts for itself, and no key
twice. With it every step is a step of `Barrier` or a stutter. The workload (any
warehouses, nodes, threads, batches, any number of transactions and sizes of orders):
`SourceInv` says that the threads before the redirector's one have had a batch more
than the others (`Rounds`), that source and redirector point to the same thread, and
that what was dealt, with the batch being filled, adds up to the turns of the loop
(`AllDealt`). The last batch may be short, so that only the bound of a batch remains
when the source is done (`Evenly`). `LocalityInv` has to say why an item of the last
order is left as long as one is wanted, although an item that came in as a substitute
may be of the last order without being counted: it then stands for one that was
counted or will never come (`CountsAll`, with the set of items drawn so far).

The procedures (any terminals, warehouses, districts, items and lines, any number of
customers, orders still to deliver and transactions, and any access types that may be
drawn): `TpccInv` has four parts.
`Terminals` gives each terminal's parameters, place and access list, with what the
list must hold there by procedure (`PaymentOK`, `NewOrderOK`, `DeliveryOK`;
`CounterOK` follows one district through the three loops of `DELIVERY`), and says that
the copies are those of the table with this procedure's change. `LocksApart` says that
a record one terminal has locked to write is locked by nobody else; hence a commit
changes nothing that another procedure's list speaks of (`ProcFrame`). `Shaped` has
the domains. `Books` relates the table to the history: the income of the districts is
that of the warehouse but for the payments that kept one of the two (`Incomes`, `Tally`),
committed orders that wrote their district have the numbers up to its next one
(`Numbered`), and an order has been delivered once if the counter
of its district has passed it or has started again at 1, and never otherwise
(`Deliveries`, `IsDelivered`). A commit, which writes a whole list, is first reduced
to one function of the table by procedure (`PaymentDoes`, `NewOrderDoes`,
`DeliveryDoes`), and that function keeps the books. Items and new orders are only
ever read, so a search for them is never refused, which is why the assertions on them
are not reached. With the sums of `Incomes` written as TLC can evaluate them,
`TpccInv` was model-checked on the instance of `database` as the others were.

The sums of the executor, the workload and the procedures are those of
`MapThenSumSet`, a recursive function that the community modules choose. What is
needed of it (there is one, it is determined, the order of summation does not matter,
one summand changes: `SumExists`, `SumSame`, `SumTakes`, `SumChanges`) follows from minimal counterexamples: the strict inclusion
of finite sets is well founded, which the library states without a parameter that is
an operator (`SmallestSet`). `FlattenSeq` is treated likewise, with the least number
of a set (`LeastNumber`, `FlattenAppend`).

Only model-checked: all liveness (fairness and ENABLED are out of the prover's
reach); the slabs of a process (`SlabsSound`) and the storage of the database
(`IndexSound`, whose keys and array are built with powers), whose modules have no
proofs.

## 6. Not modelled

- `INIT_NET` and the table of node addresses; registration of threads; the 10 s
  exits of `recv` and `recv_msg`, after which the program has no way on.
- The record and column layout, the populator, random numbers, the two procedures
  that only read.
- Chisel wiring, generated wrappers and scripts; only the depths of their queues
  matter here.
- Statistics, logging, NUMA helpers; the HLS test benches.
- Vendored libraries (`parallel_hashmap`, `fmt`, `concurrentqueue`, `libcuckoo`,
  the QDMA driver).

The vendored libraries, wiring, tests and benches are by far the larger part of the
repository's lines; the models cover the program's own logic, which is the
smaller.

What could follow: proofs for the slab allocator; a composition of `NetPath` with the queues of `Coherence`.
