# TLA+ models of NetForge and of the matching engine

The repository is a course whose code is two capstone programs: **NetForge**, a
key-value server with a thread pool and a write-ahead log
(`capstone/reference`), and a **matching engine** with a lock-free ingress ring
and a price-time-priority order book (`capstone/matching/solution-reference`).
Around them are exercises, labs, pages and scripts. This directory models the
parts of the two programs that are hard to test, checks the models with TLC and
proves the central results with TLAPS.

## The system

| Part | State | Operations | Hard part |
|---|---|---|---|
| Blocking queue | `queue_`, `closed_`, two condition variables | `push`, `pop`, `close` | lost and stolen wakeups, close against waiters |
| Thread pool | workers, `shutting_down_`, counters, `join_mutex_` | constructor, `submit`, `shutdown`, `worker_loop` | shutdown from several callers and from a task, half-built pools |
| Server | listener, stop flag, connections | `run`, `handle_client`, `execute`, `request_stop` | accepting thread blocked in submit, descriptor ownership |
| Durable mutations | log file, `fd_`, store, `mutation_mutex_` | `execute` (SET, DEL), `append_record`, `recover` | crash between any two steps, failed writes, torn tails |
| Protocol | none (streams) | `recv_frame`, `send_frame`, `parse_command` | short reads, split frames, timeouts |
| Client | one socket | `request` | connect deadline, lost answers |
| Packet decoder | none | `decode_ethernet_ipv4_tcp`, `parse_hex_bytes` | lengths taken from the packet |
| Benchmark | workers, samples, failures | `main`, `connect_to`, `percentile` | shares that add up, a report of what was asked for |
| Parallelism lab | partial sums | `parallel_sum` | a partition in 64-bit arithmetic |
| Ingress ring | cells with sequence numbers, two counters | `try_push`, `try_pop` | all interleavings of atomic accesses |
| Order book | bids, asks, index of live ids | `submit`, `cancel` | index and book in step, priority, conservation |
| Matching engine | books, `next_sequence_` | `submit`, `cancel` | numbers given by callers |
| Pages, scripts, labs | localStorage, pid file, record files | progress, serve, record | two tabs, two runs of a script |

The server's accepting thread submits each connection to the pool; the pool
hands it to a worker through the queue; the worker executes requests, which for
SET and DEL go through the mutation mutex to the log and then to the store. In
the matching program producers put orders into the ring and one thread takes
them out and submits them to the books.

## Modules

`BlockingQueue` models `blocking_queue.hpp`. A step is what a thread does while
it holds the mutex, or one notification after the unlock; waiting threads are
those at `waitNotFull` and `waitNotEmpty`, and may wake spuriously. `pushed` and
`popped` are histories, `throws` counts the exceptions of `queue_.push`, of which
there are at most `MaxThrows`.
`BoundedChannel` is what the queue promises: call, one atomic effect, return.
`BlockingQueue!Channel` is the refinement mapping.

`ThreadPool` models `thread_pool.cpp` on top of an instance of `BlockingQueue`
(every step of the queue is a step of the pool). `at` is a thread's place in the
pool's own code and `pc` its place in the queue. `PoolStats` adds a task that
reads the two counters as STATS does. `TaskPool` is what the pool promises
whoever uses it: tasks accepted, taken in order, finished, workers that leave, a
shutdown that returns. `ThreadPool!P` and `Server!P` are the two mappings onto it.

`DurableStore` models `Server::execute` for SET and DEL, `wal.cpp` and
`store.cpp`. `file` is the page cache, `disk` stable storage; entries are
complete records or torn ones. A process crash loses memory. A power loss leaves
what was last synced, or any longer cut of the file, torn or not. `FsyncLinks`
says whether syncing a new file makes its name durable, which POSIX leaves open.
Exceptions for want of memory leave `execute` before anything is written
(`AppendThrows`) or behind the fsync, out of `KvStore` (`ApplyThrows`). After the
second the server goes on with a record in its log that its memory lacks;
`missed` has the positions of such records.

`OrderBook` models `order_book.cpp`, one iteration of the matching loop per
step, and `MatchingEngine` adds the engine's numbering; other books appear only
as the numbers they use. `offered`, `filled` and `gone` are histories by order
of arrival.

`LockFreeIngress` models `ingress_queue.hpp`, one step per atomic access. With
`Weak`, loads may return any earlier value and a compare-exchange may fail for
no reason: more than the memory orders of the code allow. Positions do not wrap.

`Server` models the life of a server process: constructor and `open_listener`,
the accepting thread in `run`, the workers in `handle_client`, `main` with its
signal handler, and the destructor. `fd` and `closes` follow the descriptor of
each connection through `accepted`, the shared holder, the queue and the
handler. The pool appears by its effects, as in `TaskPool`: a bounded queue that
is drained before shutdown returns. Its worker threads may meet any outcome of a
read or a write, so clients need no model of their own.

`Framing` models `encode_frame`, `write_all`, `read_exact` and `recv_frame` on
byte streams: each step moves one or more bytes, in as many pieces as the kernel
likes. `FrameChannel` is what they promise, whole payloads in order, and
`Conversation!IsFrameChannel` the refinement. `Conversation` puts `request` (or a
session of the benchmark) at one end and `handle_client` at the other, with the
address loop and the deadline of `connect_with_timeout`. `Commands` has
`parse_command`, `split_once`, `trim` and `valid_key`, the records of the log and
the answer to GET, over texts of symbols; one symbol is a space that `isspace`
accepts and `find_first_of` does not. The grammar that the parser is compared
with is stated there too, and owes nothing to it: by where in a text a verb, a
key and a value may lie and what must stand between them. `MCWire` lets a text
grow beside the conversation.

`Packet` has the ten checks of the decoder, the bytes that each one reads and the
fields of the summary. Memory behind the packet holds bytes too, so that reading
them would be visible. `HexBytes` models `parse_hex_bytes`, a character per step;
`ParallelSum` models `parallel_sum`, where a sum is known by how often each item
is in it; `Bench` models `netforge-bench` down to its verdict.

Operators named like the action they vary (`PushNotifyNobody`, `SyncSkipped`,
...) are faulty versions. They are not part of any specification; putting one in
the place of the original must make TLC report the property it is meant for.

## Runs

| Run | Instance | Result |
|---|---|---|
| `queue` | 3 threads, 3 values, capacity 1, one exception | FIFO exactly once, no lost wakeup on either side, progress, close releases all, refinement of `BoundedChannel` |
| `queue_throw` | the same | violated: a producer sleeps beside room (finding) |
| `pool` | 2 workers, 2 callers, 3 tasks, capacity 1 | types, those of the queue included, and every task in one place, counters, drained at return of shutdown, a failed construction ends, refinement of `TaskPool` |
| `pool_live` | 1 worker, 2 callers, 3 tasks of which 1 may never end | shutdown returns, accepted tasks run, blocked submits are released |
| `pool_stats` | 2 workers, 1 caller, 3 tasks | violated: STATS shows completed > submitted (finding) |
| `store` | 2 handlers, 2 keys, 2 values, log of 3 | acknowledged is durable, memory is the log replayed but for what threw, torn entries only at the end, what memory lacks was not answered, durable records stay |
| `store_name` | the same, log of 2, fsync does not make the name durable | violated: an acknowledged mutation is lost (finding) |
| `book` | 3 ids, 2 prices, quantities 1 and 2, 4 orders | index exact and levels never empty, book not crossed, quantity conserved, price-time priority, the loop ends |
| `ingress` | 3 threads, 2 cells, 4 items, weak loads | one owner per cell and never more items than cells, items as pushed |
| `ingress_solo` | 3 threads, 2 cells, 3 items | a thread alone finishes its call |
| `wire` | 2 requests of 1 to 3 bytes and answers of 0 to 3 where 3 are too many, 2 addresses, 2 ticks to connect; texts of up to 6 symbols | types and bounded buffers, streams in step, answers belong to their requests, a request that was not sent is not executed, refinement of `FrameChannel`, calls return; the parser accepts its grammar, what SET stores can be replayed and read |
| `server` | 4 connections, 2 workers, capacity 1, 2 addresses | one owner and one close per descriptor, bounded backlog, nothing left at the end, the process ends |

What `wire` says about a caller: an answer means that the request was executed
once; an error of connecting or sending means that it was not and will not be;
only an error of receiving leaves it open. What `store` says about an exception
behind the fsync: the client gets no answer, other clients do not see the
change, and after a restart they do, because the record is durable. `server`
shows two things that the code does not say. "ERR overloaded" is never sent,
because `submit` waits for room and refuses only once the accepting thread
itself has shut the pool down. And when the accept loop breaks off without a
signal, `stop_requested_` is not set while the pool waits for its handlers, so
the process ends only if no client keeps its handler busy for ever; after a
signal it always ends.

**Bounds.** Capacity 1 makes the queue full and empty at every value; three
threads give two waiters on one condition variable and a third that notifies.
Three tasks fill a worker, the queue and a blocked submit. A log of three
entries has an acknowledged record, an undecided one and a torn one; crashes are
not bounded. Four orders with three ids give a level of two, a taker, and an id
that is used again. Four items go around a ring of two cells twice. Four
connections fill two workers, the queue and the hands of the accepting thread.
Headers have four bytes, so that payloads of two bytes are cut in every place a
longer one could be, and the payload that is too large is one byte over the
limit. Six symbols make a verb, a key and a value with separators, and reach the
size limits of keys and of texts. `MC` modules state each bound in their
next-state relation. Requests stop at the bounds, so most runs may stop; `store`
and the ingress runs never do and are checked for deadlock.

**Fairness.** Weak fairness of each thread inside a call: the operating system
schedules runnable threads and a mutex held for a bounded time is acquired. Weak
fairness suffices because a step that waits for a lock is enabled whenever no
one is inside the locked section, and locked sections are single steps. In
`wire` and `server` this includes that a blocked read or write ends: every
socket has a receive and a send timeout, and `poll` has one too. Nothing is
assumed about callers, spurious wakeups, exceptions of `queue_.push`, or the
body of an endless task. `ingress_solo` assumes only that one thread runs;
there, others can delay it only by successful claims, which the bound on items
limits.

## Proofs

`BlockingQueueProofs` proves, for all threads, values and capacities:

- `TypeCorrect` and `FifoCorrect`: the type invariant and
  `pushed = popped \o queue`. Both are inductive, the second given the first.
- `ConsumerWakeupCorrect`: the invariant behind it counts. While some consumer
  sleeps, the values in the queue are at most the consumers that are awake
  inside `pop` plus the notifications still to be sent. One notification
  accounts for one value, so the count is preserved by every step although the
  notified thread, a passer-by and a spurious wakeup may all compete.
- `ProducerWakeupCorrect`: the same count for free places, with the number of
  exceptions added: an exception loses the notification its producer was woken
  by, and no more. Without that term the count is not preserved, which is how
  the finding of `queue_throw` was met.
- `CloseLeavesNoSleeper`: when `close` returns the queue is closed and nobody
  sleeps in `push` or `pop`. The invariant (`Released`) follows the two broadcasts
  one by one: behind each of them its condition variable has no waiter, and a
  closed queue gives it no new one.
- `QueueRefinesChannel`: with the mapping of `BlockingQueue`, every step is a
  step of `BoundedChannel` or a stutter.

`ThreadPoolProofs` proves, for any workers but none, any callers, tasks and
capacity:

- `PoolUsesQueue`: every step of the pool is a step of the queue or leaves it
  alone, and no thread calls it while it is inside it. So the theorems of
  `BlockingQueueProofs` hold inside the pool, and its lemmas are cited here, not
  proved again.
- `EveryTaskOnceCorrect`, `CountersOrdered`, `DrainedAtReturnCorrect`,
  `PoolTypeCorrect`: from one invariant. `Places`
  ties a thread's place in the pool to its place in the queue. `Life` says which
  workers exist while the pool is built, after that has failed, in use and after
  a shutdown, and that a worker that has left found the queue closed and empty,
  as it then stays. `Joined` makes the holder of `join_mutex_` the one that
  joins. `Counts` gives both counters by what went through the queue: submitted
  is ahead of it by the submits under way, completed is behind it by the busy
  workers, and that is why a submit that takes its count back does no harm.
  `TasksOnce` counts each task in the queue, at the workers and among the
  finished ones. `DrainedAtReturn` follows: no worker is left to be busy and the
  queue is empty, so what was pushed has run.
- `FailedConstructionCorrect`: the failed constructor comes to `workers_.clear()`
  when `close` has returned to it. By `CloseLeavesNoSleeper`, which holds here by
  `PoolUsesQueue`, no worker is asleep then, and a pool that is not built has never
  had a task (`Unused`), so that each started worker is in `pop` on its way to
  `nullopt`, or behind it.
- `PoolKeepsPromise`: every step is a step of `TaskPool` or not seen there. A
  worker has a task from the moment `pop` takes it until its body has ended. The
  two steps that need the invariant are the worker that ends, which found the
  queue closed and empty some steps ago (`Life` keeps it so), and the caller
  whose shutdown returns, which may have had nobody left to join.

`DurableStoreProofs` proves, for all threads, keys and values, a log of any
length and any number of crashes, where fsync makes the name of a new file
durable (`FsyncLinks`; `store_name` shows that the results need it):

- `StoreTypeCorrect`, `AckedDurableCorrect`, `TornTailCorrect`: none of these is
  inductive by itself. `IInv` adds where a handler is in `append_record`
  (`InStep`: nothing, a torn frame or its record behind the applied entries),
  what holds in each phase of the server (`InPhase`: applied entries are
  complete, an open log that nobody writes to has no other entries, and a missed
  one is on stable storage with all before it), and that the
  file and stable storage agree on everything up to each answered record
  (`AckedInPlace`). The agreement is what a power loss preserves
  (`SurvivorKeeps`): it can cut the file only behind it. That a torn entry is the
  last one is what makes the repair harmless: an answered record is complete, so
  it lies before the cut. There is one lemma per action.
- `StoreReflectsCorrect`: the store is the replay of the entries taken in
  (`InMemory`: the applied ones without the missed). Each step appends behind
  them, applies the next one (`ReflectsNext`), passes over it, or starts again from
  nothing.
- `UnappliedCorrect` and `DurableRecordsStayCorrect`, an action property,
  from the same invariant.

`OrderBookProofs` proves, for any ids, prices and quantities and any number of
orders, for a book that is called directly and for one behind the engine:

- `IndexCorrect`, `NotCrossedCorrect`, `ConservationCorrect`. `BookOK` says of
  each level that its orders have its side and price and stand in the order in
  which they came. Lemmas then give the set of resting orders after each change
  of a level (an order behind the others, a smaller quantity at the front, one
  less), and the rest of the proof is about sets: `Index` (index and book say
  the same, ids and arrivals are unique), `TakerOK` (the order in `submit` is
  the last that came and its id is free) and `Balance`. `NotCrossed` is about
  the time between calls and is not inductive; `Uncrossed` drops that condition:
  what the loop leaves of a taker rests only when the best level opposite no
  longer crosses it.
- `PriorityCorrect`: the front of the best level has priority over every resting
  order of its side. That `begin()` of a side is its best level needs that a set
  of natural numbers has a least member (`LeastHolds`, from the library's
  well-founded relations) and, for bids, that the prices in use have an upper
  bound, which is part of `BookOK`. Behind the engine it holds with any mixture of
  numbers from callers and from the engine; `book` has only the engine's.

`WireProofs` proves, for bytes of any base from two on, any payloads whose length fits a
header, any `max_payload`, any number of requests and any addresses:

- A header read back is the length it was made from (`HeaderLength`, four steps
  of division with remainder).
- `InStepCorrect`: what recv_frame has of a frame, what is on the way and what is
  not yet written are together the frames of the payloads still to be received.
  The invariant says so without recursion: there are cuts, each a frame behind
  the one before, at which the frames stand (`Cuts`, `Frames`). Writing and
  reading move bytes from one of the three parts to the next, a new frame adds a
  cut at the end (`FramesAppend`) and a delivered one takes the first away
  (`FramesFirst`). `FramesAreEncoded` shows that such bytes are the value of the
  recursive `Encoded`, by the least place where two of its solutions differ.
- `FrameChannelCorrect`: each step is a step of `FrameChannel` or a stutter, on
  each stream.
- `WireTypeCorrect`, `AnswersMatchCorrect`, `CutRequestCorrect`: `Ends` relates
  the two ends to the state of the streams, and `Served` says how many requests
  were executed and answered at each place of `handle_client`, and that an answer
  is that to the request of the same number or the refusal of the last one. The
  client's view follows because what it received was sent. A request that is not
  written to its end has not been received: bytes that are left make up at least
  one payload (`FramesEmpty`).

`CommandsProofs` proves, for payloads of any length with any symbols in them and
for any limits on keys and on texts:

- `ParserCorrect`: the commands that a text is a sentence for are the one that
  `parse_command` gives, or there are none and it gives an error. A part of a
  text is known by where it begins and ends, and lemmas say what `trim` and
  `split_once` give in those terms (`TrimCore`, `SplitNone`, `SplitSome`): a part
  of the payload again. In one direction the parts of a sentence are those at
  which the parser cuts it (`ReadAlone`, `ReadKey`, `ReadValue`, `MeansOne`), so
  that no text has two meanings; in the other, the cuts of an accepted text are
  the places the grammar asks for (`Understood`).
- `StoredCorrect`: a request that fits a frame and changes the store gives a
  record that fits a frame and is read as the same command, and its value fits an
  answer. The record is itself a sentence, so the first half is `MeansOne` again
  (`ReplayDel`, `ReplaySet`). The second adds up the sizes of the parts of the
  request (`SizeToKey`, `SizeParts`): its verb, its separators, its key and its
  value leave room for the words around them in the record and in the answer.

That a set of places has a first and a last member and that sizes add up are
hypotheses of the lemmas (`LeastNumber`, `SizeKnown`), and are proved at the end
of the module from the library's facts about finite sets.

`LabProofs` proves, for packets of any size and content, that no check and no
field reads outside the packet (`ReadsInside`), that the headers of an accepted
packet are nested (`HeadersNested`), that what lies behind the datagram changes
nothing (`PaddingIgnored`) and that a packet cut inside it is refused
(`CutRefused`). `Known` collects what has been tested when a check is reached;
each theorem needs only that and the ranges of bytes.

`ServerProofs` proves `OneOwnerAlways`, `BacklogBoundedAlways` and
`NothingLeftAlways` for any number of connections, any number of workers but
none (`ThreadPool` refuses that) and any capacity. Counting owners is not
inductive. The invariant says for each possible owner that nobody else has what
it has (`RunnerOwns`, `QueueOwns`, `WorkerOwns`), and that an open descriptor is
with one of them (`OpenIsOwned`): accepting, submitting, taking and returning
each hand it on or close it. `Phases` adds that the pool is shut down only after
the last submission and that a worker leaves only an empty queue, so that
nothing is left when all have left. An accepted connection that no worker has is
in the queue or with the accepting thread, and a set of places in a queue is no
larger than the queue (`AsManyAsPlaces`).

Two more theorems of `ServerProofs` join the server to the pool. By
`ServerUsesPool` the pool inside `Server` is a `TaskPool`, as `ThreadPool` is by
`PoolKeepsPromise`. By `PoolUnhinderedAlways` the server's model holds it back
nowhere: every worker that `TaskPool` lets take a task or leave is at the place
where `Server` lets it, and a submit under way finds the pool open, so that the
answer "ERR overloaded" is never due. Neither is part of a run; TLC finds both
true on the instance of `server`.

`LabProofs` also proves `OneOwnerPerCellAlways` and `TakenAsPushedAlways`
for any number of threads and any capacity of at least two, with the stale loads
of `Weak`. Two positions of one cell are at least a round apart (`CellRound`).
The invariant says of each cell that its number is either a position still to be
filled, whose predecessor a consumer has claimed (`Free`), or one more than a
position that was claimed by a producer (`Full`). An old load is harmless because
sequence numbers only grow (`Claims`): a claim that succeeds at the present
counter leaves one value that the number can have (`PushFindsFree`,
`PopFindsFull`). With a capacity of one the two meanings of a number coincide
and the argument breaks down; `round_power_of_two` returns at least two.

The other theorems of `LabProofs`: `HexBytesCorrect`: what is returned is the
digits in pairs; the invariant adds the digit that waits for its partner.
`PartitionExact` and `ParallelSumCorrect`: if item_count times the number of
threads stays below 2^64, the ranges are adjacent, not empty and end at
item_count, so every item is added once whatever the order in which threads end;
the invariant says which partial sums are final and how far the total has come.
`SharesAddUp`, `PercentileRank` and `BenchCorrect`: the shares add up to the
requests, ranks stay inside the samples, and a report is about exactly what was
asked for. `Packet`, `HexBytes`, `ParallelSum` and `Bench` have no run of their
own.

Assumptions are those of the `ASSUME`s of the component modules: a capacity of
at least one (two for the ring), finitely many threads for the queue and the
pool, at least one worker, prices and quantities that are not zero (`submit`
refuses others), limits of keys and texts that are natural numbers, payloads
whose length fits a header (`encode_frame` throws otherwise), answers that are
payloads, and a "no value" that is not a value; and the hypotheses that the
theorems about the log, packets, sums and the benchmark state.

Only model-checked: all liveness (`CallsProgress`, `CloseReleases`,
`ShutdownReturns`, `AcceptedRuns`, `ShutdownReleasesSubmit`, `SubmitEnds`,
`RequestReturns`, `ProcessEnds` and `NeverWaits`: fairness and `ENABLED` are
outside the prover's reach). Every invariant, action property and refinement of
the passing runs is a theorem.

## Findings

Three places where a comment or a lesson says more than the code does: a
producer's exception swallows a wakeup; STATS reads its counters in the wrong
order; the directory of a new log is never synced. `PROJECT.json` quotes the
lines.

Three more are known and have no run. Recovery applies records that it does not
sync, so a GET after a restart may show a value, never acknowledged, that a power
loss then takes away. "Queue capacity bounds accepted-but-not-started work"
(`capstone/PROTOCOL.md:50`) leaves out the connection that the accepting thread
holds while it waits in `submit`: `BacklogBounded` has the bound with it. And
numbers that callers give to their orders are never compared: arrival decides
(`PriorityCorrect`), and "the lowest sequence number"
(`capstone/matching/solution-reference/README.md:22`) wins only where the engine
gives all the numbers.

## Not modelled

- The pipeline from producers through the ring to a book, and what `false` and
  `nullopt` of the ring still guarantee. The ring and the book are modelled
  apart; the programs of the repository use them apart too.
- Course pages and scripts: two tabs on one localStorage entry and two runs of
  `record-learning.sh` do lose an update, and nothing in the repository claims
  otherwise. They are listed as hazards without a property.
- Publishers to Redis and Kafka, CSV and mock data: formatting and library calls
  without state. Build scripts, and the stubs and deliberately faulty programs
  that learners work on.
- The benchmark of the matching engine, clocks, and everything that is printed.

In the models as they are: a submit from a task of the same pool (no code makes
one), wrong bytes inside a frame after a power loss, pages dropped by a failed
fsync, the map from symbols to books, and wrap-around of 64-bit counters.
`Server` does not run the pool step by step but in the steps of `TaskPool`, and
`Conversation` does not run the store: an executed request is an entry of a
history, and `DurableStore` says what becomes of it.
