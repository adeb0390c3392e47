# Verification of side-projects

The repository is a collection of small independent programs. This directory
models the ones with state, concurrency or failures worth checking, in TLA+,
model-checks them with TLC on small instances and proves the central safety
properties with TLAPS for all values of the constants. `PROJECT.json` lists
the components, the runs, the source lines each definition stands for, the
hazards and the theorems.

## Inventory

| Component | State | Operations | Hard because | What makes it correct |
|---|---|---|---|---|
| CronJob controller (`kubebuilder-tutorial/internal/controller`) | CronJob spec and status, its Jobs, informer caches, work queue and timer, Reconcile's locals | `Reconcile` (load, status update, clean-up, next schedule, deadline, replace, create), watches | caches lag, the clock is read several times, any call may fail, the manager may restart between calls, users edit and delete | a time is run at most once, never early; status is true and converges; due runs start; deletion leaves nothing |
| CronJob webhook (`internal/webhook/v1`) | none | defaulting, validation of name and schedule | limits must agree with what the controller builds | what is admitted can run |
| API types, manager wiring, generated code, e2e tests | configuration | – | – | – |
| SPSC queue (`algorithms-data-structures/rust/spsc-queue`) | ring buffer, two atomic indices | `push`, `pop` | release/acquire, stale loads, plain slots | FIFO, no race, everything delivered |
| Spin locks (`spin-lock`, `spin-lock-2`) | one atomic flag, a plain counter | `lock`, `unlock`, guard drop | mutual exclusion of non-atomic accesses | no increment lost, program ends |
| Tokio workers (`experiments/rust-tokio-shutdowns`) | stop signal or token, two flags, a task | `do_work`, stop, cancel, await | the signal may arrive at any await, or before the first poll | an awaited worker is idle and done |
| Order book (`codealongs/cpp_orderbook`) | price levels, queues, index by id | add, cancel, modify, match | three structures updated together, fills and kills in loops | index agrees with levels, uncrossed, priority, matching ends |
| Proglog store (`distributed-services-with-go/proglog/internal/log`) | file, `bufio.Writer`, size, mutex | append, read, close, reopen | partial writes, crashes, buffering | what was acknowledged reads back |
| Proglog server (`internal/server`) | records in memory, mutex | produce, consume | handlers run concurrently, responses get lost | dense offsets, reads find what was produced |
| HashiCups provider (`terraform-provider-hashicups`) | Terraform state, remote orders | create, read, update, delete, import, configure | a remote call succeeds and the next one fails | state follows the service |
| Particles and particle filter (`stoch-vola/model/lib`) | matrix of traces, row filled last, generator | six constructors, append, resample, transform, reduce; `particleFilter`, `logLikelihood` | a partly filled matrix is resampled again and again; densities under- and overflow | a column stays one particle's trace, the unlikely ones die, the call ends |
| Normal distributions (`lib/statistics`) | means, deviations, a mutable generator | construct, set, densities, sample | checks in some setters only; `const` members move the generator | samples depend on the seed alone |
| Numeric helpers (`util_funs.cpp`) | none | mean, standard deviation, quantile | indices at the ends, unsigned wrap, rounding | the summary fits the data as far as rounding lets it |
| Fenwick tree (`c++/fenwick_tree`) | array of partial sums | construct, update, sum | index arithmetic on the lowest bit | sums are the array's, loops end |
| Minimum stack and queue (`c++/minimum_stack_and_queue`) | monotone deque, stack of pairs | read, pop, push, print | what is popped is lost | the least is printed |

The components do not interact with each other, except within a program: the
webhook decides which CronJobs the controller sees (composed in
`CronJobController` through `Admitted`), the controller shares Jobs with the
Job controller, garbage collector and users through the API server, the
Proglog handlers share one log, and the particle filter is built on `Particles`
and the distributions (`ParticleFilter` extends their modules).

## Modules

| Module | Models |
|---|---|
| `CronJobWebhook` | the CronJob's spec, defaults, validation, what is admitted |
| `CronJobController` | Reconcile and everything around it |
| `MCCronJob` | schedules and CronJobs for TLC |
| `CronJobProofs` | proofs for the controller |
| `BoundedFifo` / `SpscQueue` / `SpscQueueProofs` | abstract queue, the ring buffer, proofs |
| `AtomicCounter` / `SpinLock` | abstract counter, the locks with their programs |
| `TokioWorkers` | both workers and the programs that stop them |
| `RustProgramsProofs` | proofs for the spin locks and the workers |
| `Orderbook` / `OrderbookProofs` | the order book, proofs |
| `ProglogStore` / `MCProglogStore` / `ProglogStoreProofs` | the store; payload lengths; proofs |
| `AtomicLog` / `ProglogServer` / `ProglogServerProofs` | abstract log, HTTP handlers and in-memory log, proofs |
| `NormalDistribution` | both distribution classes, as operators |
| `Particles` | the class `Particles`, as operators |
| `StochVolaClient` | any program that calls their public members |
| `ParticleFilter` | `particleFilter` and `logLikelihood` |
| `UtilFuns` | mean, standard deviation and quantile |
| `FenwickTree` | the Fenwick tree |
| `MinStackQueue` | the two minimum programs |
| `CppProgramsProofs` | proofs for the minimum programs, the particle filter and the classes under it, the numeric helpers and the Fenwick tree |
| `DataLemmas` | what folds, sums and sorted sequences are, for every finite input |
| `MCCppPrograms` | the sequential C++ programs side by side for TLC |

Definitions whose comment begins with "Mutant of" are deliberately wrong
variants of the definition after them. No specification uses them; they are
put in its place to see that a property notices.

### CronJobController

One CronJob. A Job is known by its scheduled time, from which the code derives
its name, so `jobs` is a function of fire times. `cron` and `jobs` are the
server's objects, `cronCache` and `jobCache` the informers' copies, which
`SyncCron` and `SyncJob` bring up to date one object at a time, at any time.
`cacheFresh` and `loc.fresh` stand for equal resource versions. `queued` and
`timer` are the work queue; `outcome`, `runs`, `edits` and `faults` are history
and bounds.

Reconcile is split where another actor can come in between, that is at each
API call and at each reading of the clock:

| Action | Code |
|---|---|
| `Load` | get, list, sort Jobs by result, status in memory |
| `UpdateStatus` | `r.Status().Update`, refused for a stale copy |
| `CleanUp` | one `r.Delete` of an old Job; errors are skipped |
| `GetNextSchedule` | suspend check, `getNextSchedule(r.Now())` |
| `ComputeRequeue` | `nextRun.Sub(r.Now())`, return if nothing was missed |
| `CheckDeadline` | `tooLate` with another `r.Now()` |
| `DeleteActive` | one `r.Delete` under Replace; an error ends the call |
| `CreateJob` | construct and create the Job |

External parts are modelled from how the code uses them. controller-runtime:
a worker runs one Reconcile per key at a time, an error requeues with
back-off, a positive `RequeueAfter` arms a timer, any other result does
neither. API server: optimistic concurrency, unique names, label lengths. Job
controller: starts and finishes Jobs. Garbage collector: deletes owned Jobs of
a deleted owner. `sort.Slice` is not stable: `Sorted` is the set of all results
it may give. `sched.Next` is a set of fire times per schedule, empty for a
schedule that never fires; the zero time is `Nil`.

Abstractions: time is in units of the finest schedule; a deadline of d is in
the same units; the job template is opaque; a status reference stands for
itself (`GetReference` cannot fail for a registered type); `Get` and `List`
failures are one fault. The limit of 100 missed starts is the constant
`MaxStarts`.

### SpscQueue

`wStores` and `rStores` are the modification orders of the two atomics. An
acquire load may return any value not older than what the thread has seen, so
stale loads are part of the model, and the position read is what the thread
synchronises with. `RaceFree` says that slot accesses are ordered; it is what
makes the interleaved slots a sound model. The refinement to `BoundedFifo`
maps the queue to the slots between the two stores.

### SpinLock

A read-modify-write sees the last value of the flag, so the lock needs no
stale loads. `*ptr += 1` is two steps. `Guarded` adds the lock main takes in
spin-lock-2. The refinement counts an increment when it is written.

### TokioWorkers

Every store of `do_work` is a step. `select!` takes either branch that is
ready. `Cycles` = 1 is `main.rs`; more is the benchmark, which uses one worker
again and again without taking the signal back. `started` is history.

### Orderbook

`book` holds both sides and the index; a level is a queue of ids. Public calls
start when no call runs; each turn of the inner loop of `MatchOrders` is a
step, so properties also hold in between where they are meant to. References
used after `pop_front` and `erase` are undefined behaviour; on libstdc++ with
glibc the values read there are still in place, because a freed chunk is
overwritten in its first 16 bytes only, which hold links and counts. They are
modelled as the old values, and the hazard is listed: one thing that would
change them is an allocation in between, so `room` counts what
`trades.reserve` has left and `TradesAreFills` asks for it. `MatchOrder` reads
the type of the order it has just cancelled in the same way. `Fill`'s exception
is the state "thrown". `LevelInfos` is `GetOrderInfos`, which changes nothing;
its sums are added in `QuantityBits` bits (32), as `std::accumulate` does with
an initial `Quantity`, and its levels are in the order of the maps (`Ahead`):
the i-th is the one with i - 1 levels ahead of it. The iterator an index entry holds is where the id is in
its queue (`Position`).

### ProglogStore

Bytes are cells that say which byte of what they are. `BufWrite` and `Flush`
are `bufio.Writer`'s: fill up, flush, write directly what is longer than the
buffer, and fail for ever after an error. A write to the file may fail after
any number of bytes. `Restart` is a crash and `newStore` on the file opened for
append. `newStore` takes a file that is open already and does not ensure this;
it is an assumption about its callers, which the test helper `openFile` meets.
The first test passes a `TempFile` without `O_APPEND`: there the second store has
the same descriptor, whose offset is at the end. `acked` is history: what `Append`
returned, less what a crash lost because it was only buffered. Two stores open
on one file at the same time are not modelled.

### ProglogServer

Each client has one request in flight. `Append` is two steps under the mutex.
`produced` and `consumed` are what the clients were told. `AtomicLog` is what
they may rely on: a request takes effect at one instant, and its answer is that
of this instant. The refinement maps a call to what its client has asked or been
answered (`Asked`). An append takes effect when the record is in the log, a step
after its offset was chosen; a lost response leaves the log as it is.

### NormalDistribution, Particles, StochVolaClient

The classes have no variables of their own: a member is an operator from the
object to what it returns, and `Returned`, `InvalidArgument` and `OutOfRange`
tell a result from a throw and from an access outside a container, after which
the program is not followed. `StochVolaClient` holds one object and calls any
member of it, or makes another one, up to `MaxCalls` times.

A number in a matrix is the sequence of what it was computed from, so that two
numbers are equal if and only if they have the same history; zero is the empty
sequence. So the function of `applyTransformation` is taken as injective, though
the code accepts any: one that maps different numbers to the same would make
columns agree that have nothing to do with each other. A random number is the seed and its place after the seed. A
standard deviation is an integer, of which the sign matters. Of a density only
the kind of double is kept. The vector constructor of `Particles` compares the
number of vectors with the length of the traces and then reads every vector to
that length; what is behind its end is `Garbage`. `generator_` of `Particles`
is seeded before each use and cannot be seen from outside, so it is left out.
The generator of `NormalDistribution` is kept, because that it cannot be seen
is what `SamplesReproducible` says.

### ParticleFilter

One call of either function, from its arguments to what it returns or throws.
A turn of the loop is `Propagate` (latest row, noise, deviations, densities,
append) and `Resample`. Which deviations underflow and which kind each density
is are chosen freely, for every particle and time; the formula
mu + phi * (x - mu) + noise appears as the history of its result, so a
resampling that mixes histories would be seen. `std::discrete_distribution`
returns any column of positive weight. If the weights are not numbers it
promises nothing; libstdc++'s search then ends at column 0 always, which is
what the model does. A sum of finite logarithms is taken to be finite. At
least one particle is asked for: for none, `minCoeff` of an empty vector ends
the program. `UintBits` is the width of the product `T * nParticles`, whose
wrap to 0 makes the result infinite.

### UtilFuns, FenwickTree, MinStackQueue

In `UtilFuns` a double is a multiple of some unit, and `Doubles` is any set of
them that has 0 and the sizes of the vectors. Each `+`, `-`, `*` and `/` of the
code, in its order, is followed by `Round`, which takes a nearest double; which
of two equally near ones is left open, so no rule for ties is assumed. A
standard deviation is represented by the argument of `std::sqrt`. Overflow,
infinities and numbers that are none among the data, and fused multiply-adds,
are left out. `SizeBits` is the width of `size_t`, in which `size() - ddof`
wraps. `std::sort` puts at place k the number that k - 1 others
come before (`Earlier`). In `FenwickTree` each turn of a loop is a step, and
further updates and sums than main's follow; the sums are too small to
overflow an `int`. `index & (-index)`, the lowest bit that is set, is the least
number of which the index is an odd multiple (`LowBit`). In `MinStackQueue` a line is a sequence of numbers and a
`Word` that is none, at which extraction stops. On a line without numbers
`front()` and `top()` are undefined: the deque's first slot was never written,
and the stack's top would be in a block that was never allocated.

## Runs

| Run | Checks | Bounds |
|---|---|---|
| `cronjob_safety` | `StatusTruthful`, `NoDoubleRun`, `CleanUpKeepsHistory` | 3 fire times, history limit 1, 1 fault or restart, start times distinct |
| `cronjob_policies` | `TypeOK`, `AdmittedCanRun`, `JobsOnSchedule`, `ReplaceExclusive` | all kinds of CronJobs, 2 times, 2 creation times, 1 edit, 1 fault or restart |
| `cronjob_users` | `StatusConverges`, `DeletedCronLeavesNoJobs` | 2 times, 1 deletion of a Job or of the CronJob or 1 garbled annotation, no resync |
| `cronjob_liveness` | `DueRunStarts` | no webhook, 2 times, a limit of 1 missed start, 1 edit, 1 fault or restart; Replace, suspended, schedules that never fire or do not parse |
| `spsc_queue` | `RaceFree`, `ImplementsFifo`, `AllDelivered` | 4 slots, 10 items: the indices wrap three times |
| `spin_lock` | `MutualExclusion`, `ImplementsCounter`, `Terminates` | 3 threads, 2 rounds, with the guard (spin-lock-2), whose steps include spin-lock's |
| `tokio_workers` | `GracefulStop`, `TokenWorkIsDone`, `ProgramEnds` | both workers, 6 rounds |
| `orderbook` | `IndexAgrees`, `BookAtRest`, `TradesAreFills`, `PriceTimePriority`, `MatchingEnds` | 4 orders, 2 prices, quantities 0–2; no bound on the calls |
| `proglog_store` | `ReadBack`, `SizeIsEnd`, `CloseKeepsAll`, `CallsReturn` | 2 goroutines, 4 appends of 0, 1 and 5 bytes, buffer of 4, 1 failed write, 2 crashes |
| `proglog_server` | `ConsumeFinds`, `ImplementsLog`, `Answered` | 2 clients, 4 requests |
| `cpp_programs` | `TracesWhole`, `SurvivorsLikely`, `FilterReturns` | 1–3 particles, 0–3 observations, every pattern of densities |
| | `OnePast`, `SamplesReproducible` | 5 calls, vectors of length 1–3 |
| | `SummariesSound` | doubles of 3 significant bits, up to 4 numbers of 3 values, quartiles, `ddof` -1 to 5 |
| | `SumsAnswered` | arrays of 1–6 elements of 2 values, 1 update |
| | `LeastPrinted` | lines of up to 4 words |

Why the bounds are enough for the cases that matter: three fire times give one
Job to keep, one to delete and one to create; a two-byte length and a
four-byte buffer make records that fit, that fill up the buffer and that go
round it; four orders let one order sweep two levels with a queue behind it;
one fault at any step includes a restart at any step; two times are the least
at which a trace can be parted from its past, three at which that can happen
before the last row; six elements have tree nodes for one, two and four. With
two times and a limit of 1 missed start both sides of the limit occur in
`cronjob_liveness`, and under Replace there is a first Job to delete before the
second one is created. With three significant bits 6 + 6 + 6 is not exact, so
there are vectors whose sums are rounded and vectors whose sums are not.
`cpp_programs` checks programs that have nothing to do with each other: a
behaviour runs one of them, so their states add up. `NoDoubleRun` is checked
where the code can be expected to keep it: with a history limit of at least 1,
distinct start times and nobody deleting Jobs or their annotations. Without these a finished Job
that carries the last time may disappear, and its time is run again. It is not
checked where the schedule is edited under Replace, because there it fails: the
deletions succeed and the creation does not, and if the schedule is then changed
to one that does not fire at the newer time, the older is run again.

`DueRunStarts` makes one exception, which is in the code: more starts than
`MaxStarts` (100) are missed. Reconcile then returns nil without a requeue, and
every later call does the same, since what it counts from does not move, until
an edit of the schedule or a Job with a later time changes the count. A starting
deadline, which bounds that count and gives times up on purpose, is not part of
this run.

One run is expected to fail. It states what the repository says and shows what
the code does instead: in `tokio_assert`, the assert in `main.rs` after
`AtomicWorker` fails if the task is first polled after the stop signal.

More that the modelling brought up, without a run of its own:

* The policy `Forbid` exists, but Reconcile only looks for Replace and starts
  a Job beside a running one.
* If the next time comes between two readings of the clock, `RequeueAfter` is
  not positive, no timer is armed, and only a later event or resync wakes the
  controller.
* With history limit 0 the Job that records the last scheduled time is deleted
  at once, so times that were run count as missed, until "Too many missed
  start times" stops the scheduling.
* `loopSeed` of the particle filter is commented as "unique seed for each loop
  iteration" and never advanced: a column draws the same noise at every time.
* More than 100 missed starts stop a CronJob until it is edited, without an
  error that the work queue would retry.
* `getParticlesWithoutInit` and the constructor from a matrix make objects whose
  `currentRow_` is 0, so `getLatestParticles` of them is the first row and an
  append overwrites the second. `OnePast` holds of them as of all objects, for
  the rows up to `currentRow_`.
* The summaries are as exact as doubles are: the mean of {0.1, 0.1, 0.1} is
  above 0.1 and its standard deviation is not 0. In the instance of
  `cpp_programs` the mean of {6, 6, 6} is 5, below all the data, and the square
  of its deviation 1.
* `setStdDev` and `setMeans` do not make the checks that the constructors make.
* Where all densities are 0, `particleFilter` keeps its particles, and
  `logLikelihood`, which lacks that check, makes them all copies of the first.

Deadlock is checked except where a system may come to rest: a deleted CronJob,
runs without resyncs, Proglog clients that have used up their calls, and
sequential programs that have ended.

## Fairness

* CronJob: weak fairness of Reconcile's steps, of the watches, timer, resync,
  clock, Job starts and garbage collection, all of which Kubernetes provides.
  Nothing is assumed of users, faults, restarts or of Jobs finishing. Resyncs
  are off in `cronjob_users`, so watches alone suffice; they are on in
  `cronjob_liveness`, and needed there (see the timer above).
* SPSC queue: each thread runs, and a store becomes visible after finitely
  many loads, as the memory model asks of implementations.
* Spin lock: each thread runs. No thread is promised the lock; the program
  still ends because every thread has finitely many rounds.
* Tokio: tasks are polled. Strong fairness of the cancelled branch: `select!`
  chooses at random among ready branches, so it does not choose the sleep for
  ever.
* Order book, particle filter, Fenwick tree: a call that has begun runs on;
  nobody has to call. Proglog store: who holds the mutex runs. Proglog server: handlers run, and `sync.Mutex` hands over to
  waiters that have waited long (its starvation mode), hence strong fairness
  of taking it.

## Proofs

All proofs are for the specification without fairness and any value of the
constants that satisfies the named assumption of the module. Hardly any of the
invariants that the runs check is inductive, so each proof has a stronger
invariant of its own.

### CronJobProofs

Assumptions: `WebhookAssumption` and `ControllerAssumption`, chiefly that fire
times are naturals.

* `TypeCorrect`, `JobsAreOnSchedule`, `StatusIsTruthful`, for every user action
  and fault. The invariant `Inv` is `TypeOK`, that every Job, on the server and
  in the cache, is due, later than the creation, counted in `runs` and stamped
  with its own time unless someone garbled the stamp (`JobsOK`), and that what
  Reconcile holds in its locals was once true of the cache (`LocOK`). The last
  part is needed because the status is written, and the Job created, from
  locals that may be out of date: what keeps them right is that each fact in
  them is stable, not that it is current.
* `AdmittedCronJobsCanRun`: the copies in the cache and in the locals have
  passed the webhook too (`AdmittedInv`).
* `ReplaceIsExclusive`: from the status update on, a published active Job is
  on the list still to be deleted or is gone and stays gone (`ReplacedGone`).
* `RunsAtMostOnce` and `RunsAtMostOnceOnOneSchedule` (`NoDoubleRun`). Both
  assume `Calm`: users only edit the CronJob, no history limit is 0, and start
  times order the Jobs as their scheduled times do. In addition the first
  assumes that the policy is not Replace (`Undisturbed`), the second that edits
  leave the schedule alone (`OneSchedule`). All else, deadlines, suspension,
  faults, restarts and the age of the caches, is arbitrary.
  For the first, `OnceInv` says that a time whose Job is gone is followed by a
  later Job that is on the server *and* in the cache (`Followed`), and that the
  list in Reconcile's hand has seen a later one (`Passed`). A follower may be
  deleted itself, but only when it is followed, so the chain never breaks.
  Under Replace it may break; for the second theorem, `LatestInv` says instead
  that a later time of the schedule was due before a Job went (`Superseded`),
  which stays true, and that the run in hand is later than all that is gone:
  what `getNextSchedule` finds missed is the latest time due
  (`LastMissedLatest`).
  The conditions are needed. A limit of 0, or a user who deletes a Job or its
  annotation, takes away the last Job that tells of a time. Equal start times
  may make clean-up delete the latest Job. Under Replace the deletions may
  succeed and the creation fail; if the schedule is then changed to one without
  the newer time, the older is run again.
* `CleanUpKeepsLatest` (`CleanUpKeepsHistory`), under `Undisturbed` and
  `SameLimits` (edits leave the history limits alone): a list read from an old
  cache may count Jobs that are gone by now. `HistoryInv` says that each of
  those left as many later ones behind as the limit says, with the same result
  and known to the cache, so that the count is met either by the Jobs counted
  or by those that followed a missing one. With a limit that is raised in
  between this is not so.

### SpscQueueProofs, RustProgramsProofs

* `SpscQueueProofs`: `TypeCorrect`, `DeliveryInOrder`, `NoDataRace` and
  `Refinement` (to `BoundedFifo`). The k-th store to either index is k - 1
  modulo the capacity, stated as a successor relation so that no division is
  needed; the slots between the two stores hold the items in order; what a
  thread has seen is a lower bound of what the other has done, so a stale
  index errs on the safe side.
* Spin locks: `TypeCorrect`, `Exclusion`, `Refinement` (to
  `AtomicCounter`). Who is inside holds the lock, and what it has read is the
  counter.
* Tokio workers: `TokioTypeCorrect`, `StopIsGraceful`, `TokenAssertHolds`.
  The flags are tied to the task's place, and a task exists only while the
  program is between spawn and await.

### OrderbookProofs

For any set of ids, any quantities of the given width and prices that are
32-bit integers (`OrderbookAssumption`; being bounded they have a best one).
`BookInv`: the index and the levels agree (`Agree`), the book between calls is
uncrossed and holds GoodTillCancel orders only (`AtRest`), and during a call
a FillAndKill order has a better price than all others of its side (`Lone`:
it was only let in because it crosses a book that was uncrossed). That is why
looking at the front of the best level after the loops is enough, which is what
one would doubt in the code. The other part is that the trades still possible, one per order, fit the
space that is left. From it follow `BookIndexAgrees`, `BookRests` (the book is
uncrossed, holds no FillAndKill order, and `Fill` never throws),
`FillsAreTraded` and `PriorityKept`; the last also needs that a removal keeps
the order of a queue (`InOrder`) and an addition goes to its end.

`BookIsAtRest` (`BookAtRest`) is about what `GetOrderInfos` shows. Each level is
at the place that the number of levels ahead of it says (`Ranks`, `RankedOnce`),
so the first is the best one. The orders of a side are divided among its levels
by `Agree`, so the sums of the levels add up to the sum of the orders
(`SumsGrouped`), and adding modulo 2^32 at every step is the same as once at the
end (`SumsModulo`). That `2 ^ QuantityBits` is positive is part of
`OrderbookAssumption`, because the provers know nothing of powers; TLC evaluates
it.

### ProglogStoreProofs, ProglogServerProofs

* `RecordsReadBack`, `StoreSizeIsEnd`, `StoreCloseKeepsAll`, for any lengths of
  records and buffer, clients, failed writes and crashes. `StoreAssumption`
  has one empty payload, as there is one empty byte slice. `StoreInv`: who is
  in a call has the mutex (`OneCall`); file and buffer together are what has
  been written, with `size` at the end (`EndOfWritten`); every acknowledged
  record is there from its position on (`RecordsKept`). Bytes are only ever
  appended, whichever way `bufio.Writer` takes, so what is there stays.
* `OffsetsAreDense`, `ConsumeFindsProduced`, for any clients and requests: what
  a handler or a client knows of the log is in the log (`RequestsOK`,
  `ProducedHeld`), and the log only grows.
* `LogIsAtomic` (`ImplementsLog`): every step of a client or handler is a step
  of `AtomicLog` or changes nothing of it. It rests on the same invariant: the
  offset a handler has taken is still the length when it appends, because it has
  held the mutex since (`RequestOK`), and the record at an offset carries it
  (`OffsetsDense`), which is why a read answers with the offset it was asked for.

### CppProgramsProofs

* `FilterTracesWhole`, `FilterSurvivorsLikely`, `FilterRowsSuffice`: for any
  number of particles and observations and any pattern of densities. The rows
  filled so far are tied to the place in the loop, and column j of a whole
  matrix extends its own past row by row; resampling copies columns, so it
  keeps this.
* `ParticlesHaveOnePast`, `NormalSamplesReproducible`, for `ClientSpec`: any
  sequence of calls, sizes and seeds, and objects of every constructor.
  `ClientInv` is what each constructor establishes of its object and each member
  keeps: the shape of the matrix, and that columns which agree in a row up to
  `currentRow_` agree in all rows before. The constructor from a matrix counts
  one row as filled and the one from traces all, among which there may be more
  than the matrix has.
* `MinimumIsLeast`, for `MinSpec` and any set of lines (`MinAssumption`). The
  deque is sorted, holds numbers of the line, and its front is not above any
  number read; while the inner loop pops, the number just read may stand in
  for the front, so what is popped is not missed. The stack's top carries the
  least of all numbers read.

* `SummariesAreSound` (`SummariesSound`), for `UtilSpec`, any set of doubles and
  vectors of any length (`UtilAssumption`). The one fact about rounding is that it
  does not pass a double (`RoundWithin`). The sorted vector is a rearrangement of
  the data in order (`Sorted`), so that the numbers up to an index are not above
  and the rest not below what is interpolated there; with exact weights that is
  between the two neighbours, which are doubles, and stays there when the sum is
  rounded (`InterpolatedBetween`). Exact sums of n numbers are at least n times
  the least and at most n times the greatest (`ExactBounds`), so their quotient
  does not leave the data. A squared deviation and the sum of several are not
  negative, rounded or not, because 0 is a double (`SumOfNaturals`). What the loop
  computes is had from its recursive function by `NatInductionInSet`
  (`RunningSumsAre`). The conditions on exactness are needed, see the examples
  above.
* `FenwickSumsReturned`: for `FenwickSpec`, arrays of any length and any updates,
  what `get_sum` returns is the sum of the elements up to its index.
  `FenwickLoopsAdvance`: the index of `get_sum` goes down at every turn, and that
  of `update_tree` up, while it is within the array. Node k covers the
  `LowBit(k)` elements up to k. `FenwickInv` says that a node is the sum of what
  it covers, except that during `update_tree` the nodes from `index` on which
  cover the updated element lack `val`; and that in `get_sum`, `sum` and the
  prefix in front of `index` make up the answer. The index arithmetic is three
  lemmas: the next node covers at least twice as much (`LowBitUp`), those between
  cover nothing in front of it (`LowBitBetween`), and a prefix is what its last
  node covers and the prefix before (`PrefixSplit`). They come from the lowest
  bit being a power of two (`LowBitPure`), and the smaller of two such dividing
  the larger (`PureDivides`).

### DataLemmas

What the folds of the community modules compute cannot be had from the library's
induction theorems, which take a predicate as a parameter that the provers do
not instantiate. Induction here is over a set instead: the set of all inputs for
which a claim holds. `LeastElement` gives the least natural number outside such a
set, and `SubsetInduction` concludes that there is none. From it come that a
recursive function over the subsets of a finite set exists (`FoldExists`), what
it is when any element, not only the chosen one, is taken out (`SumsTakeOutAny`),
and the sums of disjoint sets, images and groups. No axiom is added.

### Only model-checked

* Liveness, which is outside the prover's reach: `DueRunStarts`,
  `StatusConverges`, `DeletedCronLeavesNoJobs`, `AllDelivered`, `Terminates`,
  `ProgramEnds`, `MatchingEnds`, `CallsReturn`, `Answered`, `FilterReturns`,
  `SumsAnswered` (of which it is proved that the sum is right and the loops
  advance). Every invariant that a run checks, and every action property and
  refinement, is also a theorem, `NoDoubleRun` and `CleanUpKeepsHistory` under
  the conditions named above.

## Not modelled

Manager flags, TLS, metrics and health endpoints, generated code, YAML and
e2e tests; EigenRand (vendored); Proglog's index (a struct without operations);
the HashiCups provider, whose handlers stand between the Terraform framework
and the HashiCups client, neither in the repository, so that what a call that
fails half-way leaves behind is decided elsewhere; `compute_tax` and the values
of densities in floating point. Within the CronJob: a
CronJob deleted and created again under the same name, whose index by owner
name finds the old one's Jobs, overflow of deadlines of centuries, role-based
access.

## Plan

Done: the CronJob, the Rust programs, the order book, Proglog and the C++
programs as above, with proofs of all their safety properties. Left for whoever
continues: a second incarnation of the CronJob, and an abstract log that the
Proglog store implements as the server does `AtomicLog`.
