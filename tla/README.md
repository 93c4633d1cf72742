# seamless-core in TLA+

A verification project for seamless-core, the Python package under
`src/seamless`: TLA+ modules of its components, TLC runs on small instances, and
TLAPS proofs for any instance. Line numbers are those of `src/`.

`BC` is `src/seamless/caching/buffer_cache.py`, `BW` is
`src/seamless/caching/buffer_writer.py`.

## 1. The system

seamless-core gives every value a checksum (SHA-256 of its serialized buffer)
and works on checksums: cells and expressions name them, a central cache keeps
the buffers that are in use, a background thread writes buffers to remote
storage, and expressions are evaluated once for everybody who waits for them.

| Component | State | Operations |
|---|---|---|
| buffer cache (`caching/buffer_cache.py`) | strong entries (buffer, manual references, refholder bridge, tempref, `remote_registered`), weak cache, sizes, scratch marks, refholder counts | register, get, incref/decref, the refholder pair, tempref and its decay, transfer_write, mark/purge scratch, eviction, forced clean-up |
| buffer writer (`caching/buffer_writer.py`) | entries by key with a future and a queued flag, one worker thread with its event loop and queue | register a buffer or metadata, await a write, purge, flush, start and stop of the worker |
| expression engine (`checksum/expression.py`) | active and lingering evaluations by key, each with members, waiters, a result, a task on some loop, claims | join, leave, linger, cancel, local / placed / remote execution, redispatch |
| expressions (`expression_class.py`) | input and result checksums, the claim on the result | run, compute, softcancel, hold/release, finalizer |
| cells (`cell_class.py`) | input (checksum or Cell), types, path, result with the key of its recipe, the claims on both | set, retype, derive, copy, write through a projection, read, compute, compute_async, release |
| celljoin (`checksum/celljoin.py`, `celljoin_class.py`) | like expressions, over several inputs | local and placed evaluation |
| eviction cost (`caching/eviction_cost.py`) | lengths, terms, direct and dependency interest, dependencies both ways, cached costs | add/remove interest, register dependencies, lengths and terms, mark dirty, compute |
| reference lifecycle (`reference_lifecycle.py`) | registry of refholders, shutdown flags | register, release, audit |
| shutdown (`shutdown.py`) | hooks, deadlines | close: hooks, audit, flush, release, force-clear |
| checksums (`checksum_class.py`) | – | resolve, fingertip (recover by recorded expressions, celljoins and transformations) |
| buffers (`buffer_class.py`) | content, checksum | register in the cache, write |
| buffer sources (`caching/buffer_source.py`) | sources by owner, shared lookups with their waiters | replace, unregister, look up |
| hash types (`checksum/hash_type*.py`) | one word per checksum, here and in the database | classify, state, ask, upload, answer |
| conversions, serialization (`checksum/convert.py`, `conversion.py`, `parse_buffer.py`, ...) | tables | convert a checksum, from what is known or from the buffer; parse, serialize |
| LRU (`util/pylru.py`) | doubly linked list and table | get, set, evict |

Interactions. A cache method that finds a buffer to publish calls
`buffer_writer.register` after it has released its lock. The cache tells the cost module when
a checksum gets and loses its strong entry. Cells, expressions and
celljoins hold refholder claims on the cache; finalizers release them from any
allocation in any thread. Evaluations claim their inputs while they are
unfinished. Metadata about conversions and expressions goes through the writer
too. Shutdown flushes the writer, releases claims and force-clears the cache.

What is hard here: several threads and event loops share the cache, the writer
and the evaluation registry, and locks are held for short blocks, so checked
values are stale a line later; buffers and claims arrive in any order;
callbacks cross from threads into loops (`call_soon_threadsafe`) and may land
on a loop that is ending; waiters join and leave an evaluation that others
share; reference counts are split over tables that several paths must keep in
step; everything must come to an end at shutdown.

Correctness, per component. *Cache*: references are neither lost nor invented,
what is claimed stays, what was asked to be published is published and nothing else,
eviction relieves pressure. *Writer*: what was registered is written or its
failure stays visible (but for the window of section 4), entries are queued once, one worker, everybody who waits comes
back. *Engine*: one evaluation per key, only those who left are cancelled, every
waiter is answered, claims are released exactly once. *Cost*: cached costs equal
computed ones, counts mirror the dependencies. *Sources*: one lookup for all who
want it, and nobody's departure disturbs the others. *Fingertip*: it ends, finds what can be derived, and
reports the worst failure it met. *Holders and shutdown*: every claim has an
owner, a result belongs to its recipe, and the releases of close leave no claim. *Hash types and
conversions*: true words never conflict and are shared, and knowing a type never
changes what a conversion gives. `PROJECT.json` lists every component and, as `hazards`, each place
where the code could break one of these.

## 2. The modules

| Module | Role |
|---|---|
| `BufferCache`, `MCBufferCache`, `BufferCacheProofs` | the cache and its surroundings (writer hand-off, program, garbage collector), its instances for TLC, its theorems |
| `BufferWriter`, `MCBufferWriter`, `BufferWriterProofs` | the writer: calling threads, worker threads, loops |
| `ActiveExpression`, `MCActiveExpression`, `ActiveExpressionProofs` | shared evaluations: callers, tasks, loops, lingers |
| `EvictionCost`, `MCEvictionCost`, `EvictionCostProofs` | the cost module: interest, dependencies, cached costs |
| `SharedFetch` | abstract: what a shared lookup promises |
| `BufferSource`, `MCBufferSource`, `BufferSourceProofs` | the sources and their shared lookups; implements `SharedFetch` |
| `Fingertip`, `MCFingertip`, `FingertipProofs` | recovery of a buffer by recorded recipes |
| `RefHolders` | Cells and Expressions as holders of claims |
| `Shutdown`, `MCShutdown`, `ShutdownProofs` | `RefHolders` composed with `close` |
| `HashTypes` | words about buffers: cache, database, uploads, answers |
| `Conversions`, `MCConversions`, `HashTypesProofs` | `HashTypes` composed with the conversions, parsers and validation that use them; the theorems about both |

Operators named `Faulty...` are not part of the model. Each is the operator
that follows it with a plausible bug (a dropped guard, a missing reset), kept to
show that the properties notice it; `PROJECT.json` pairs them under `mutants`.

### 2.1 BufferCache

Each public method of `BufferCache` runs under `self.lock` and is one action.
The locked body of `_ensure_entry_locked` (BC 175-219) is split into what it
stores (`EnsuredEntry`) and what it wants written (`WriteBuffer`);
`StoreOrDemote` is `_can_demote_locked` and `_demote_locked`. The write happens after
the lock is released: the buffer sits in `handoff[t]` until thread `t` takes
`HandOff`, and other threads call the cache in between.

| TLA+ | Code |
|---|---|
| `strong_cache`, `weak_cache`, `scratch_refs`, `refholder_counts` | the attributes of that name |
| `sizes` | the keys of `_sizes` (the length itself depends on the content) |
| `interest` | the direct interest that `eviction_cost.add_interest` and `remove_interest` count |
| `live` | Buffer objects held by the program; an object held by nobody leaves the `WeakValueDictionary` (`Collect`) |
| `Tempref`, `Fade`, `RefreshTempref`, `ClearTempref` | `TempRef`: interest decays with time, so any live tempref may fade at any moment |
| `RunEvictionOnce` | `run_eviction_once`; scores are products of costs and decayed interest, so the candidates leave in any order, one by one until the rest fits; those of infinite cost have an infinite score and are passed over |

`asked`, `transferred`, `skipped` and `claims` are history variables: what was requested and what
callers still owe.

### 2.2 BufferWriter

Threads run `register` (for buffers and metadata), `await_existing_task`,
`purge` and `flush`. Each holds `_lock` for short blocks, so `call[t]` says
where a thread is between two blocks: `_enqueue_entry` is `EnsureWorker`,
`StartWorker`, `ReadLoop`, `Submit`; `_stop_worker` is `ReadWorker`,
`RequestStop`, `Join`, `ResetQueued`. A worker thread is created, starts, publishes its
loop, runs callbacks from `inbox[w]`, takes items from `queue[w]`, processes
entries in tasks, drains after the stop item, closes its loop and withdraws.
Entries and workers are objects: an entry or worker that nothing refers to any
more stands for the next new one (`UnusedEntry`, `UnusedWorker`).

A write of the remote client takes any time and is written, refused or raises;
the four attempts for metadata are one outcome. `_process_entry` ends in two
steps: `SettleTask` sets the future without the lock (BW 439-444), and
`DropEntry` takes the lock and removes the entry (BW 445-449); `popping` counts the
tasks in between. Likewise `flush` (BW 260-267): `PutBuffer` looks, `Settle` sets
the result, `PopEntry` removes. If the other side settles the future between the look and
`set_result`, that raises: in `flush` it ends the call, in a task it ends the
task (`raises`). `owed` remembers what was registered and was neither refused,
given up (metadata only) nor purged; `stored` what arrived; `overlooked` the keys
whose last registration found an entry that a task had settled and was about to
remove. A write that is owed, has not arrived and was not overlooked is `Due`.

### 2.3 ActiveExpression

`EX` is `src/seamless/checksum/expression.py`. A caller is a coroutine on the
loop `LoopOf[c]` or a thread without one, in one call at a time:
`evaluate_expression_local` (`sync`), the local and the remote end of
`evaluate_expression_placed`, or `wait_for_active_key` (`peek`). Each block
under `_active_expression_lock` is an action, and so is each step of a task or
callback between two awaits; a loop runs one of them at a time (`LoopFree`), and
a synchronous call in its thread blocks it.

| TLA+ | Code |
|---|---|
| `active`, `lingering` | `_active_expressions`, `_lingering_expressions` |
| `evaluation[e]` | the fields of `_ActiveExpression`, its task and the loop of that task, and its timers |
| `Begin` | the look at `_expression_cache` before the join; awaits lie between the two |
| `Join`, `Create` | the lock blocks at EX 187, 311 and 628 with `_join_expression` |
| `Start`, `Finish`, `Cancelled`, `Withdraw`, `Discard` | the task (`execute`, `_execute_active_remote`) and `_discard_active_expression` |
| `Resume`, `WaiterCancelled`, `CancelCaller`, `Leave` | the wait on the shielded waiter and its `finally` |
| `Softcancel`, `Schedule`, `Arm`, `Expire` | `softcancel_expression` with `schedule` (which arms its timer without the lock, hence two steps) and `expire` |
| `EvaluateAlone` | evaluation or dispatch without joining, after an answer without the bytes |
| `SyncPublish`, `SyncWithdraw` | a synchronous caller that computes the shared result itself |
| `Return`, `CloseLoop` | the end of `asyncio.run`, which cancels what is left on its loop |

`results[k]` says whether the checksum of the result is recorded and whether its
bytes are in this process or on the hashserver. Buffers are not evicted or
deleted meanwhile. `left` is a history variable: the callers that were asked to
leave. `_expression_cache` also stands for the database, which is asked between
the same two steps. `Dropped` clears what a finished evaluation has left of
members, callbacks and timers: joining and leaving test `result_future.done()`,
and a timer tests that the evaluation lingers, so none of it is read again. A
waiter that is delivered and one that is cancelled race (`Resume` next to
`WaiterCancelled`), because the result is set outside the lock.

### 2.4 EvictionCost

`EC` is `src/seamless/caching/eviction_cost.py`. A call that holds
`CostModule._lock` throughout is one action. Three are not: `NotifyLength` and
`MarkMeasured` are `register_buffer_length`, which stores the length and marks
without the lock; `SetTerms` and `MarkDirty` are the setters, which change a term
first; `GetCost`, `ComputeCost` and `StoreCost` are `get_cost`. `LockFree` says
which of them exclude each other, and `CacheLockFree` which are only called
under the lock of the buffer cache. `Released` and `Detached` are the mutual recursion of
`_maybe_release` and `_detach_dependencies` (EC 194-251), which may walk a cycle:
what it releases is the least set that closes under "nobody is interested in it
any more", whatever the order.
Costs are small integers or `Inf`, the code's `float("inf")` for a checksum of
unknown length and for one that is asked for within its own computation, in a cycle.

### 2.5 SharedFetch and BufferSource

`SharedFetch` knows three things: who is aboard the lookup of a key, what has
landed for a caller, and the result that is still at hand. `BufferSource` has
what `caching/buffer_source.py` has: `_sources_by_owner` in order, `_pending`
with its task and count of waiters, tasks that ask one source after another, and
the callback `finished`, which runs in a later turn than the end of its task. The
refinement (`Promise`) maps a waiter of a task that is not done to a caller
aboard, one of a task that is done to a caller that has landed, and a done task
that is still in `_pending` to a result at hand. So a caller that joins between
the end of the task and its callback is a `Hit`, and a waiter that leaves may
neither cancel the others nor end their lookup.

### 2.6 Fingertip

A frame is one invocation of `Checksum.fingertip`, named by the path of
checksums from the caller's to its own. `Resolve` looks for the buffer and else
collects the recorded recipes (`Candidates`; what the database adds is recorded
here); `TryRecipe` takes the next in the order expressions, celljoins,
transformations and starts frames for its inputs, or passes over a celljoin whose
definition is not there, does not parse or is not the one asked for (`Readable`); `InputsBack` collects their
results (`asyncio.gather` for a celljoin); `Evaluate` and `Confirm` are the
evaluation and the second resolution; `GiveUp` raises `CacheMissError` with the
category. `Vanish` is the eviction or loss of a buffer at any moment. Python's
recursion limit is the constant `RecursionLimit`, and `depth` is what a frame has on its
stack: the input of an expression is awaited on the stack of its invocation, those
of a celljoin are gathered as tasks, which start with an empty one
(`checksum_class.py` 465). `failures` and `atHand` are history
variables: the failures met by each invocation that has found no buffer, and what could be
resolved when the callers asked.

### 2.7 RefHolders and Shutdown

A Cell has an input (a checksum or another Cell), two types and a path, a result
with the key of the recipe it was computed for, and claims on both. The actions
are the methods: `NewCell`, `Write` (`set_checksum`, the setters), `Retype`,
`WriteThrough` (a write to a projection, which rewrites the source), `CopyCell`,
`Read` and `Inspect` (which drop a result whose key is out of date, `Synced`),
`Compute`, the two halves of `compute_async`, `Build`, release and finalizer; and
for Expressions, `ReadResult`, `ComputeExpression`, `CopyExpression`, release and
finalizer. `count` is `refholder_counts` of the cache, `Claims` what the holders
say they hold: their comparison is the audit of `reference_lifecycle.py`.

`Shutdown` adds `close`: workers, the first audit, the flush, the release of a
snapshot of holders in any order, the forced clean-up. Computations of Cells and
finalizers go on meanwhile (`GoOn`); a holder of the snapshot cannot be finalized
before it is released. `straggler` remembers that a Cell got a result after it was
released, which nobody gives back. The computations that the program asks of an
Expression itself end before `close`.

### 2.8 HashTypes and Conversions

A hash type is the packed word of `hash_type.py`, with its bit fields
(`Pack`, `Unpack`). A behaviour is about one buffer, `content`, abstracted to
what the classifier and the parsers tell apart: its form (prose, code, JSON of
each kind, arrays of each rank and dtype, mixed, noise, empty), its length class,
whether it ends in a newline, and what it contains. The state is what is known of it: `known` is
this process's cache, `database` the remote word, `uploads` what the writer has
queued, `lookup` the callers suspended in `ensure_hash_type_async`. Actions are
the ways to learn a word (classify the buffer, a producer's untested word, the
database's late answer, another process) and the end of an upload: written, or given up
(`UploadGivenUp`: refused, or failed four times), after which nothing
queues that word again, because `set_hash_type` queues news only. `set_hash_type`
keeps the tighter word (`Implies`). `givenUp` remembers that the word known now is
one whose upload was given up. The process is one that uploads: words learnt
without `seamless_remote` are not queued at all (BW 84) and stay out of the model.

`Conversions` has the tables of `conversion.py`, whose consistency check
(`check_conversions`, at import) is the assumption `CheckConversions`, and
computes for a buffer and a word (or none) what `convert_checksum` does, leg by
leg of its route (`Legs`): the resulting buffer, or failure, and whether the
buffer was fetched.
`Parse` is `_parse_buffer`, which classifies a buffer of unknown type first and
looks at the value; `DeserializableAs`, `ConversionFeasible` and `Invalid` are the
answers from the word alone. `Outcome` is the evaluation of an expression with
an empty path.

## 3. The runs

| Run | Instance | Shows |
|---|---|---|
| `one` | 1 checksum, 2 Buffer objects, 2 threads, `MaxRefs` 2; all of `Next` | `IndInv`, references, pins, deferred and handed-over writes, claimed buffers |
| `evict` | 3 checksums of lengths 1, 2, 0, soft cap 1, 1 thread | one pass relieves the pressure or leaves only what is pinned, without size or of infinite cost (`PressureRelieved`) |
| `race` | 1 buffer key, 2 entries, 2 workers, 2 threads that register, flush and purge | no write that is due is forgotten, no queued flag lies (`IndInv`) |
| `service` | 1 buffer and 1 metadata key, 2 threads, nobody stops the worker | everything registered settles, every await is answered, nothing is queued twice |
| `share` | 1 key, 2 evaluations; on one loop a remote caller with and without writing, on the other one that asks for the checksum alone, or for the bytes by a call that blocks the loop | one evaluation, lingering only without members, only leavers cancelled, claims follow the work, who asks for bytes is answered with them |
| `linger` | a coroutine on a lasting loop and one in `asyncio.run`, 1 evaluation object at a time | `IndInv`; a linger ends even when the evaluation hangs; every call returns if evaluations end |
| `cost` | 3 checksums, 2 threads, 1 dependency each (cycles included), one length, one manual cost | counts and edges agree (`InterestCounted`), no cost stays stale (`CostsCurrent`), releases spare the dependencies of cached checksums (`DirectKeepsDependencies`) |
| `fetch` | 3 callers, 2 tasks, 2 sources (one trusted, one only asynchronous), both kinds of key | refinement of `SharedFetch`; no unwanted lookup goes on; every caller comes back |
| `recover` | source and part made from each other, whole joined or converted, one malformed celljoin, 2 transformations; any subset of buffers and recipes, one buffer may vanish | it ends; finds what can be derived; reports the highest failure |
| `identity` | 1 checksum with an identity expression and a transformation | violated: recursion instead of the transformation |
| `hold` | 2 Cells, 2 Expressions, 2 checksums, 2 types, 5 calls, then `close` at any time | claims and accounting agree, results are those of their recipes, the releases leave nothing for the forced clean-up (`ReleasesSuffice`) |
| `types` | 33 kinds of buffer, all true words, 1 caller, all pairs of 13 celltypes | words never refused, knowledge shared unless given up, answers sound, knowledge harmless, decisions stable |

**Bounds.** `MaxRefs` caps manual references and refholders of one checksum: 2
is the first count at which releasing one differs from releasing all. `SoftCap`
lies between the lengths so that some candidates fit and some do not. One
checksum suffices for references and publication, because every method but the
clean-up and eviction touches one checksum; those two are exercised by `evict`.
Two Buffer objects for one checksum are the case where the strong and the weak
object differ. In the writer, no call begins while a loop has `MaxBacklog`
callbacks and items or an entry has more tasks than that (`Room`). Callbacks beyond the bound still arise,
because the calls already begun may submit. Two entries let a new entry replace
one whose write is still running; two workers let a restarted worker overlap with its
predecessor; two threads are enough for each of the races found.

In `cost`, `MaxDeps` and `MaxInterest` are 1: three checksums with one dependency each
give chains, shared dependencies and cycles of every length up to three. In
`fetch`, two task objects let a lookup that was cancelled end while its successor
runs, and three callers let one leave, one stay and one join. `RecursionLimit` is 4 in
`recover`: more than its longest chain of recipes without a repetition (whole, part,
source), so that only the cycle of source and part reaches it, as a longer limit would be
reached; `MaxLost` is 1. There is no cycle through a celljoin, which the code does not
end (section 4). `MaxUses` 5 in `hold` suffices to make a Cell, derive
another, compute both and rewrite the first, or to change and read one while its
`compute_async` is at the await.

**Deadlock.** The runs check it, except where threads legitimately stop for
want of instance: with a bounded number of workers a thread may wait in
`EnsureWorker` for an unused one (`race`); and where the program is over: a
fingertip that came back (`recover`, `identity`), a process that is closed (`hold`).

**Symmetry and view.** `race` (safety only) treats entries, workers and
threads as interchangeable, `cost` checksums and threads, `hold` its objects,
checksums and types. The `VIEW` of `race` leaves out the fields of
unused entries, which are assigned before they are read again.

**Fairness.** A thread that has begun a call goes on, a worker thread and its
loop run what is ready, and a write ends in some way: this is what the operating
system, asyncio and the client's timeouts give. Nothing is fair about beginning
calls, timeouts or how a write ends. Strong fairness is not used for these two.
`ServiceSpec` is the same without purge and flush: the life of the module before shutdown.

In the engine a loop takes turns between the callbacks that are ready, and each
step of one of them makes the loop busy for the others, again and again. A loop
serves its ready queue in order, so each callback has its turn: `HangSpec` says
so with strong fairness, for each caller and for the task, the scheduling and
the timers of each evaluation. `CallReturns` assumes
in addition that evaluations end (`WorkEnds`). Beginning, leaving
and cancelling are never fair. In the engine's runs no call begins while an evaluation
has `MaxTimers` timers and callbacks: one in `share`, two in `linger`.
In `linger` the lasting loop is the one on which an abandoned evaluation hangs; the
end of the other cancels what runs there. `share` has lasting loops and a member id
for each caller; the callers that `OnlyLeaversCancelled` excepts are in the
configurations `cutoff` and `member` (section 4), where it holds as well. The call that blocks its loop
makes the deadlock check of `share` one of the test at EX 204: without that test the run ends in a
deadlock. The liveness run `linger` has a
single evaluation object: a caller waits in `Create` until it is free. A call
that blocks a loop begins only if an object is free, since it could not wait.
The `VIEW` of the safety runs leaves out the fields of unused evaluations, and
those of a finished one that only its members would need.

In `fetch` the tasks run and waiters whose task is done resume (weak fairness: the
loop serves what is ready); sources answer in the end. In `recover` invocations that
can go on do so. Calls, cancellations and losses are not fair.

## 4. Findings

Where the code contradicts a doc, a docstring or a test, one property states what
is said there and TLC finds it violated.

The run `identity` (`PROJECT.json` quotes the lines): the result of an identity
expression is recorded like any other, so a checksum can be recorded as made from itself. fingertip tries
expressions first and recurses on the same checksum until `RecursionError`,
before it tries the transformation that is known to have produced it
(`checksum_class.py` 424).

The configurations in the rest of this section are not among the runs.

- `MCBufferCache_transfer`, `TransferHonoured`: a deferred `transfer_write` lives
  in an entry without references; any demotion of that entry forgets it (BC 238).
  The docstring (BC 438): "if it is not yet known -- the write is deferred until
  a buffer is later attached via `register()`".
- `MCBufferWriter_overlooked`, `RegisterAdds`: a registration that comes between the
  settlement of a key's entry (BW 439-444) and its removal (BW 445-449) finds the
  entry done and queues nothing (BW 459); then the entry is removed. If the write of
  that entry was refused, the new registration is dropped without a trace. The
  docstring of the module: entering a buffer "adds the buffer to a queue, unless the
  buffer is already in the queue". `OwedIsRegistered` states what holds otherwise.
- `MCBufferWriter_stranded`, `RegisteredSettles`: a registration that races with
  a stop leaves its entry to nobody (BW 459). The docstring of the module: "All
  queued buffers are written remotely/asynchronously".
- `MCActiveExpression_cutoff`, `OthersNotCancelled`: the shared task lives on
  its creator's loop; when `asyncio.run` ends there, callers on other loops are
  cancelled (EX 340). The docstring of `softcancel`: "without interrupting shared
  work".
- `MCActiveExpression_stale`, `LingerInFull`: `schedule` arms a timer that later
  joins cannot cancel; it ends a later linger early (EX 827).
- `MCShutdown_outdated`, `ReadsProduced`: `compute_async` stores its result whatever
  the recipe is after the await. If the recipe was changed and looked at meanwhile,
  its key is already the new one, and the next read returns the result of the
  old recipe (`cell_class.py` 424). `src/README.md`: "`cell.checksum`, `.buffer`, and `.value` report the
  produced value."
- `MCEvictionCost_again`, `DependenciesKept`: registering dependencies again
  detaches the old ones before the new ones are counted; one that is in both and
  has no other interest is released and loses its own dependencies (EC 229).
- `MCConversions_untested`, `ParseIndependent`: a text that is not JSON is refused as
  `binary` or `mixed` if its type is unknown, because it is classified first, and
  is boxed if an untested word is known. `type_bits_design.md`: "`parse_buffer`
  doesn't depend on whether a HashType is known."
- `MCBufferCache_late`, `LateBufferPublished`: a scratch or neutral claim
  (`incref(scratch=True)`, a neutral refholder, `tempref`) attaches a buffer to
  an entry that already asked for a remote copy, and the write is never made (BC 210).
- `MCBufferWriter_two`, `OneWorker`: `_ensure_worker` publishes the thread
  before `start()`; a second caller finds it not alive and makes another (BW 284).
- `MCBufferWriter_join`, `JoinReturns`: with two workers, `_stop_worker` may ask
  one loop to stop and join the other thread, without a timeout (BW 309).
- `MCBufferWriter_twice`, `QueuedOnce`: the reset of the queued flags after the
  join hits entries that a new worker has queued (BW 310).
- `MCBufferWriter_purge`, `PurgeStopsWorker`: a worker that has not published
  its loop is not stopped (BW 302).
- `MCActiveExpression_member`, `OthersNotCancelled`: awaits of one Expression
  share the member id `id(self)` (`expression_class.py` 440); the first to leave
  cancels the other.
- `MCActiveExpression_unreachable`, `BytesAlways`: a remote request for
  bytes that joins a local evaluation of the checksum alone does not ask again (EX 599).
- `MCFingertip_celljoin`, `NestingBounded`: a part that is cut from a whole that is
  joined from it. Nothing remembers what is being recovered, and each gathered input has a stack of
  its own (`checksum_class.py` 465), so invocations nest beyond the recursion limit without end.
  `FingertipEnds` holds where no such cycle is recorded.

Two configurations pass and are kept for what the runs leave out:
`MCBufferWriter_alone` (one calling thread, stops and restarts: `OneWorker`,
`FlushReturns`) and `MCActiveExpression_brief` (a coroutine in `asyncio.run` next to a
thread that calls and peeks: `IndInv`, `SharedOnce`, `ClaimsFollowWork`).

Observations from reading and modelling, without a run of their own:

- In a worker without Dask a missing input raises `NotImplementedError`, which
  goes through the parent's `fingertip` and ends its remaining candidates.
- An expression whose input vanished between its fingertip and its evaluation is
  reported as `IRREPRODUCIBLE_EXPRESSION`, although nothing was reproduced.
- A Cell that is released and then written gives back a claim on its input that
  it no longer has (`_replace_input_ref`); only `close` releases a Cell that is
  still in use.
- `_hold_result` of an Expression ignores `_refholds_released` when the result is
  the same: after a release it takes a claim that nobody gives back.
- What is registered at the writer after the flush of `close`, or while every
  client is read-only, is dropped without a report; `shutdown-final.md` says "no
  silent drop remains".
- `set_hash_type` stores the word before `ensure_open` may raise.
- `type_bits_design.md` says "A concrete kind never gives `None`":
  `deserializable_as` answers `None` for text as `yaml` and for mixed streams.

## 5. The proofs

The eight proof modules prove, for every value of the constants, that an inductive
invariant holds (`IndInv`; in `HashTypesProofs` `TypesInv`); every safety property
and action property that a passing run checks is a conjunct of it or follows from it. The definitions an
invariant is made of stand with the properties at the end of the module it is about. A proof has
one lemma per action, or per kind of change that several actions make, on top of
lemmas about the operators; the last lemma goes through the disjuncts of `Next`.

`BufferCacheProofs`. None of the properties is inductive alone.
`PublicationComplete` needs `NoDeferredWriteBypassed` (else `Get` could fill an
entry that waits for its buffer), which needs `ContentAddressed` (a buffer found
under a checksum belongs to it and has a size), and `ManualRefsKept` needs `RefholdersPinned` and the
types (no count below zero). `PublishedOnRequest` needs that an
entry is `remote_registered` only if somebody asked (`RegisteredWasAsked`). The
lemmas are about `StoreOrDemote`, `EnsuredEntry` and the parts of the accounting.
`PressureRelieved` compares two sums of lengths, of all strong entries and of what a
pass leaves, which are folds over sets: `SumExists` constructs the partial sums of a
finite set, `SumsAgree` says that the fold is what they end in, and `SumSplit` that a
sum is that of a part and of the rest. An eviction takes a prefix of an order of all
candidates (`WholeOrder`), so that stopping early means that the rest is under the cap.
Theorems: `SpecIndInv`, `TypeCorrect`, `ReferencesAccounted`, `ManualReferencesKept`,
`PublicationCorrect`, `NothingPublishedUnasked`, `DeferredWritesSafe`, and the
action properties `ClaimedBuffersStay` and `EvictionRelievesPressure`.

`BufferWriterProofs`. `OwedIsRegistered` (a write that is due has an entry)
rests on: entries are registered under their own key (`KeysMatch`), an entry that a
task is about to remove is done and its write not due (`LeavingSettled`: when it is settled the
write has arrived, was refused or given up, and who registers the key before the
removal is overlooked), and `flush` settles and removes only what arrived
(`SettledArrived`). `QueuedIsServed` (an entry with the
flag is held by a living worker) rests on: only running loops have tasks and a
worker that has not started has no queue (`WorkersClean`), and the thread that
starts a worker is the only one to do so (`StartsOwn`). The races of section 4 do
not break these. `HandedToOne` is about `ServiceSpec`, without purge and flush, because a stop
breaks `QueuedOnce` (section 4): `ServiceInv`, added to `IndInv`, says that no
worker is stopping (`InService`) and that a worker has an entry once, no two
have it, and its flag is set (`HandedOnce`), so that `_enqueue_entry` and a worker
that starts pass over what is queued. A worker that starts queues the
pending entries in some order (`SetToSeqs`), each once, as the lemmas about sequences
without repetitions say. Theorems: `SpecIndInv`, `TypeCorrect`,
`WritesNotForgotten`, `QueueHonest`, `HandedToOne`.

`ActiveExpressionProofs`. `SharedOnce` (what can still produce a result is
registered) rests on `KeysMatch` (under its own key, so that whoever looks the key
up finds it) and on `AbandonedLingers`: `expire` may forget a lingering evaluation
because it has no members and a task to cancel. That an evaluation keeps its type
needs `TimersCounted` (the handle that a join cancels is one of the timers, so no
count goes below zero) and `PublishedFirst` (a synchronous caller withdraws a
result). `DoneIsOver` makes the objects that serve again neither claimed nor
awaited. The proof splits `IndInv` into what it says of each evaluation (`Sound`),
of the registry and of the rest; a step that the registry does not notice
(`Quiet`) keeps the registry part by one lemma, and there is one lemma for each way to
change it: `RetiredRegistry`, `EnteredRegistry`, `LingeredRegistry`,
`LeftRegistry`.
Two theorems are about steps, and each has its invariant. `BytesAnswered`: `BytesFollow`
follows the bytes from the task to the answer (a value has bytes somewhere
unless it was evaluated for the checksum alone, or dispatched without asking for them; such an
answer makes the caller ask again, unless it is remote and joined a local one). `LeaversOnly`:
`Undisturbed` says that what is cancelled, but for the tasks on the loop of an `asyncio.run`, is
out of the registry and without members, and that who waits with a member id of its own
is a member until it is asked to leave. Neither theorem has a hypothesis: the
properties name the callers they except, whom section 4 shows to be rightly excepted.
Theorems: `SpecIndInv`, `TypeCorrect`,
`SharedEvaluations`, `LingerIsAbandonment`, `ClaimsReleased`, `BytesAnswered`, `LeaversOnly`.

`EvictionCostProofs`. `InterestCounted` is inductive next to the types of the
graph. That it survives a release, over cycles too, comes from the double counting of edges
(`Edges` over a union and over what is left): those who are released lose
exactly the edges that their `depended` counted, and the reverse table the same.
`DirectKeepsDependencies` follows, because only what has no direct interest is in
`Released`.

`CostsCurrent` compares what is cached with `TrueCost`, a recursion over a graph that
may have cycles. Three arguments carry it. First, what the recursion computes: it is
bounded by the set of checksums under way, so it has an evaluation
(`EvaluationExists`, by induction over that set); a cost is finite exactly for the `Grounded`
(the least set of the checksums with a length all of whose dependencies are in it), and there
it is the own cost of settled costs (`Settled`; theorem `RecursionSettles`). So it does
not matter in which order, or with which of the current costs already cached, it is
computed (`CachedCosts`). Second, which costs a change
can reach: `mark_dirty` goes up to exactly what depends on the changed checksum
(`Dependents`, constructed layer by layer; theorem `DependentsComplete`), and a change of
lengths, terms or dependencies leaves every cost outside alone (`CostsLocal`). Third,
the invariant `CostInv`: besides the types, one thread at a time is inside the lock
(`OneInside`), and what a thread has computed but not yet stored is current, or a call that
still owes a mark will remove it (`CallsSound`); without this
`StoreCost` could put an old cost back. Theorems: `SpecIndInv`, `GraphMirrored`, the
action property `CachedKeepDependencies`, `SpecCostInv`, `TypeCorrect`,
`CacheStaysSmall`, `CostsStayCurrent`, `DependentsComplete`, `RecursionSettles`.

`BufferSourceProofs`. `LookupWanted` rests on `WaitersCounted` (the count in
`_pending` is the number of callers that wait for its task), `CancelledAlone` (a
cancelled task has no waiters and is out of `_pending`) and `UnderWayShared` (any
other task that goes on is the one in `_pending`). From the same invariant each step is a
step of `SharedFetch` or a stutter: a call is a hit or boards, a departure of the
last waiter ends the lookup, a task that ends lands everybody aboard, its callback
forgets the result, and the steps of the task between leave the promise alone.
Theorems: `SpecIndInv`, `LookupsWanted`, `ImplementsSharedFetch` (safety; that lookups
return is the run's).

`FingertipProofs`. A frame's parents wait in `"inputs"` (`Nested`), so
the frames below an invocation come and go while it stands still; `FrameSound` says that
an invocation without a buffer has the highest of the categories recorded for it.
`failures` belongs to live frames only: what an invocation that found its
buffer has met is forgotten with it. So a category goes up one frame when inputs come back, and
reaches the caller as the maximum. `RecoverableIsRecovered` adds `RecoveryInv`: the recipes that
an invocation is done with were of no use (`Useful`), unless it has a failure to
report. `Derivable` is a least closed set, so what was not at hand and is derivable has a
useful recipe (`DerivableFacts`). It is what recipes make from the buffers that were at
hand when the callers asked (`atHand`), so that what invocations make meanwhile, the
definition of a celljoin among it, neither adds to it nor makes another recipe
useful (`RunSame`); `Recovers` says as well that what was at hand still is, while no
buffer vanishes. Theorems:
`SpecIndInv`, `TypeCorrect`, `HighestIsReported`, `RecoverableIsRecovered`.

`ShutdownProofs`. `AccountingMatches` compares counts with what unreleased holders
claim, and is not inductive, because a computation that ends after its Cell was
released gives that Cell a result. `Owned` counts the results of released Cells as
well: the counts equal `Owned` unless there was a straggler, and are no less until the
clean-up (`Accounted`). Without a straggler released Cells have no results (`ReleasedEmpty`), so
that `Owned` is what the others claim, which is `ReleasesSuffice`. `HoldersSound` says of each Cell and Expression what its key, result and flags may
be together. One lemma per method says what becomes of the sets of
holders (`FS_AddElement`, `FS_RemoveElement`), so that a claim taken and a claim given
back change count and owner alike. Theorems: `SpecIndInv`, `AccountingCorrect`,
`ClaimsStayBacked`, `ReleasesAreComplete`, `ResultsCurrent`.

`HashTypesProofs`. `WordsTrue` (all words about are true of the buffer) makes
`set_hash_type` meet no contradiction, because true words of one buffer are
ordered by `Implies`, transitively (`Order`). `KnowledgeShared`
needs `AnswersKept` (a late answer of the database is no tighter than what the
database has now), and excepts only the very word whose upload was given up: a tighter one, which is
news, is queued again. That parsing and converting keep these, which store words
of their own, is the lemmas `...Learns`: each operator of a conversion adds true words
only, for each leg and so for the whole route (`LegsByLeg`, at most `MaxLegs`). `AnswersTrue`
compares `DeserializableAs` with `Readable` for each kind of word (`WordRight`).
The arithmetic of the bit fields is in `UnpackPack`.

`LocalStaysLocal` compares two runs of one conversion, with the word known when it was
placed and with the tighter one known now (`KnownTightens`: words only tighten).
`Paired` says that while neither has failed they are at the same buffer, and that the
one that knows more has fetched its source only if the other has; each operator
of a leg keeps it (`...Paired`), and so does each leg of the route (`RoutePaired`).

`KnowledgeHarmless` says that an evaluation that knows the type ends where a blind
one ends, and fails only where the blind one fails or the source cannot be read. For conversions
that are carried out this is `Paired`, with nothing known on one side. For those that the
validation refuses, `Route` and `ConversionFeasible` are recursive
functions over conversions, whose values the provers get from iterating their bodies: after a few
rounds all conversions agree (`AgreeBasic`, `AgreeSimple`, `AgreeText`; `AgreeDirect`,
`AgreeHalf`), which makes the result the fixed point (`RouteIs`, `FeasibleIs`). Then the
answer "False" has one of a few reasons (`Reasons`, `Infeasible`): a type that the
route passes through is disproved, the pair is forbidden, or the word says that the value
cannot be built. Each reason makes the conversion fail blind as well, or its source
is not readable (`ReasonsFail`), because what is disproved is not readable (`WordRight`)
and a leg that fails fails the route (`FailsOnward`). Theorems: `SpecTypesInv`,
`WordsNeverClash`, `KnowledgeReachesDatabase`, `AnswersTrue`, `KnowledgeStaysHarmless`,
and the action property `ConversionsStayLocal`.

Induction. The induction theorems of the library take a predicate as an operator,
which the provers here cannot instantiate. Where a proof needs induction over data it
uses the same principle about sets (`Induction`, `SubsetInduction`, `LeastNumber` in
`EvictionCostProofs`): a set of numbers that has 0 and with each number the next has
them all, with the induction predicate written as a set. Recursion is in the form of recursive
functions, whose existence is proved in the same way (`RecursiveFunction`).

Assumed: only the named assumptions on the constants, which TLC evaluates in
every run of their module. `BufferAssumption`, `BoundsAssumption` (cache); `KeyAssumption`,
`WorkerAssumption` (writer); `CallerAssumption`, `KeyAssumption`, `NobodyAssumption`,
`EarlierAssumption`, `RequestAssumption`, `BoundAssumption` (engine); `CostAssumption`,
`SourceAssumption`, `RecipeAssumption`, `HolderAssumption`, `BoundAssumption` (shutdown),
`TypesAssumption`, `CheckConversions`. They say that sets are finite where something
is counted, that markers are no values, that bounds are numbers, and what the code
checks itself (`check_conversions`).

What TLC checks of this: `IndInv` in `one`, `race`, `linger`, and the other
inductive invariants (`ServiceInv`, `BytesFollow`, `Undisturbed`, `CostInv`,
`RecoveryInv`, `IndInv` and `TypesInv` of the later modules) hold in the instances of the runs `service`, `share`,
`cost`, `fetch`, `recover`, `hold` and `types`, where adding them to the configuration shows it.

Only model-checked:

- liveness (leads-to under fairness needs `ENABLED`, which these provers lack): `RegisteredSettles`,
  `AwaitAnswered`, `LingerEnds`, `CallReturns`, `LookupReturns`, `FingertipEnds`;
- `OneWorker` and the properties of section 4, which hold only in instances without
  the cases shown there.

## 6. The plan

1. `BufferCache`, `BufferWriter`, `ActiveExpression` and their proofs: done.
2. `EvictionCost`, `BufferSource` with `SharedFetch`, `Fingertip`, `RefHolders` with
   `Shutdown`, `HashTypes` with `Conversions`: modelled and checked.
3. Proofs for them, from an inductive invariant each: done.
4. An abstract specification for the writer, "a set of owed writes
   that only shrinks by an outcome", which `BufferWriter` should implement with `owed \ stored`.
5. Left of the models: two keys with synchronous calls on two loops, and eviction
   of results while somebody waits for their bytes (`ActiveExpression`); finalizers
   inside locked bodies of the cache; the dispatch of celljoins; `LRU` as a
   refinement of a sequence of keys.

## 7. Not modelled

The remote client (`seamless_remote`) and its `promise` and `ensure_open`; an
installation without it, where `flush` does nothing; when `run_eviction_once` is
called (the loop that measures memory, BC 624-649): the model lets it run at any
moment; `stats` and `reference_snapshot`, which only read.

Of the sources, `get_buffer` (a loop over a snapshot), `has_buffer` and
`get_buffer_lengths`, which keep no state. Of Cells, those bound to a workflow,
whose state is in another repository, and validators, which are not implemented.
Of expressions, composed paths and the capabilities of paths (pure tables about
steps of a path), and deep celltypes with their members. Of celljoins, how members
are joined and the dispatch to workers. Of serialization, the byte formats and the
caches of parsed and serialized values. Of the steps of `close`, what workers, clients, shared memory
and the resource tracker do. The LRU cache, the error envelope, diagnostics,
imports and utilities. A component is "partly" modelled in `PROJECT.json` where
something of it is named here; those without any model are `not_modelled`, and
`PROJECT.json` says of each what it leaves out.
