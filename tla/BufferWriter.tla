---------------------------- MODULE BufferWriter ----------------------------
(***************************************************************************)
(* The background writer: src/seamless/caching/buffer_writer.py.           *)
(*                                                                         *)
(* Threads call register, await_existing_task, purge and flush; a worker   *)
(* thread runs an event loop that takes entries from a queue and writes    *)
(* them.  Other threads reach the loop only through call_soon_threadsafe:  *)
(* inbox[w] holds the callbacks that the loop of w has yet to run.  The    *)
(* module lock is held for short blocks, so each block is an action and    *)
(* call[t] says where thread t is between two of them.                     *)
(*                                                                         *)
(* The remote client (promise, write_buffer, the metadata writes) is not   *)
(* in the repository: a write takes any time and may succeed, be refused   *)
(* or raise.  Buffers with one checksum have one content, so replacing the *)
(* buffer of an entry is not visible here.                                 *)
(*                                                                         *)
(* Operators whose name starts with Faulty carry a plausible bug, to show  *)
(* that the properties notice it.                                          *)
(***************************************************************************)
EXTENDS Integers, FiniteSets, SequencesExt

CONSTANTS
    Checksum,    \* keys of buffer writes
    Metadata,    \* keys of metadata writes (hash types, expressions, celljoins)
    Entry,       \* the _QueueEntry objects that exist at the same time
    Worker,      \* the worker threads that exist at the same time
    Thread,      \* the threads that call this module
    MaxBacklog,  \* bound: no call begins when a loop has this much work
    Stop,        \* the None that ends the worker loop
    Nobody       \* Python's None where a thread or a loop is expected

ASSUME KeyAssumption ==
    /\ Checksum \union Metadata # {}
    /\ Checksum \intersect Metadata = {}

ASSUME WorkerAssumption ==
    /\ IsFiniteSet(Entry) /\ Stop \notin Entry
    /\ Worker # {} /\ Nobody \notin Worker
    /\ MaxBacklog \in Nat

VARIABLES
    entries,   \* _entries: key -> entry
    entry,     \* the fields of every entry
    thread,    \* _thread
    loop,      \* _loop (and _queue: they are set together)
    phase,     \* the life of every worker thread
    inbox,     \* callbacks scheduled on the loop of a worker
    queue,     \* its asyncio queue
    tasks,     \* how many tasks of a worker are processing an entry
    popping,   \* how many of its tasks have settled an entry, not yet removed it
    call,      \* the call that each thread is in
    stored,    \* keys whose write arrived at the server
    owed,      \* history: keys registered, and neither refused, given up nor purged
    overlooked \* history: keys whose last registration found an entry that a task
               \* had settled and was about to remove

shared == <<entries, entry, thread, loop>>
worker == <<phase, inbox, queue, tasks, popping>>
history == <<stored, owed, overlooked>>
vars == <<shared, worker, call, history>>

-----------------------------------------------------------------------------
(* State *)

Key == Checksum \union Metadata

Future == {"pending", "written", "refused", "failed", "cancelled"}
EntryFields == [key : Key, queued : BOOLEAN, future : Future]

\* created: Thread object made, not started.  starting: running, but it has
\* not published its loop.  draining: it took the stop.  closed: its loop is
\* closed, but the last block of _thread_main has not run.
Phase == {"ended", "created", "starting", "running", "draining", "closed"}

\* Where a thread is.  "then" says whether the call that enqueues is a
\* register or an await; "purge" whether the call that stops is a purge.
Call ==
    [at : {"idle", "clear"}]
    \union [at : {"ensure", "read"}, entry : Entry, then : {"return", "await"}]
    \union [at : {"start"}, entry : Entry, then : {"return", "await"}, worker : Worker]
    \union [at : {"submit"}, entry : Entry, then : {"return", "await"}, loop : Worker]
    \union [at : {"await"}, entry : Entry]
    \union [at : {"drain"}, todo : SUBSET Entry, timeout : BOOLEAN]
    \union [at : {"put"}, todo : SUBSET Checksum]
    \union [at : {"settle"}, todo : SUBSET Checksum, entry : Entry]
    \union [at : {"pop"}, todo : SUBSET Checksum, key : Checksum]
    \union [at : {"stop", "reset"}, purge : BOOLEAN]
    \union [at : {"request"}, purge : BOOLEAN, loop : Worker, worker : Worker]
    \union [at : {"join"}, purge : BOOLEAN, worker : Worker]

TypeOK ==
    /\ \E S \in SUBSET Key : entries \in [S -> Entry]
    /\ entry \in [Entry -> EntryFields]
    /\ thread \in Worker \union {Nobody}
    /\ loop \in Worker \union {Nobody}
    /\ phase \in [Worker -> Phase]
    /\ inbox \in [Worker -> Seq(Entry \union {Stop})]
    /\ queue \in [Worker -> Seq(Entry \union {Stop})]
    /\ tasks \in [Worker -> [Entry -> Nat]]
    /\ popping \in [Worker -> [Entry -> Nat]]
    /\ call \in [Thread -> Call]
    /\ stored \subseteq Key
    /\ owed \subseteq Key
    /\ overlooked \subseteq Key

\* Importing the module runs init(), which has started a worker thread.
Init ==
    /\ entries = [k \in {} |-> {}]
    /\ entry = [e \in Entry |-> [key |-> CHOOSE k \in Key : TRUE, queued |-> FALSE,
                                  future |-> "cancelled"]]
    /\ thread \in Worker
    /\ loop = Nobody
    /\ phase = [w \in Worker |-> IF w = thread THEN "starting" ELSE "ended"]
    /\ inbox = [w \in Worker |-> <<>>]
    /\ queue = [w \in Worker |-> <<>>]
    /\ tasks = [w \in Worker |-> [e \in Entry |-> 0]]
    /\ popping = [w \in Worker |-> [e \in Entry |-> 0]]
    /\ call = [t \in Thread |-> [at |-> "idle"]]
    /\ stored = {}
    /\ owed = {}
    /\ overlooked = {}

Registered == DOMAIN entries
RegisteredEntries == {entries[k] : k \in Registered}
Done(e) == entry[e].future # "pending"

\* _thread_main, call_soon_threadsafe and is_alive see these.
Alive(w) == phase[w] \in {"starting", "running", "draining", "closed"}
LoopRuns(w) == phase[w] \in {"running", "draining"}

CallEntries(t) ==
    IF call[t].at = "drain" THEN call[t].todo
    ELSE IF "entry" \in DOMAIN call[t] THEN {call[t].entry} ELSE {}
CallWorkers(t) ==
    (IF "worker" \in DOMAIN call[t] THEN {call[t].worker} ELSE {})
        \union (IF "loop" \in DOMAIN call[t] THEN {call[t].loop} ELSE {})

\* Objects that nothing refers to any more: new ones take their place.
UnusedEntry(e) ==
    /\ e \notin RegisteredEntries
    /\ \A t \in Thread : e \notin CallEntries(t)
    /\ \A w \in Worker : /\ e \notin ToSet(inbox[w]) \union ToSet(queue[w])
                         /\ tasks[w][e] = 0 /\ popping[w][e] = 0
UnusedWorker(w) ==
    /\ phase[w] = "ended"
    /\ \A t \in Thread : w \notin CallWorkers(t)

Idle(t) == call[t].at = "idle"
Goto(t, c) == call' = [call EXCEPT ![t] = c]
Return(t) == Goto(t, [at |-> "idle"])

\* Bound: loops are not flooded.
Room == \A w \in Worker :
    /\ Len(inbox[w]) + Len(queue[w]) < MaxBacklog
    /\ \A e \in Entry : tasks[w][e] + popping[w][e] <= MaxBacklog

-----------------------------------------------------------------------------
(* register, _register_metadata and await_existing_task *)

NewEntry(k) == [key |-> k, queued |-> FALSE, future |-> "pending"]

\* A task has settled e without the lock and has yet to take the lock to remove
\* it: whoever finds e in between finds an entry that is done.
Leaving(e) == \E w \in Worker : popping[w][e] > 0

\* A buffer whose checksum has an entry is enqueued again ...
RegisterAgain(t, k) ==
    /\ Idle(t) /\ Room
    /\ k \in Registered
    /\ IF k \in Checksum
         THEN Goto(t, [at |-> "ensure", entry |-> entries[k], then |-> "return"])
         ELSE UNCHANGED call  \* ... a metadata key that has one is left alone.
    /\ owed' = owed \union {k}
    /\ overlooked' = IF Leaving(entries[k]) THEN overlooked \union {k}
                   ELSE overlooked \ {k}
    /\ UNCHANGED <<shared, worker, stored>>

RegisterNew(t, k) ==
    /\ Idle(t) /\ Room
    /\ k \notin Registered
    /\ \E e \in Entry :
        /\ UnusedEntry(e)
        /\ entries' = [d \in Registered \union {k} |-> IF d = k THEN e ELSE entries[d]]
        /\ entry' = [entry EXCEPT ![e] = NewEntry(k)]
        /\ Goto(t, [at |-> "ensure", entry |-> e, then |-> "return"])
    /\ owed' = owed \union {k}
    /\ overlooked' = overlooked \ {k}
    /\ UNCHANGED <<thread, loop, worker, stored>>

Register(t, k) == RegisterAgain(t, k) \/ RegisterNew(t, k)

Await(t, k) ==
    /\ Idle(t) /\ Room
    /\ k \in Registered \intersect Checksum
    /\ entry[entries[k]].future # "cancelled"
    /\ Goto(t, [at |-> "ensure", entry |-> entries[k], then |-> "await"])
    /\ UNCHANGED <<shared, worker, history>>

\* _enqueue_entry returns here.
Enqueued(t) ==
    IF call[t].then = "return" THEN Return(t)
    ELSE Goto(t, [at |-> "await", entry |-> call[t].entry])

Await_Return(t) ==
    /\ call[t].at = "await"
    /\ Done(call[t].entry)
    /\ Return(t)
    /\ UNCHANGED <<shared, worker, history>>

-----------------------------------------------------------------------------
(* _enqueue_entry: _ensure_worker, a look at the loop, the submission *)

\* A thread that was made but not started is not alive: is_alive() is false
\* until start() has run.
FaultyHasWorker == loop # Nobody
HasWorker == thread # Nobody /\ Alive(thread)

EnsureWorker(t) ==
    LET c == call[t]
    IN  /\ c.at = "ensure"
        /\ IF HasWorker
             THEN /\ Goto(t, [at |-> "read", entry |-> c.entry, then |-> c.then])
                  /\ UNCHANGED <<thread, phase>>
             ELSE \E w \in Worker :
                  /\ UnusedWorker(w)
                  /\ thread' = w
                  /\ phase' = [phase EXCEPT ![w] = "created"]
                  /\ Goto(t, [at |-> "start", entry |-> c.entry, then |-> c.then,
                              worker |-> w])
        /\ UNCHANGED <<entries, entry, loop, inbox, queue, tasks, popping, history>>

StartWorker(t) ==
    LET c == call[t]
    IN  /\ c.at = "start"
        /\ phase' = [phase EXCEPT ![c.worker] = "starting"]
        /\ Goto(t, [at |-> "read", entry |-> c.entry, then |-> c.then])
        /\ UNCHANGED <<shared, inbox, queue, tasks, popping, history>>

\* Without a loop, the worker that is starting will pick the entry up.
ReadLoop(t) ==
    LET c == call[t]
    IN  /\ c.at = "read"
        /\ IF loop = Nobody \/ entry[c.entry].queued \/ Done(c.entry)
             THEN Enqueued(t)
             ELSE Goto(t, [at |-> "submit", entry |-> c.entry, then |-> c.then,
                           loop |-> loop])
        /\ UNCHANGED <<shared, worker, history>>

\* call_soon_threadsafe raises if the loop was closed meanwhile.
Submit(t) ==
    LET c == call[t]
    IN  /\ c.at = "submit"
        /\ IF LoopRuns(c.loop)
             THEN /\ inbox' = [inbox EXCEPT ![c.loop] = Append(@, c.entry)]
                  /\ Enqueued(t)
             ELSE /\ Return(t)
                  /\ UNCHANGED inbox
        /\ UNCHANGED <<shared, phase, queue, tasks, popping, history>>

-----------------------------------------------------------------------------
(* The worker thread *)

Pending == {e \in RegisteredEntries : ~Done(e) /\ ~entry[e].queued}

\* First block of _thread_main: publish the loop, queue what waits.
FaultyWorkerStart(w) ==
    /\ phase[w] = "starting"
    /\ phase' = [phase EXCEPT ![w] = "running"]
    /\ loop' = w
    /\ UNCHANGED <<entries, entry, thread, inbox, queue, tasks, popping, call, history>>

WorkerStart(w) ==
    /\ phase[w] = "starting"
    /\ phase' = [phase EXCEPT ![w] = "running"]
    /\ loop' = w
    /\ entry' = [e \in Entry |->
            IF e \in Pending THEN [entry[e] EXCEPT !.queued = TRUE] ELSE entry[e]]
    /\ \E order \in SetToSeqs(Pending) : queue' = [queue EXCEPT ![w] = order]
    /\ UNCHANGED <<entries, thread, inbox, tasks, popping, call, history>>

\* _put: the callback looks again, because two threads may submit one entry.
FaultyEnqueue(w, e) ==
    IF Done(e)
      THEN UNCHANGED <<entry, queue>>
      ELSE /\ entry' = [entry EXCEPT ![e].queued = TRUE]
           /\ queue' = [queue EXCEPT ![w] = Append(@, e)]

Enqueue(w, e) ==
    IF Done(e) \/ entry[e].queued
      THEN UNCHANGED <<entry, queue>>
      ELSE /\ entry' = [entry EXCEPT ![e].queued = TRUE]
           /\ queue' = [queue EXCEPT ![w] = Append(@, e)]

RunCallback(w) ==
    /\ LoopRuns(w)
    /\ inbox[w] # <<>>
    /\ inbox' = [inbox EXCEPT ![w] = Tail(@)]
    /\ IF Head(inbox[w]) = Stop
         THEN /\ queue' = [queue EXCEPT ![w] = Append(@, Stop)]
              /\ UNCHANGED entry
         ELSE Enqueue(w, Head(inbox[w]))
    /\ UNCHANGED <<entries, thread, loop, phase, tasks, popping, call, history>>

\* _worker_loop takes an item: the stop ends the loop, an entry that was
\* settled meanwhile is skipped, any other is promised and gets a task.
TakeItem(w) ==
    /\ phase[w] = "running"
    /\ queue[w] # <<>>
    /\ queue' = [queue EXCEPT ![w] = Tail(@)]
    /\ LET item == Head(queue[w])
       IN  IF item = Stop
             THEN /\ phase' = [phase EXCEPT ![w] = "draining"]
                  /\ UNCHANGED tasks
             ELSE /\ tasks' = IF Done(item) THEN tasks
                              ELSE [tasks EXCEPT ![w][item] = @ + 1]
                  /\ UNCHANGED phase
    /\ UNCHANGED <<shared, inbox, popping, call, history>>

\* Only a failed buffer write keeps its entry, for flush to try again.
Forgets(e, result) == result # "failed" \/ entry[e].key \in Metadata

\* The future is set unless flush or purge has settled it.
FaultyOutcome(e, result) == IF result = "failed" THEN entry[e].future ELSE result
Outcome(e, result) == IF Done(e) THEN entry[e].future ELSE result

\* Only the entry that is registered is removed, never its successor.
FaultyListed(e) == entry[e].key \in Registered
Listed(e) == entry[e].key \in Registered /\ entries[entry[e].key] = e

Without(k) == [d \in Registered \ {k} |-> entries[d]]

\* _process_entry ends its write (metadata is tried four times before it has
\* failed) and settles the future without the lock.  It looks whether the future
\* is done first: if flush or purge settles it in between, set_result raises and
\* the task ends there.
SettleTask(w, e, result, raises) ==
    LET k == entry[e].key
    IN  /\ tasks[w][e] > 0
        /\ LoopRuns(w)
        /\ raises => Done(e)
        /\ tasks' = [tasks EXCEPT ![w][e] = @ - 1]
        /\ popping' = IF Forgets(e, result) /\ ~raises
                        THEN [popping EXCEPT ![w][e] = @ + 1] ELSE popping
        /\ entry' = [entry EXCEPT ![e].future = Outcome(e, result)]
        /\ stored' = IF result = "written" THEN stored \union {k} ELSE stored
        /\ owed' = IF result # "written" /\ Forgets(e, result) /\ k \in Registered /\ entries[k] = e
                     THEN owed \ {k} ELSE owed
        /\ UNCHANGED <<entries, thread, loop, phase, inbox, queue, call, overlooked>>

\* Its last block takes the lock and removes the entry.
DropEntry(w, e) ==
    /\ popping[w][e] > 0
    /\ LoopRuns(w)
    /\ popping' = [popping EXCEPT ![w][e] = @ - 1]
    /\ entries' = IF Listed(e) THEN Without(entry[e].key) ELSE entries
    /\ UNCHANGED <<entry, thread, loop, phase, inbox, queue, tasks, call, history>>

\* After the last task the loop is shut down and closed ...
FaultyCloseLoop(w) ==
    /\ phase[w] = "draining"
    /\ phase' = [phase EXCEPT ![w] = "closed"]
    /\ UNCHANGED <<shared, inbox, queue, tasks, popping, call, history>>

CloseLoop(w) ==
    /\ phase[w] = "draining"
    /\ \A e \in Entry : tasks[w][e] = 0 /\ popping[w][e] = 0
    /\ phase' = [phase EXCEPT ![w] = "closed"]
    /\ UNCHANGED <<shared, inbox, queue, tasks, popping, call, history>>

AllUnqueued == [e \in Entry |->
    IF e \in RegisteredEntries THEN [entry[e] EXCEPT !.queued = FALSE] ELSE entry[e]]

\* ... and the last block of _thread_main withdraws the worker.
FaultyEndWorker(w) ==
    /\ phase[w] = "closed"
    /\ phase' = [phase EXCEPT ![w] = "ended"]
    /\ loop' = Nobody
    /\ thread' = Nobody
    /\ inbox' = [inbox EXCEPT ![w] = <<>>]
    /\ queue' = [queue EXCEPT ![w] = <<>>]
    /\ UNCHANGED <<entries, entry, tasks, popping, call, history>>

EndWorker(w) ==
    /\ phase[w] = "closed"
    /\ phase' = [phase EXCEPT ![w] = "ended"]
    /\ loop' = Nobody
    /\ thread' = Nobody
    /\ entry' = AllUnqueued
    /\ inbox' = [inbox EXCEPT ![w] = <<>>]
    /\ queue' = [queue EXCEPT ![w] = <<>>]
    /\ UNCHANGED <<entries, tasks, popping, call, history>>

-----------------------------------------------------------------------------
(* _stop_worker, for purge and for flush *)

Stopped(t, purge) == IF purge THEN Goto(t, [at |-> "clear"]) ELSE Return(t)

\* A worker that has not published its loop is not stopped.
FaultyReadWorker(t) ==
    LET c == call[t]
    IN  /\ c.at = "stop"
        /\ IF thread = Nobody
             THEN Stopped(t, c.purge)
             ELSE Goto(t, [at |-> "request", purge |-> c.purge,
                           loop |-> loop, worker |-> thread])
        /\ UNCHANGED <<shared, worker, history>>

ReadWorker(t) ==
    LET c == call[t]
    IN  /\ c.at = "stop"
        /\ IF loop = Nobody \/ thread = Nobody
             THEN Stopped(t, c.purge)
             ELSE Goto(t, [at |-> "request", purge |-> c.purge,
                           loop |-> loop, worker |-> thread])
        /\ UNCHANGED <<shared, worker, history>>

\* Raises if another thread has stopped the worker meanwhile.
RequestStop(t) ==
    LET c == call[t]
    IN  /\ c.at = "request"
        /\ IF LoopRuns(c.loop)
             THEN /\ inbox' = [inbox EXCEPT ![c.loop] = Append(@, Stop)]
                  /\ Goto(t, [at |-> "join", purge |-> c.purge, worker |-> c.worker])
             ELSE /\ Return(t)
                  /\ UNCHANGED inbox
        /\ UNCHANGED <<shared, phase, queue, tasks, popping, history>>

\* join() raises for a thread that was not started yet.
Join(t) ==
    LET c == call[t]
    IN  /\ c.at = "join"
        /\ ~Alive(c.worker)
        /\ IF phase[c.worker] = "ended"
             THEN Goto(t, [at |-> "reset", purge |-> c.purge])
             ELSE Return(t)
        /\ UNCHANGED <<shared, worker, history>>

ResetQueued(t) ==
    /\ call[t].at = "reset"
    /\ entry' = AllUnqueued
    /\ Stopped(t, call[t].purge)
    /\ UNCHANGED <<entries, thread, loop, worker, history>>

Purge(t) ==
    /\ Idle(t) /\ Room
    /\ Goto(t, [at |-> "stop", purge |-> TRUE])
    /\ UNCHANGED <<shared, worker, history>>

ClearEntries(t) ==
    /\ call[t].at = "clear"
    /\ entries' = [k \in {} |-> {}]
    /\ entry' = [e \in Entry |->
            IF e \in RegisteredEntries /\ ~Done(e)
              THEN [entry[e] EXCEPT !.future = "cancelled"] ELSE entry[e]]
    /\ owed' = owed \ Registered
    /\ overlooked' = overlooked \ Registered
    /\ Return(t)
    /\ UNCHANGED <<thread, loop, worker, stored>>

-----------------------------------------------------------------------------
(* flush *)

Flush(t, timeout) ==
    /\ Idle(t) /\ Room
    /\ Goto(t, [at |-> "drain", timeout |-> timeout,
                todo |-> {entries[k] : k \in Registered \intersect Metadata}])
    /\ UNCHANGED <<shared, worker, history>>

\* It waits for the metadata that was queued; then, if there is a server, it
\* puts the buffers itself.
Drained(t, server) ==
    LET c == call[t]
    IN  /\ c.at = "drain"
        /\ c.timeout \/ \A e \in c.todo : Done(e)
        /\ IF server
             THEN Goto(t, [at |-> "put", todo |-> Registered \intersect Checksum])
             ELSE Goto(t, [at |-> "stop", purge |-> FALSE])
        /\ UNCHANGED <<shared, worker, history>>

\* A checksum without an entry was settled by the worker meanwhile.
PutBuffer(t, k, success) ==
    LET c == call[t]
        rest == c.todo \ {k}
    IN  /\ c.at = "put"
        /\ k \in c.todo
        /\ stored' = IF success THEN stored \union {k} ELSE stored
        /\ Goto(t, IF ~success \/ k \notin Registered THEN [at |-> "put", todo |-> rest]
                   ELSE IF Done(entries[k]) THEN [at |-> "pop", todo |-> rest, key |-> k]
                   ELSE [at |-> "settle", todo |-> rest, entry |-> entries[k]])
        /\ UNCHANGED <<shared, worker, owed, overlooked>>

\* The worker may settle the future between the check and set_result: then
\* flush raises InvalidStateError, and neither goes on nor stops the worker.
Settle(t) ==
    LET c == call[t]
    IN  /\ c.at = "settle"
        /\ IF Done(c.entry)
             THEN Return(t) /\ UNCHANGED entry
             ELSE /\ entry' = [entry EXCEPT ![c.entry].future = "written"]
                  /\ Goto(t, [at |-> "pop", todo |-> c.todo, key |-> entry[c.entry].key])
        /\ UNCHANGED <<entries, thread, loop, worker, history>>

\* Whatever is registered under the checksum by now is removed.
PopEntry(t) ==
    LET c == call[t]
    IN  /\ c.at = "pop"
        /\ entries' = Without(c.key)
        /\ Goto(t, [at |-> "put", todo |-> c.todo])
        /\ UNCHANGED <<entry, thread, loop, worker, history>>

AllPut(t) ==
    /\ call[t].at = "put"
    /\ call[t].todo = {}
    /\ Goto(t, [at |-> "stop", purge |-> FALSE])
    /\ UNCHANGED <<shared, worker, history>>

-----------------------------------------------------------------------------

\* What a thread does once it has begun a call ...
Continue(t) ==
    \/ EnsureWorker(t) \/ StartWorker(t) \/ ReadLoop(t) \/ Submit(t)
    \/ Await_Return(t)
    \/ ReadWorker(t) \/ RequestStop(t) \/ Join(t) \/ ResetQueued(t)
    \/ ClearEntries(t)
    \/ \E server \in BOOLEAN : Drained(t, server)
    \/ \E k \in Checksum, success \in BOOLEAN : PutBuffer(t, k, success)
    \/ Settle(t) \/ PopEntry(t) \/ AllPut(t)

\* ... and what its worker threads do.
Work(w) ==
    \/ WorkerStart(w) \/ RunCallback(w) \/ TakeItem(w)
    \/ \E e \in Entry :
        \/ \E result \in {"written", "refused", "failed"}, raises \in BOOLEAN :
            SettleTask(w, e, result, raises)
        \/ DropEntry(w, e)
    \/ CloseLoop(w) \/ EndWorker(w)

Enter(t) == \E k \in Key : Register(t, k) \/ Await(t, k)
EnterStop(t) == Purge(t) \/ \E timeout \in BOOLEAN : Flush(t, timeout)

Next ==
    \/ \E t \in Thread : Enter(t) \/ EnterStop(t) \/ Continue(t)
    \/ \E w \in Worker : Work(w)

Spec == Init /\ [][Next]_vars

\* Threads go on and event loops run what is ready.
Fairness ==
    /\ \A t \in Thread : WF_vars(Continue(t))
    /\ \A w \in Worker :
        /\ WF_vars(WorkerStart(w) \/ RunCallback(w))
        /\ WF_vars(TakeItem(w))
        /\ WF_vars(CloseLoop(w) \/ EndWorker(w))
        /\ \A e \in Entry :
            /\ WF_vars(\E result \in {"written", "refused", "failed"}, raises \in BOOLEAN :
                            SettleTask(w, e, result, raises))
            /\ WF_vars(DropEntry(w, e))

FairSpec == Spec /\ Fairness

\* While nobody flushes or purges: the life of the module before shutdown.
ServiceNext ==
    \/ \E t \in Thread : Enter(t) \/ Continue(t)
    \/ \E w \in Worker : Work(w)
ServiceSpec == Init /\ [][ServiceNext]_vars /\ Fairness

-----------------------------------------------------------------------------
(* Properties *)

\* A registered write is lost in one way only: until it has been written,
\* refused, given up (metadata only) or purged, its key has an entry, so that
\* flush and shutdown's report of remaining writes see it, unless register came
\* between the settlement of the entry and its removal (_process_entry settles
\* without the lock).  Retries, purges and a second entry for the key must not
\* remove the entry that is owed.
Due == owed \ (stored \union overlooked)
OwedIsRegistered == Due \subseteq Registered

\* The module's docstring: entering a buffer "adds the buffer to a queue, unless
\* the buffer is already in the queue": a buffer that is registered, and for
\* which no write has ended since, has an entry.
RegisterAdds == owed \ stored \subseteq Registered

\* The queued flag stops an entry from being queued again, so it must be true
\* only while some worker really has the entry: an entry that is marked but
\* in no queue would never be written, however often it is registered.
QueuedIsServed ==
    \A e \in RegisteredEntries : entry[e].queued /\ ~Done(e) =>
        \E w \in Worker : Alive(w) /\ (e \in ToSet(queue[w]) \/ tasks[w][e] > 0)

\* What the invariants above rest on: an entry has the key it is registered
\* under; an entry about to be removed is done and its write is not due; flush settles
\* and removes only what arrived; only a running loop has tasks, and one that
\* has not started has no queue; a thread starts a worker once.
KeysMatch == \A k \in Registered : entry[entries[k]].key = k
LeavingSettled ==
    \A e \in Entry : Leaving(e) =>
        /\ Done(e)
        /\ Listed(e) => entry[e].key \notin Due
SettledArrived ==
    \A t \in Thread :
        /\ call[t].at = "settle" => entry[call[t].entry].key \in stored \intersect Checksum
        /\ call[t].at = "pop" => call[t].key \in stored
WorkersClean ==
    \A w \in Worker :
        /\ ~LoopRuns(w) => \A e \in Entry : tasks[w][e] = 0 /\ popping[w][e] = 0
        /\ phase[w] \in {"ended", "created", "starting"} => queue[w] = <<>>
StartsOwn ==
    \A t \in Thread : call[t].at = "start" =>
        /\ phase[call[t].worker] = "created"
        /\ \A u \in Thread :
            call[u].at = "start" /\ call[u].worker = call[t].worker => u = t

\* The inductive invariant behind the theorems of BufferWriterProofs.
IndInv ==
    /\ TypeOK
    /\ OwedIsRegistered
    /\ QueuedIsServed
    /\ KeysMatch
    /\ LeavingSettled
    /\ SettledArrived
    /\ WorkersClean
    /\ StartsOwn

\* The module's docstring: "a dedicated thread hosts an asyncio event loop".
OneWorker == \A v, w \in Worker : Alive(v) /\ Alive(w) => v = w

\* The module's docstring: a buffer is added to the queue "unless the buffer
\* is already in the queue", whose tasks it also holds.
Occurrences(e, w) == Cardinality({i \in DOMAIN queue[w] : queue[w][i] = e}) + tasks[w][e]
QueuedOnce ==
    \A e \in Entry, v, w \in Worker :
        /\ Occurrences(e, w) <= 1
        /\ Occurrences(e, v) = 1 /\ Occurrences(e, w) = 1 => v = w

\* What the induction for it rests on.  Before shutdown nothing asks a worker to
\* stop; a worker has an entry once, no two workers have one, and the flag of an
\* entry that a worker has is set, which keeps it from being queued again.
Serving == {"idle", "ensure", "start", "read", "submit", "await"}
InService ==
    /\ \A t \in Thread : call[t].at \in Serving
    /\ \A w \in Worker : /\ phase[w] \notin {"draining", "closed"}
                         /\ Stop \notin ToSet(inbox[w]) \union ToSet(queue[w])
Has(w, e) == e \in ToSet(queue[w]) \/ tasks[w][e] > 0
OwnOnce(w) ==
    /\ \A i, j \in DOMAIN queue[w] : queue[w][i] = queue[w][j] => i = j
    /\ \A e \in Entry : tasks[w][e] > 0 => tasks[w][e] = 1 /\ e \notin ToSet(queue[w])
HandedOnce ==
    /\ \A w \in Worker : OwnOnce(w)
    /\ \A w \in Worker, e \in Entry : Has(w, e) =>
        entry[e].queued /\ \A v \in Worker : Has(v, e) => v = w
ServiceInv == InService /\ HandedOnce

\* Whoever joins a worker comes back: it has asked that very worker to stop,
\* and a worker that was asked ends.  shutdown-final.md: "All joins/flushes use
\* bounded timeouts where possible"; this join has none.
JoinReturns == \A t \in Thread : (call[t].at = "join") ~> (call[t].at # "join")

\* The docstring of purge: "Stop the worker thread and clear all queued
\* buffers".
PurgeStopsWorker ==
    [][\A t \in Thread : ClearEntries(t) => \A w \in Worker : ~Alive(w)]_vars

\* Every registered write is settled in the end: written, refused, failed or
\* cancelled.  It must not matter whether the entry is enqueued before, while
\* or after the worker thread starts and publishes its loop.
RegisteredSettles ==
    \A e \in Entry : (e \in RegisteredEntries /\ ~Done(e)) ~> Done(e)

\* Whoever awaits the shared write of a buffer gets an answer.
AwaitAnswered == \A t \in Thread : (call[t].at = "await") ~> Idle(t)

\* A flush comes back, also without a timeout: the metadata that it waits for
\* has a worker, and the worker that it joins ends.
FlushReturns == \A t \in Thread : (call[t].at = "drain") ~> Idle(t)

=============================================================================
