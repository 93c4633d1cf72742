------------------------- MODULE BufferWriterProofs -------------------------
(***************************************************************************)
(* Proofs about BufferWriter, for any number of keys, entries, worker      *)
(* threads and calling threads.                                            *)
(***************************************************************************)
EXTENDS BufferWriter, FiniteSetTheorems, SequenceTheorems, TLAPS

\* _entries is a function from the registered keys.
LEMMA EntriesTyped ==
    ASSUME TypeOK
    PROVE  /\ Registered \subseteq Key
           /\ entries \in [Registered -> Entry]
           /\ RegisteredEntries \subseteq Entry
BY DEF TypeOK, Registered, RegisteredEntries

\* What a thread carries at each point of a call.
LEMMA CallFields ==
    ASSUME NEW c \in Call
    PROVE  /\ c.at \in {"ensure", "read", "start", "submit"} =>
                c.entry \in Entry /\ c.then \in {"return", "await"}
           /\ c.at \in {"await", "settle"} => c.entry \in Entry
           /\ c.at \in {"start", "request", "join"} => c.worker \in Worker
           /\ c.at \in {"submit", "request"} => c.loop \in Worker
           /\ c.at = "drain" => c.todo \subseteq Entry
           /\ c.at \in {"put", "settle", "pop"} => c.todo \subseteq Checksum
           /\ c.at = "pop" => c.key \in Checksum
           /\ c.at \in {"stop", "request", "join", "reset"} => c.purge \in BOOLEAN
BY DEF Call

-----------------------------------------------------------------------------
(* Steps of the calling threads *)

\* A thread that moves on, neither to settle a future nor to start a worker,
\* keeps what the invariant says about calls, if keys, arrivals and workers
\* that wait to be started are kept.
LEMMA GotoInv ==
    ASSUME IndInv, NEW t \in Thread, NEW c \in Call, Goto(t, c),
           c.at \notin {"settle", "pop", "start"},
           \A e \in Entry : entry'[e].key = entry[e].key,
           stored \subseteq stored',
           UNCHANGED phase
    PROVE  call' \in [Thread -> Call] /\ SettledArrived' /\ StartsOwn'
<1>1. call \in [Thread -> Call]
  BY DEF IndInv, TypeOK
<1>2. \A u \in Thread : call'[u] = IF u = t THEN c ELSE call[u]
  BY <1>1 DEF Goto
<1>3. call' \in [Thread -> Call]
  BY <1>1 DEF Goto
<1>4. SettledArrived'
  BY <1>1, <1>2, CallFields DEF IndInv, SettledArrived
<1>5. StartsOwn'
  BY <1>1, <1>2 DEF IndInv, StartsOwn
<1> QED BY <1>3, <1>4, <1>5

\* The same for steps of the workers, which leave the calls alone.
LEMMA CallsKept ==
    ASSUME IndInv, UNCHANGED call,
           \A e \in Entry : entry'[e].key = entry[e].key,
           stored \subseteq stored',
           \A w \in Worker : phase[w] = "created" => phase'[w] = "created"
    PROVE  call' \in [Thread -> Call] /\ SettledArrived' /\ StartsOwn'
<1>1. call \in [Thread -> Call]
  BY DEF IndInv, TypeOK
<1>4. SettledArrived'
  BY <1>1, CallFields DEF IndInv, SettledArrived
<1>5. StartsOwn'
  BY <1>1, CallFields DEF IndInv, StartsOwn
<1> QED BY <1>1, <1>4, <1>5

\* An entry about to be removed stays settled and not due, if no entry is made
\* or settled back, and no write of a registered key becomes due.
LEMMA LeavingKept ==
    ASSUME IndInv, UNCHANGED popping,
           \A d \in Registered' : d \in Registered /\ entries'[d] = entries[d],
           \A e \in Entry : entry'[e].key = entry[e].key /\ (Done(e) => Done(e)'),
           \A d \in Registered' : d \in Due' => d \in Due
    PROVE  LeavingSettled'
<1> SUFFICES ASSUME NEW e \in Entry, Leaving(e)'
             PROVE  Done(e)' /\ (Listed(e)' => entry'[e].key \notin Due')
  BY DEF LeavingSettled
<1>1. Done(e) /\ (Listed(e) => entry[e].key \notin Due)
  BY DEF IndInv, LeavingSettled, Leaving
<1>2. Listed(e)' => Listed(e) /\ entry'[e].key \in Registered'
  BY DEF Listed
<1> QED BY <1>1, <1>2

\* Most steps leave the entries and the history alone, and settle at most more.
LEMMA LeavingStill ==
    ASSUME IndInv, UNCHANGED <<entries, popping, history>>,
           \A e \in Entry : entry'[e].key = entry[e].key /\ (Done(e) => Done(e)')
    PROVE  LeavingSettled'
<1>1. Registered' = Registered /\ Due' = Due
  BY DEF Registered, Due, history
<1> QED BY <1>1, LeavingKept

\* A thread that only moves on keeps the invariant.
LEMMA MoveInv ==
    ASSUME IndInv, NEW t \in Thread, NEW c \in Call, Goto(t, c),
           c.at \notin {"settle", "pop", "start"},
           UNCHANGED <<shared, worker, history>>
    PROVE  IndInv'
<1>1. call' \in [Thread -> Call] /\ SettledArrived' /\ StartsOwn'
  BY GotoInv DEF shared, worker, history
<1>2. TypeOK'
  BY <1>1 DEF IndInv, TypeOK, shared, worker, history
<1>3. OwedIsRegistered'
  BY DEF IndInv, OwedIsRegistered, Due, Registered, shared, worker, history
<1>4. QueuedIsServed'
  BY DEF IndInv, QueuedIsServed, RegisteredEntries, Registered, Done, Alive,
         shared, worker, history
<1>5. KeysMatch'
  BY DEF IndInv, KeysMatch, Registered, shared, worker, history
<1>6. WorkersClean'
  BY DEF IndInv, WorkersClean, LoopRuns, shared, worker, history
<1>7. LeavingSettled'
  BY LeavingStill DEF shared, worker, Done
<1> QED BY <1>1, <1>2, <1>3, <1>4, <1>5, <1>6, <1>7 DEF IndInv

\* Where _enqueue_entry returns to.
LEMMA EnqueuedPoint ==
    ASSUME NEW t \in Thread, call[t] \in Call,
           call[t].at \in {"ensure", "read", "start", "submit"}, Enqueued(t)
    PROVE  \E c \in Call : Goto(t, c) /\ c.at \notin {"settle", "pop", "start"}
<1>1. call[t].entry \in Entry
  BY CallFields
<1>2. [at |-> "idle"] \in Call /\ [at |-> "await", entry |-> call[t].entry] \in Call
  BY <1>1 DEF Call
<1> QED BY <1>2 DEF Enqueued, Return

\* The calls that read shared state and go on.
LEMMA MovesInv ==
    ASSUME IndInv, NEW t \in Thread,
           \/ \E k \in Key : Await(t, k)
           \/ Await_Return(t) \/ ReadLoop(t) \/ ReadWorker(t) \/ Join(t) \/ Purge(t)
           \/ \E timeout \in BOOLEAN : Flush(t, timeout)
           \/ \E server \in BOOLEAN : Drained(t, server)
           \/ AllPut(t)
    PROVE  IndInv'
<1>0. call[t] \in Call /\ loop \in Worker \union {Nobody}
         /\ thread \in Worker \union {Nobody}
  BY DEF IndInv, TypeOK
<1>1. ASSUME NEW k \in Key, Await(t, k) PROVE IndInv'
  <2>1. entries[k] \in Entry
    BY <1>1, EntriesTyped DEF Await, IndInv
  <2>2. [at |-> "ensure", entry |-> entries[k], then |-> "await"] \in Call
    BY <2>1 DEF Call
  <2> QED BY <1>1, <2>2, MoveInv DEF Await
<1>2. CASE Await_Return(t)
  <2>1. [at |-> "idle"] \in Call
    BY DEF Call
  <2> QED BY <1>2, <2>1, MoveInv DEF Await_Return, Return
<1>3. CASE ReadLoop(t)
  <2>1. CASE loop = Nobody \/ entry[call[t].entry].queued \/ Done(call[t].entry)
    <3>1. Enqueued(t) /\ call[t].at = "read" /\ UNCHANGED <<shared, worker, history>>
      BY <1>3, <2>1 DEF ReadLoop
    <3> QED BY <1>0, <3>1, EnqueuedPoint, MoveInv
  <2>2. CASE ~(loop = Nobody \/ entry[call[t].entry].queued \/ Done(call[t].entry))
    <3>1. call[t].entry \in Entry /\ call[t].then \in {"return", "await"}
      BY <1>0, <1>3, CallFields DEF ReadLoop
    <3>2. [at |-> "submit", entry |-> call[t].entry, then |-> call[t].then,
           loop |-> loop] \in Call
      BY <1>0, <2>2, <3>1 DEF Call
    <3> QED BY <1>3, <2>2, <3>2, MoveInv DEF ReadLoop
  <2> QED BY <2>1, <2>2
<1>4. CASE ReadWorker(t)
  <2>1. call[t].purge \in BOOLEAN
    BY <1>0, <1>4, CallFields DEF ReadWorker
  <2>2. [at |-> "clear"] \in Call /\ [at |-> "idle"] \in Call
    BY DEF Call
  <2>3. loop # Nobody /\ thread # Nobody =>
            [at |-> "request", purge |-> call[t].purge, loop |-> loop,
             worker |-> thread] \in Call
    BY <1>0, <2>1 DEF Call
  <2> QED BY <1>4, <2>1, <2>2, <2>3, MoveInv DEF ReadWorker, Stopped, Return
<1>5. CASE Join(t)
  <2>1. call[t].purge \in BOOLEAN
    BY <1>0, <1>5, CallFields DEF Join
  <2>2. [at |-> "reset", purge |-> call[t].purge] \in Call /\ [at |-> "idle"] \in Call
    BY <2>1 DEF Call
  <2> QED BY <1>5, <2>2, MoveInv DEF Join, Return
<1>6. CASE Purge(t)
  <2>1. [at |-> "stop", purge |-> TRUE] \in Call
    BY DEF Call
  <2> QED BY <1>6, <2>1, MoveInv DEF Purge
<1>7. ASSUME NEW timeout \in BOOLEAN, Flush(t, timeout) PROVE IndInv'
  <2>1. {entries[k] : k \in Registered \intersect Metadata} \subseteq Entry
    BY EntriesTyped DEF IndInv
  <2>2. [at |-> "drain", timeout |-> timeout,
         todo |-> {entries[k] : k \in Registered \intersect Metadata}] \in Call
    BY <2>1 DEF Call
  <2> QED BY <1>7, <2>2, MoveInv DEF Flush
<1>8. ASSUME NEW server \in BOOLEAN, Drained(t, server) PROVE IndInv'
  <2>1. [at |-> "put", todo |-> Registered \intersect Checksum] \in Call
    BY DEF Call
  <2>2. [at |-> "stop", purge |-> FALSE] \in Call
    BY DEF Call
  <2> QED BY <1>8, <2>1, <2>2, MoveInv DEF Drained
<1>9. CASE AllPut(t)
  <2>2. [at |-> "stop", purge |-> FALSE] \in Call
    BY DEF Call
  <2> QED BY <1>9, <2>2, MoveInv DEF AllPut
<1> QED BY <1>1, <1>2, <1>3, <1>4, <1>5, <1>6, <1>7, <1>8, <1>9

\* Registering a key that has an entry makes its write due, unless the entry is
\* about to be removed.
LEMMA RegisterAgainInv ==
    ASSUME IndInv, NEW t \in Thread, NEW k \in Key, RegisterAgain(t, k)
    PROVE  IndInv'
<1> USE DEF IndInv
<1>0. /\ k \in Registered /\ UNCHANGED <<shared, worker, stored>>
      /\ owed' = owed \union {k}
      /\ Registered \subseteq Key /\ entries \in [Registered -> Entry]
      /\ call \in [Thread -> Call]
  BY EntriesTyped DEF TypeOK, RegisterAgain
<1>1. call' \in [Thread -> Call] /\ SettledArrived' /\ StartsOwn'
  <2>1. CASE k \in Checksum
    <3>1. [at |-> "ensure", entry |-> entries[k], then |-> "return"] \in Call
      BY <1>0 DEF Call
    <3> QED BY <1>0, <2>1, <3>1, GotoInv DEF RegisterAgain, shared, worker
  <2>2. CASE k \notin Checksum
    BY <1>0, <2>2, CallsKept DEF RegisterAgain, shared, worker
  <2> QED BY <2>1, <2>2
<1>2. overlooked' \subseteq Key
  BY DEF RegisterAgain, TypeOK
<1>3. TypeOK'
  BY <1>0, <1>1, <1>2 DEF TypeOK, shared, worker
<1>4. Registered' = Registered
  BY <1>0 DEF Registered, shared
<1>5. \A d \in Key : d \in Due' => d \in Due \/ (d = k /\ ~Leaving(entries[k]))
  <2>1. overlooked' = IF Leaving(entries[k]) THEN overlooked \union {k}
                      ELSE overlooked \ {k}
    BY DEF RegisterAgain
  <2> QED BY <1>0, <2>1 DEF Due
<1>6. OwedIsRegistered'
  <2>1. Due' \subseteq Key
    BY <1>3 DEF TypeOK, Due
  <2> QED BY <1>0, <1>4, <1>5, <2>1 DEF OwedIsRegistered
<1>7. LeavingSettled'
  <2> SUFFICES ASSUME NEW e \in Entry, Leaving(e)'
               PROVE  Done(e)' /\ (Listed(e)' => entry'[e].key \notin Due')
    BY DEF LeavingSettled
  <2>1. Leaving(e) /\ Done(e) /\ Done(e)' /\ (Listed(e) => entry[e].key \notin Due)
    BY <1>0 DEF LeavingSettled, Leaving, Done, shared, worker
  <2>2. Listed(e)' => Listed(e) /\ entry[e].key \in Key /\ entry'[e].key = entry[e].key
    BY <1>0, <1>4 DEF Listed, shared
  <2>3. Listed(e) => entry[e].key # k \/ Leaving(entries[k])
    BY <2>1 DEF Listed
  <2> QED BY <1>5, <2>1, <2>2, <2>3
<1>8. KeysMatch'
  BY <1>0, <1>4 DEF KeysMatch, shared
<1>9. QueuedIsServed'
  BY <1>0 DEF QueuedIsServed, RegisteredEntries, Registered, Done, Alive, shared, worker
<1>10. WorkersClean'
  BY <1>0 DEF WorkersClean, LoopRuns, worker
<1> QED BY <1>1, <1>3, <1>6, <1>7, <1>8, <1>9, <1>10

\* A new entry takes an unused object, so no registered entry, no task and no
\* future about to be settled changes its key.
LEMMA RegisterNewInv ==
    ASSUME IndInv, NEW t \in Thread, NEW k \in Key, RegisterNew(t, k)
    PROVE  IndInv'
<1> USE DEF IndInv
<1>0. Registered \subseteq Key /\ entries \in [Registered -> Entry]
      /\ RegisteredEntries \subseteq Entry /\ call \in [Thread -> Call]
      /\ entry \in [Entry -> EntryFields]
      /\ UNCHANGED <<thread, loop, worker, stored>>
      /\ owed' = owed \union {k} /\ overlooked' = overlooked \ {k}
  BY EntriesTyped DEF TypeOK, RegisterNew
<1>2. ASSUME k \notin Registered, NEW e \in Entry, UnusedEntry(e),
             entries' = [d \in Registered \union {k} |-> IF d = k THEN e ELSE entries[d]],
             entry' = [entry EXCEPT ![e] = NewEntry(k)],
             Goto(t, [at |-> "ensure", entry |-> e, then |-> "return"])
      PROVE IndInv'
  <2>1. [at |-> "ensure", entry |-> e, then |-> "return"] \in Call
    BY DEF Call
  <2>2. /\ entries' \in [Registered \union {k} -> Entry]
        /\ Registered \union {k} \in SUBSET Key
        /\ Registered' = Registered \union {k}
        /\ \A d \in Registered \union {k} : entries'[d] = IF d = k THEN e ELSE entries[d]
    BY <1>0, <1>2 DEF Registered
  <2>3. /\ NewEntry(k) \in EntryFields
        /\ entry' \in [Entry -> EntryFields]
        /\ \A d \in Entry : entry'[d] = IF d = e THEN NewEntry(k) ELSE entry[d]
    BY <1>0, <1>2 DEF NewEntry, EntryFields, Future
  <2>4. call' = [call EXCEPT ![t] = [at |-> "ensure", entry |-> e, then |-> "return"]]
    BY <1>2 DEF Goto
  <2>5. call' \in [Thread -> Call]
    BY <1>0, <2>1, <2>4
  <2>6. \A u \in Thread : call[u].at = "settle" => call[u].entry # e
    <3>1. SUFFICES ASSUME NEW u \in Thread, call[u].at = "settle" PROVE call[u].entry # e
      OBVIOUS
    <3>2. call[u] \in [at : {"settle"}, todo : SUBSET Checksum, entry : Entry]
      BY <1>0, <3>1 DEF Call
    <3>3. "entry" \in DOMAIN call[u]
      BY <3>2
    <3>4. call[u].entry \in CallEntries(u)
      BY <3>1, <3>3 DEF CallEntries
    <3> QED BY <1>2, <3>4 DEF UnusedEntry
  <2>7. SettledArrived'
    BY <1>0, <2>3, <2>4, <2>6, CallFields DEF SettledArrived
  <2>8. StartsOwn'
    BY <1>0, <2>4 DEF StartsOwn, worker
  <2>9. \E S \in SUBSET Key : entries' \in [S -> Entry]
    BY <2>2
  <2>10. TypeOK'
    BY <1>0, <2>3, <2>5, <2>9 DEF worker, TypeOK
  <2>11. OwedIsRegistered'
    BY <1>0, <2>2 DEF OwedIsRegistered, Due
  <2>12. \A d \in Registered : entries[d] # e
    BY <1>2 DEF UnusedEntry, RegisteredEntries
  <2>13. KeysMatch'
    BY <1>0, <2>2, <2>3, <2>12 DEF KeysMatch, NewEntry
  <2>14. QueuedIsServed'
    <3>1. RegisteredEntries' = RegisteredEntries \union {e}
      <4>1. \A d \in Registered : entries'[d] = entries[d]
        BY <1>2, <2>2
      <4> QED BY <2>2, <4>1 DEF RegisteredEntries
    <3>2. ~entry'[e].queued
      BY <2>3 DEF NewEntry
    <3> QED BY <1>0, <2>3, <3>1, <3>2 DEF QueuedIsServed, Done, Alive, worker
  <2>15. WorkersClean'
    BY <1>0 DEF WorkersClean, LoopRuns, worker
  <2>16. LeavingSettled'
    <3> SUFFICES ASSUME NEW d \in Entry, Leaving(d)'
                 PROVE  Done(d)' /\ (Listed(d)' => entry'[d].key \notin Due')
      BY DEF LeavingSettled
    <3>1. Leaving(d) /\ Done(d) /\ (Listed(d) => entry[d].key \notin Due) /\ d # e
      <4>1. Leaving(d) /\ ~Leaving(e)
        BY <1>0, <1>2 DEF Leaving, worker, UnusedEntry
      <4> QED BY <4>1 DEF LeavingSettled
    <3>2. entry'[d] = entry[d] /\ Done(d)'
      BY <2>3, <3>1 DEF Done
    <3>3. Listed(d)' => Listed(d) /\ entry[d].key # k
      BY <2>2, <3>1, <3>2 DEF Listed
    <3>4. entry[d].key # k => (entry[d].key \in Due' => entry[d].key \in Due)
      BY <1>0 DEF Due
    <3> QED BY <3>1, <3>2, <3>3, <3>4
  <2> QED BY <2>7, <2>8, <2>10, <2>11, <2>13, <2>14, <2>15, <2>16
<1> QED BY <1>2 DEF RegisterNew

\* A thread makes a worker only from an unused one, so no other thread is about
\* to start it.
LEMMA EnsureWorkerInv ==
    ASSUME IndInv, NEW t \in Thread, EnsureWorker(t)
    PROVE  IndInv'
<1> USE DEF IndInv
<1>0. call \in [Thread -> Call] /\ call[t] \in Call /\ call[t].at = "ensure"
      /\ call[t].entry \in Entry /\ call[t].then \in {"return", "await"}
  BY CallFields DEF TypeOK, EnsureWorker
<1>1. CASE HasWorker
  <2>1. [at |-> "read", entry |-> call[t].entry, then |-> call[t].then] \in Call
    BY <1>0 DEF Call
  <2> QED BY <1>1, <2>1, MoveInv DEF EnsureWorker, shared, worker, history
<1>2. CASE ~HasWorker
  <2>1. PICK w \in Worker :
            /\ UnusedWorker(w)
            /\ thread' = w
            /\ phase' = [phase EXCEPT ![w] = "created"]
            /\ Goto(t, [at |-> "start", entry |-> call[t].entry, then |-> call[t].then,
                        worker |-> w])
    BY <1>2 DEF EnsureWorker
  <2>2. [at |-> "start", entry |-> call[t].entry, then |-> call[t].then,
         worker |-> w] \in Call
    BY <1>0 DEF Call
  <2>3. call' = [call EXCEPT ![t] = [at |-> "start", entry |-> call[t].entry,
                                     then |-> call[t].then, worker |-> w]]
    BY <2>1 DEF Goto
  <2>4. call' \in [Thread -> Call]
    BY <1>0, <2>2, <2>3
  <2>5. phase \in [Worker -> Phase] /\ phase' \in [Worker -> Phase]
        /\ \A v \in Worker : phase'[v] = IF v = w THEN "created" ELSE phase[v]
    BY <2>1 DEF TypeOK, Phase
  <2>6. phase[w] = "ended"
    BY <2>1 DEF UnusedWorker
  <2>7. \A u \in Thread : call[u].at = "start" => call[u].worker # w
    <3>1. SUFFICES ASSUME NEW u \in Thread, call[u].at = "start" PROVE call[u].worker # w
      OBVIOUS
    <3>2. call[u] \in [at : {"start"}, entry : Entry, then : {"return", "await"}, worker : Worker]
      BY <1>0, <3>1 DEF Call
    <3>3. "worker" \in DOMAIN call[u]
      BY <3>2
    <3>4. call[u].worker \in CallWorkers(u)
      BY <3>3 DEF CallWorkers
    <3> QED BY <2>1, <3>4 DEF UnusedWorker
  <2>8. TypeOK'
    BY <2>1, <2>4, <2>5 DEF EnsureWorker, TypeOK, history
  <2>9. OwedIsRegistered' /\ KeysMatch'
    BY DEF EnsureWorker, OwedIsRegistered, Due, KeysMatch, Registered, history
  <2>10. QueuedIsServed'
    BY <2>5, <2>6 DEF EnsureWorker, QueuedIsServed, RegisteredEntries, Registered,
                      Done, Alive
  <2>11. SettledArrived'
    BY <1>0, <2>3 DEF EnsureWorker, SettledArrived, history
  <2>12. WorkersClean'
    BY <2>5, <2>6 DEF EnsureWorker, WorkersClean, LoopRuns
  <2>13. StartsOwn'
    <3>1. \A u \in Thread : call'[u] = IF u = t
                THEN [at |-> "start", entry |-> call[t].entry,
                      then |-> call[t].then, worker |-> w]
                ELSE call[u]
      BY <1>0, <2>3
    <3>2. \A u \in Thread : call[u].at = "start" => call[u].worker \in Worker
      BY <1>0, CallFields
    <3> QED BY <2>5, <2>7, <3>1, <3>2 DEF StartsOwn
  <2>14. LeavingSettled'
    BY LeavingStill DEF EnsureWorker, Done
  <2> QED BY <2>8, <2>9, <2>10, <2>11, <2>12, <2>13, <2>14
<1> QED BY <1>1, <1>2

\* Only the thread that made a worker starts it.
LEMMA StartWorkerInv ==
    ASSUME IndInv, NEW t \in Thread, StartWorker(t)
    PROVE  IndInv'
<1> USE DEF IndInv
<1> DEFINE w == call[t].worker
           c == [at |-> "read", entry |-> call[t].entry, then |-> call[t].then]
<1>0. call \in [Thread -> Call] /\ call[t] \in Call /\ call[t].at = "start"
      /\ call[t].entry \in Entry /\ call[t].then \in {"return", "await"}
      /\ w \in Worker /\ phase[w] = "created"
  BY CallFields DEF TypeOK, StartWorker, StartsOwn
<1>1. c \in Call
  BY <1>0 DEF Call
<1>2. call' \in [Thread -> Call] /\ \A u \in Thread : call'[u] = IF u = t THEN c ELSE call[u]
  BY <1>0, <1>1 DEF StartWorker, Goto
<1>3. phase' \in [Worker -> Phase]
      /\ \A v \in Worker : phase'[v] = IF v = w THEN "starting" ELSE phase[v]
  BY <1>0 DEF StartWorker, TypeOK, Phase
<1>4. TypeOK'
  BY <1>2, <1>3 DEF StartWorker, TypeOK, shared, history
<1>5. OwedIsRegistered' /\ KeysMatch'
  BY DEF StartWorker, OwedIsRegistered, Due, KeysMatch, Registered, shared, history
<1>6. QueuedIsServed'
  BY <1>0, <1>3 DEF StartWorker, QueuedIsServed, RegisteredEntries, Registered, Done,
                    Alive, shared
<1>7. SettledArrived'
  BY <1>2 DEF StartWorker, SettledArrived, shared, history
<1>8. WorkersClean'
  BY <1>0, <1>3 DEF StartWorker, WorkersClean, LoopRuns
<1>9. StartsOwn'
  <2>1. \A u \in Thread : call[u].at = "start" => call[u].worker \in Worker
    BY <1>0, CallFields
  <2> QED BY <1>0, <1>2, <1>3, <2>1 DEF StartsOwn
<1>10. LeavingSettled'
  BY LeavingStill DEF StartWorker, shared, Done
<1> QED BY <1>4, <1>5, <1>6, <1>7, <1>8, <1>9, <1>10

\* A callback put in the inbox of a loop is typed and concerns nothing else.
LEMMA ScheduleInv ==
    ASSUME IndInv, NEW t \in Thread, NEW c \in Call, Goto(t, c),
           c.at \notin {"settle", "pop", "start"},
           NEW w \in Worker, NEW x \in Entry \union {Stop},
           inbox' = [inbox EXCEPT ![w] = Append(@, x)],
           UNCHANGED <<shared, phase, queue, tasks, popping, history>>
    PROVE  IndInv'
<1> USE DEF IndInv
<1>1. call' \in [Thread -> Call] /\ SettledArrived' /\ StartsOwn'
  BY GotoInv DEF shared, history
<1>2. inbox' \in [Worker -> Seq(Entry \union {Stop})]
  BY DEF TypeOK
<1>3. TypeOK'
  BY <1>1, <1>2 DEF TypeOK, shared, history
<1>4. OwedIsRegistered' /\ KeysMatch'
  BY DEF OwedIsRegistered, Due, KeysMatch, Registered, shared, history
<1>5. QueuedIsServed'
  BY DEF QueuedIsServed, RegisteredEntries, Registered, Done, Alive, shared
<1>6. WorkersClean'
  BY DEF WorkersClean, LoopRuns
<1>7. LeavingSettled'
  BY LeavingStill DEF shared, Done
<1> QED BY <1>1, <1>3, <1>4, <1>5, <1>6, <1>7

\* Submitting to a running loop only fills its inbox; a closed loop raises.
LEMMA SubmitInv ==
    ASSUME IndInv, NEW t \in Thread, Submit(t)
    PROVE  IndInv'
<1>0. call[t] \in Call /\ call[t].at = "submit" /\ call[t].entry \in Entry
      /\ call[t].then \in {"return", "await"} /\ call[t].loop \in Worker
  BY CallFields DEF IndInv, TypeOK, Submit
<1>1. CASE LoopRuns(call[t].loop)
  <2>1. PICK c \in Call : Goto(t, c) /\ c.at \notin {"settle", "pop", "start"}
    BY <1>0, <1>1, EnqueuedPoint DEF Submit
  <2> QED BY <1>0, <1>1, <2>1, ScheduleInv DEF Submit
<1>2. CASE ~LoopRuns(call[t].loop)
  <2>1. [at |-> "idle"] \in Call
    BY DEF Call
  <2> QED BY <1>2, <2>1, MoveInv DEF Submit, Return, worker
<1> QED BY <1>1, <1>2

\* Asking a worker to stop only fills its inbox.
LEMMA RequestStopInv ==
    ASSUME IndInv, NEW t \in Thread, RequestStop(t)
    PROVE  IndInv'
<1>0. call[t] \in Call /\ call[t].at = "request" /\ call[t].purge \in BOOLEAN
      /\ call[t].worker \in Worker /\ call[t].loop \in Worker
  BY CallFields DEF IndInv, TypeOK, RequestStop
<1>1. CASE LoopRuns(call[t].loop)
  <2>1. [at |-> "join", purge |-> call[t].purge, worker |-> call[t].worker] \in Call
    BY <1>0 DEF Call
  <2> QED BY <1>0, <1>1, <2>1, ScheduleInv DEF RequestStop
<1>2. CASE ~LoopRuns(call[t].loop)
  <2>1. [at |-> "idle"] \in Call
    BY DEF Call
  <2> QED BY <1>2, <2>1, MoveInv DEF RequestStop, Return, worker
<1> QED BY <1>1, <1>2

\* Clearing the queued flags of all registered entries is typed and changes no
\* key; afterwards no registered entry is queued.
LEMMA AllUnqueuedTyped ==
    ASSUME TypeOK, entry' = AllUnqueued
    PROVE  /\ entry' \in [Entry -> EntryFields]
           /\ \A e \in Entry : entry'[e].key = entry[e].key /\ (Done(e) => Done(e)')
           /\ \A e \in RegisteredEntries : ~entry'[e].queued
<1>1. entry \in [Entry -> EntryFields] /\ RegisteredEntries \subseteq Entry
  BY EntriesTyped DEF TypeOK
<1>2. \A e \in Entry : [entry[e] EXCEPT !.queued = FALSE] \in EntryFields
  BY <1>1 DEF EntryFields
<1>3. entry' \in [Entry -> EntryFields]
  BY <1>1, <1>2 DEF AllUnqueued
<1>4. \A e \in Entry : entry'[e].key = entry[e].key /\ (Done(e) => Done(e)')
  BY <1>1 DEF AllUnqueued, EntryFields, Done
<1>5. \A e \in RegisteredEntries : ~entry'[e].queued
  BY <1>1 DEF AllUnqueued, EntryFields
<1> QED BY <1>3, <1>4, <1>5

\* The reset after a join leaves no flag that no worker backs.
LEMMA ResetQueuedInv ==
    ASSUME IndInv, NEW t \in Thread, ResetQueued(t)
    PROVE  IndInv'
<1> USE DEF IndInv
<1>1. /\ entry' \in [Entry -> EntryFields]
      /\ \A e \in Entry : entry'[e].key = entry[e].key /\ (Done(e) => Done(e)')
      /\ \A e \in RegisteredEntries : ~entry'[e].queued
  BY AllUnqueuedTyped DEF ResetQueued
<1>2. [at |-> "clear"] \in Call /\ [at |-> "idle"] \in Call
  BY DEF Call
<1>3. call' \in [Thread -> Call] /\ SettledArrived' /\ StartsOwn'
  BY <1>1, <1>2, GotoInv DEF ResetQueued, Stopped, Return, worker, history
<1>4. TypeOK'
  BY <1>1, <1>3 DEF ResetQueued, TypeOK, worker, history
<1>5. OwedIsRegistered'
  BY DEF ResetQueued, OwedIsRegistered, Due, Registered, history
<1>6. KeysMatch'
  BY <1>1, EntriesTyped DEF ResetQueued, KeysMatch, Registered
<1>7. QueuedIsServed'
  BY <1>1 DEF ResetQueued, QueuedIsServed, RegisteredEntries, Registered
<1>8. WorkersClean'
  BY DEF ResetQueued, WorkersClean, LoopRuns, worker
<1>9. LeavingSettled'
  BY <1>1, LeavingStill DEF ResetQueued, worker
<1> QED BY <1>3, <1>4, <1>5, <1>6, <1>7, <1>8, <1>9

\* A purge cancels what it removes.
LEMMA ClearEntriesInv ==
    ASSUME IndInv, NEW t \in Thread, ClearEntries(t)
    PROVE  IndInv'
<1> USE DEF IndInv
<1>0. entry \in [Entry -> EntryFields]
  BY DEF TypeOK
<1>1. \A e \in Entry : [entry[e] EXCEPT !.future = "cancelled"] \in EntryFields
  BY <1>0 DEF EntryFields, Future
<1>2. entry' \in [Entry -> EntryFields]
  BY <1>0, <1>1 DEF ClearEntries
<1>3. \A e \in Entry : entry'[e].key = entry[e].key /\ (Done(e) => Done(e)')
  BY <1>0 DEF ClearEntries, EntryFields, Done
<1>4. [at |-> "idle"] \in Call
  BY DEF Call
<1>5. call' \in [Thread -> Call] /\ SettledArrived' /\ StartsOwn'
  BY <1>3, <1>4, GotoInv DEF ClearEntries, Return, worker
<1>6. Registered' = {} /\ RegisteredEntries' = {}
  BY DEF ClearEntries, Registered, RegisteredEntries
<1>7. {} \in SUBSET Key /\ entries' \in [{} -> Entry]
  BY DEF ClearEntries
<1>8. \E S \in SUBSET Key : entries' \in [S -> Entry]
  BY <1>7
<1>9. TypeOK'
  BY <1>2, <1>5, <1>8 DEF ClearEntries, TypeOK, worker
<1>10. OwedIsRegistered'
  BY <1>6 DEF ClearEntries, OwedIsRegistered, Due
<1>11. KeysMatch' /\ QueuedIsServed'
  BY <1>6 DEF KeysMatch, QueuedIsServed
<1>12. WorkersClean'
  BY DEF ClearEntries, WorkersClean, LoopRuns, worker
<1>13. LeavingSettled'
  BY <1>3, <1>6, LeavingKept DEF ClearEntries, worker
<1> QED BY <1>5, <1>9, <1>10, <1>11, <1>12, <1>13

\* _entries without the key k.
LEMMA WithoutTyped ==
    ASSUME TypeOK, NEW k
    PROVE  /\ Without(k) \in [Registered \ {k} -> Entry]
           /\ DOMAIN Without(k) = Registered \ {k}
           /\ \A d \in Registered \ {k} : Without(k)[d] = entries[d]
           /\ \E S \in SUBSET Key : Without(k) \in [S -> Entry]
<1>1. Without(k) \in [Registered \ {k} -> Entry]
  BY EntriesTyped DEF Without
<1>2. Registered \ {k} \in SUBSET Key
  BY EntriesTyped
<1>3. \E S \in SUBSET Key : Without(k) \in [S -> Entry]
  BY <1>1, <1>2
<1> QED BY <1>1, <1>3 DEF Without

\* Removing a key whose write is not due forgets nothing that is due.
LEMMA RemoveArrived ==
    ASSUME IndInv, NEW k, k \notin Due,
           entries' = entries \/ entries' = Without(k),
           UNCHANGED history
    PROVE  /\ OwedIsRegistered'
           /\ \E S \in SUBSET Key : entries' \in [S -> Entry]
           /\ Registered' \subseteq Registered
           /\ RegisteredEntries' \subseteq RegisteredEntries
           /\ \A d \in Registered' : entries'[d] = entries[d]
<1> USE DEF IndInv
<1>1. \E S \in SUBSET Key : entries' \in [S -> Entry]
  <2>1. CASE entries' = entries
    BY <2>1 DEF TypeOK
  <2>2. CASE entries' = Without(k)
    BY <2>2, WithoutTyped
  <2> QED BY <2>1, <2>2
<1>2. Registered \ {k} \subseteq Registered' /\ Registered' \subseteq Registered
      /\ \A d \in Registered' : entries'[d] = entries[d]
  BY WithoutTyped DEF Registered
<1>3. OwedIsRegistered'
  BY <1>2 DEF OwedIsRegistered, Due, history
<1>4. RegisteredEntries' \subseteq RegisteredEntries
  BY <1>2 DEF RegisteredEntries
<1> QED BY <1>1, <1>2, <1>3, <1>4

\* A put that succeeded has stored the buffer before flush settles its future
\* or removes its key.
LEMMA PutBufferInv ==
    ASSUME IndInv, NEW t \in Thread, NEW k \in Checksum, NEW success \in BOOLEAN,
           PutBuffer(t, k, success)
    PROVE  IndInv'
<1> USE DEF IndInv
<1> DEFINE todo == call[t].todo \ {k}
           pop == [at |-> "pop", todo |-> todo, key |-> k]
           settle == [at |-> "settle", todo |-> todo, entry |-> entries[k]]
<1>0. /\ call \in [Thread -> Call] /\ call[t].at = "put"
      /\ todo \in SUBSET Checksum
      /\ UNCHANGED <<shared, worker, owed, overlooked>>
      /\ stored \subseteq stored' /\ stored' \subseteq Key
      /\ success => k \in stored'
  BY CallFields DEF TypeOK, PutBuffer, Key
<1>1. call' \in [Thread -> Call] /\ SettledArrived' /\ StartsOwn'
  <2>1. CASE success /\ k \in Registered
    <3>1. PICK c \in {pop, settle} : Goto(t, c) /\ (c = settle => ~Done(entries[k]))
      BY <2>1 DEF PutBuffer
    <3>2. entries[k] \in Entry /\ entry[entries[k]].key = k
      BY <2>1, EntriesTyped DEF KeysMatch
    <3>3. pop \in Call /\ settle \in Call
      BY <1>0, <3>2 DEF Call
    <3>4. call' \in [Thread -> Call] /\ \A u \in Thread : call'[u] = IF u = t THEN c ELSE call[u]
      BY <1>0, <3>1, <3>3 DEF Goto
    <3>5. SettledArrived'
      <4> SUFFICES ASSUME NEW u \in Thread
                   PROVE  /\ call'[u].at = "settle" =>
                                entry'[call'[u].entry].key \in stored' \intersect Checksum
                          /\ call'[u].at = "pop" => call'[u].key \in stored'
        BY DEF SettledArrived
      <4>1. CASE u # t
        BY <1>0, <3>4, <4>1 DEF SettledArrived, shared
      <4>2. CASE u = t /\ c = pop
        BY <1>0, <2>1, <3>4, <4>2
      <4>3. CASE u = t /\ c = settle
        BY <1>0, <2>1, <3>2, <3>4, <4>3 DEF shared
      <4> QED BY <3>1, <4>1, <4>2, <4>3
    <3>6. c.at # "start"
      BY <3>1
    <3>7. StartsOwn'
      BY <1>0, <3>4, <3>6 DEF StartsOwn, worker
    <3> QED BY <3>4, <3>5, <3>7
  <2>2. CASE ~(success /\ k \in Registered)
    <3>1. [at |-> "put", todo |-> todo] \in Call
      BY <1>0 DEF Call
    <3>2. Goto(t, [at |-> "put", todo |-> todo])
      BY <2>2 DEF PutBuffer
    <3> QED BY <1>0, <3>1, <3>2, GotoInv DEF shared, worker
  <2> QED BY <2>1, <2>2
<1>2. TypeOK'
  BY <1>0, <1>1 DEF TypeOK, shared, worker
<1>3. OwedIsRegistered' /\ KeysMatch'
  BY <1>0 DEF OwedIsRegistered, Due, KeysMatch, Registered, shared
<1>4. QueuedIsServed'
  BY <1>0 DEF QueuedIsServed, RegisteredEntries, Registered, Done, Alive, shared, worker
<1>5. WorkersClean'
  BY <1>0 DEF WorkersClean, LoopRuns, worker
<1>6. LeavingSettled'
  <2>1. \A d \in Registered' : d \in Due' => d \in Due
    BY <1>0 DEF Due
  <2> QED BY <1>0, <2>1, LeavingKept DEF Registered, shared, worker, Done
<1> QED BY <1>1, <1>2, <1>3, <1>4, <1>5, <1>6

\* Flush settles only the future of a write that arrived.
LEMMA SettleInv ==
    ASSUME IndInv, NEW t \in Thread, Settle(t)
    PROVE  IndInv'
<1> USE DEF IndInv
<1> DEFINE e == call[t].entry
<1>0. call \in [Thread -> Call] /\ call[t] \in Call /\ call[t].at = "settle"
      /\ e \in Entry /\ call[t].todo \in SUBSET Checksum
      /\ entry[e].key \in stored \intersect Checksum
      /\ entry \in [Entry -> EntryFields]
      /\ UNCHANGED <<entries, thread, loop, worker, history>>
  BY CallFields DEF TypeOK, Settle, SettledArrived
<1>1. CASE Done(e)
  <2>1. [at |-> "idle"] \in Call
    BY DEF Call
  <2> QED BY <1>0, <1>1, <2>1, MoveInv DEF Settle, Return, shared
<1>2. CASE ~Done(e)
  <2> DEFINE c == [at |-> "pop", todo |-> call[t].todo, key |-> entry[e].key]
  <2>2. c \in Call
    BY <1>0 DEF Call
  <2>3. call' = [call EXCEPT ![t] = c] /\ entry' = [entry EXCEPT ![e].future = "written"]
    BY <1>2 DEF Settle, Goto
  <2>4. /\ entry' \in [Entry -> EntryFields]
        /\ \A d \in Entry : /\ entry'[d].key = entry[d].key
                            /\ entry'[d].queued = entry[d].queued
                            /\ Done(d) => Done(d)'
    BY <1>0, <2>3 DEF EntryFields, Future, Done
  <2>5. call' \in [Thread -> Call] /\ \A u \in Thread : call'[u] = IF u = t THEN c ELSE call[u]
    BY <1>0, <2>2, <2>3
  <2>6. SettledArrived'
    BY <1>0, <2>4, <2>5, CallFields DEF SettledArrived, history
  <2>7. StartsOwn'
    BY <1>0, <2>5 DEF StartsOwn, worker
  <2>8. TypeOK'
    BY <1>0, <2>4, <2>5 DEF TypeOK, worker, history
  <2>9. OwedIsRegistered'
    BY <1>0 DEF OwedIsRegistered, Due, Registered, history
  <2>10. KeysMatch'
    BY <1>0, <2>4, EntriesTyped DEF KeysMatch, Registered
  <2>11. QueuedIsServed'
    BY <1>0, <2>4, EntriesTyped DEF QueuedIsServed, RegisteredEntries, Registered, Done,
                                    Alive, worker
  <2>12. WorkersClean'
    BY <1>0 DEF WorkersClean, LoopRuns, worker
  <2>13. LeavingSettled'
    BY <1>0, <2>4, LeavingStill DEF worker
  <2> QED BY <2>6, <2>7, <2>8, <2>9, <2>10, <2>11, <2>12, <2>13
<1> QED BY <1>1, <1>2

\* Flush removes the key of a write that arrived, whatever entry it has now.
LEMMA PopEntryInv ==
    ASSUME IndInv, NEW t \in Thread, PopEntry(t)
    PROVE  IndInv'
<1> USE DEF IndInv
<1> DEFINE k == call[t].key
           c == [at |-> "put", todo |-> call[t].todo]
<1>0. call \in [Thread -> Call] /\ call[t].todo \in SUBSET Checksum /\ k \in stored
      /\ entries' = Without(k) /\ Goto(t, c)
      /\ UNCHANGED <<entry, thread, loop, worker, history>>
  BY CallFields DEF TypeOK, PopEntry, SettledArrived
<1>1. c \in Call
  BY <1>0 DEF Call
<1>2. call' \in [Thread -> Call] /\ SettledArrived' /\ StartsOwn'
  BY <1>0, <1>1, GotoInv DEF worker, history
<1>3. k \notin Due
  BY <1>0 DEF Due
<1>4. /\ OwedIsRegistered'
      /\ \E S \in SUBSET Key : entries' \in [S -> Entry]
      /\ Registered' \subseteq Registered
      /\ RegisteredEntries' \subseteq RegisteredEntries
      /\ \A d \in Registered' : entries'[d] = entries[d]
  BY <1>0, <1>3, RemoveArrived
<1>5. TypeOK'
  BY <1>0, <1>2, <1>4 DEF TypeOK, worker, history
<1>6. KeysMatch'
  BY <1>0, <1>4 DEF KeysMatch
<1>7. QueuedIsServed'
  BY <1>0, <1>4 DEF QueuedIsServed, Done, Alive, worker
<1>8. WorkersClean'
  BY <1>0 DEF WorkersClean, LoopRuns, worker
<1>9. LeavingSettled'
  <2>1. Due' = Due
    BY <1>0 DEF Due, history
  <2> QED BY <1>0, <1>4, <2>1, LeavingKept DEF worker, Done
<1> QED BY <1>2, <1>4, <1>5, <1>6, <1>7, <1>8, <1>9

-----------------------------------------------------------------------------
(* Steps of the worker threads *)

\* An order of a finite set is a sequence of its elements, all of them.
LEMMA OrderComplete ==
    ASSUME NEW S, IsFiniteSet(S), NEW order \in SetToSeqs(S)
    PROVE  order \in Seq(S) /\ ToSet(order) = S
<1> DEFINE n == Cardinality(S)
           R == {order[i] : i \in 1..n}
<1>1. n \in Nat
  BY FS_CardinalityType
<1>2. order \in [1..n -> S] /\ \A i, j \in 1..n : i # j => order[i] # order[j]
  BY DEF SetToSeqs
<1>3. order \in Seq(S)
  BY <1>1, <1>2, IsASeq
<1>4. R \subseteq S
  BY <1>2
<1>5. order \in [1..n -> R] /\ \A x \in R : \E i \in 1..n : order[i] = x
  BY <1>2
<1>6. order \in Surjection(1..n, R) /\ order \in Injection(1..n, R)
  BY <1>2, <1>5 DEF Surjection, Injection, IsInjective
<1>7. IsFiniteSet(1..n) /\ Cardinality(1..n) = n
  BY <1>1, FS_Interval
<1>8. Cardinality(R) = n
  BY <1>6, <1>7, FS_Surjection
<1>9. R = S
  BY <1>4, <1>8, FS_Subset
<1>10. ToSet(order) = R
  BY <1>2 DEF ToSet
<1> QED BY <1>3, <1>9, <1>10

\* A worker that starts queues every pending entry, so marking them is honest.
LEMMA WorkerStartInv ==
    ASSUME IndInv, NEW w \in Worker, WorkerStart(w)
    PROVE  IndInv'
<1> USE DEF IndInv
<1>0. entry \in [Entry -> EntryFields] /\ RegisteredEntries \subseteq Entry
      /\ UNCHANGED <<entries, thread, inbox, tasks, popping, call, history>>
      /\ phase \in [Worker -> Phase] /\ phase[w] = "starting"
      /\ queue \in [Worker -> Seq(Entry \union {Stop})]
  BY EntriesTyped DEF TypeOK, WorkerStart
<1>1. \A e \in Entry : [entry[e] EXCEPT !.queued = TRUE] \in EntryFields
  BY <1>0 DEF EntryFields
<1>2. /\ entry' \in [Entry -> EntryFields]
      /\ \A e \in Entry : /\ entry'[e].key = entry[e].key
                          /\ entry'[e].future = entry[e].future
                          /\ e \notin Pending => entry'[e].queued = entry[e].queued
  BY <1>0, <1>1 DEF WorkerStart, EntryFields
<1>3. PICK order \in SetToSeqs(Pending) : queue' = [queue EXCEPT ![w] = order]
  BY DEF WorkerStart
<1>4. order \in Seq(Pending) /\ ToSet(order) = Pending
  <2>1. Pending \subseteq Entry
    BY <1>0 DEF Pending
  <2>2. IsFiniteSet(Pending)
    BY <2>1, FS_Subset, WorkerAssumption
  <2> QED BY <1>3, <2>2, OrderComplete
<1>5. /\ queue' \in [Worker -> Seq(Entry \union {Stop})]
      /\ \A v \in Worker : queue'[v] = IF v = w THEN order ELSE queue[v]
  <2>1. Pending \subseteq Entry \union {Stop}
    BY <1>0 DEF Pending
  <2>2. order \in Seq(Entry \union {Stop})
    BY <1>4, <2>1, SeqMonotonic
  <2> QED BY <1>0, <1>3, <2>2
<1>6. /\ phase' \in [Worker -> Phase] /\ loop' = w
      /\ \A v \in Worker : phase'[v] = IF v = w THEN "running" ELSE phase[v]
  BY <1>0 DEF WorkerStart, Phase
<1>7. call' \in [Thread -> Call] /\ SettledArrived' /\ StartsOwn'
  BY <1>0, <1>2, <1>6, CallsKept DEF history
<1>8. TypeOK'
  BY <1>0, <1>2, <1>5, <1>6, <1>7 DEF TypeOK, history
<1>9. OwedIsRegistered'
  BY <1>0 DEF OwedIsRegistered, Due, Registered, history
<1>10. KeysMatch'
  BY <1>0, <1>2, EntriesTyped DEF KeysMatch, Registered
<1>11. QueuedIsServed'
  <2>1. SUFFICES ASSUME NEW e \in RegisteredEntries', entry'[e].queued, ~Done(e)'
                 PROVE  \E v \in Worker : /\ Alive(v)'
                                          /\ e \in ToSet(queue'[v]) \/ tasks'[v][e] > 0
    BY DEF QueuedIsServed
  <2>2. e \in RegisteredEntries /\ e \in Entry /\ ~Done(e)
    BY <1>0, <1>2, <2>1 DEF RegisteredEntries, Registered, Done
  <2>3. CASE e \in Pending
    BY <1>4, <1>5, <1>6, <2>3 DEF Alive
  <2>4. CASE e \notin Pending
    <3>1. PICK v \in Worker : Alive(v) /\ (e \in ToSet(queue[v]) \/ tasks[v][e] > 0)
      BY <1>2, <2>1, <2>2, <2>4 DEF QueuedIsServed
    <3>2. v # w
      <4>1. queue[w] = <<>> /\ tasks[w][e] = 0
        BY <1>0, <2>2 DEF WorkersClean, LoopRuns
      <4>2. ToSet(queue[w]) = {}
        BY <4>1 DEF ToSet
      <4> QED BY <3>1, <4>1, <4>2
    <3> QED BY <1>0, <1>5, <1>6, <3>1, <3>2 DEF Alive
  <2> QED BY <2>3, <2>4
<1>12. WorkersClean'
  BY <1>0, <1>5, <1>6 DEF WorkersClean, LoopRuns
<1>13. LeavingSettled'
  BY <1>0, <1>2, LeavingStill DEF Done
<1> QED BY <1>7, <1>8, <1>9, <1>10, <1>11, <1>12, <1>13

\* What is appended to a queue joins what was there.
LEMMA AppendSet ==
    ASSUME NEW S, NEW q \in Seq(S), NEW x \in S
    PROVE  Append(q, x) \in Seq(S) /\ ToSet(Append(q, x)) = ToSet(q) \union {x}
<1>1. /\ Append(q, x) \in Seq(S) /\ Len(q) \in Nat
      /\ DOMAIN q = 1..Len(q) /\ DOMAIN Append(q, x) = 1..(Len(q) + 1)
      /\ \A i \in 1..Len(q) : Append(q, x)[i] = q[i]
      /\ Append(q, x)[Len(q) + 1] = x
  BY AppendProperties
<1> QED BY <1>1 DEF ToSet

\* What leaves a queue is its head.
LEMMA TailSet ==
    ASSUME NEW S, NEW q \in Seq(S), q # <<>>
    PROVE  /\ Head(q) \in S /\ Tail(q) \in Seq(S)
           /\ ToSet(q) \subseteq ToSet(Tail(q)) \union {Head(q)}
<1>1. /\ Head(q) \in S /\ Head(q) = q[1] /\ Tail(q) \in Seq(S)
      /\ Len(q) \in Nat \ {0} /\ Len(Tail(q)) = Len(q) - 1
      /\ DOMAIN q = 1..Len(q) /\ DOMAIN Tail(q) = 1..(Len(q) - 1)
      /\ \A i \in 1..(Len(q) - 1) : Tail(q)[i] = q[i + 1]
  BY HeadTailProperties, LenProperties, EmptySeq
<1>2. ASSUME NEW i \in DOMAIN q
      PROVE  q[i] = Head(q) \/ \E j \in DOMAIN Tail(q) : Tail(q)[j] = q[i]
  <2>1. CASE i = 1
    BY <1>1, <2>1
  <2>2. CASE i # 1
    <3>1. i - 1 \in DOMAIN Tail(q) /\ Tail(q)[i - 1] = q[i]
      BY <1>1, <2>2
    <3> QED BY <3>1
  <2> QED BY <2>1, <2>2
<1> QED BY <1>1, <1>2 DEF ToSet

\* A callback marks an entry and queues it in the same step.
LEMMA RunCallbackInv ==
    ASSUME IndInv, NEW w \in Worker, RunCallback(w)
    PROVE  IndInv'
<1> USE DEF IndInv
<1> DEFINE x == Head(inbox[w])
<1>0. /\ entry \in [Entry -> EntryFields] /\ RegisteredEntries \subseteq Entry
      /\ UNCHANGED <<entries, thread, loop, phase, tasks, popping, call, history>>
      /\ LoopRuns(w)
      /\ inbox \in [Worker -> Seq(Entry \union {Stop})]
      /\ queue \in [Worker -> Seq(Entry \union {Stop})]
  BY EntriesTyped DEF TypeOK, RunCallback
<1>1. x \in Entry \union {Stop} /\ Tail(inbox[w]) \in Seq(Entry \union {Stop})
  BY <1>0, TailSet DEF RunCallback
<1>2. inbox' \in [Worker -> Seq(Entry \union {Stop})]
  BY <1>0, <1>1 DEF RunCallback
<1>10. ASSUME NEW y \in Entry \union {Stop}
      PROVE  /\ Append(queue[w], y) \in Seq(Entry \union {Stop})
             /\ ToSet(Append(queue[w], y)) = ToSet(queue[w]) \union {y}
  <2> DEFINE T == Entry \union {Stop}
  <2>1. y \in T /\ queue[w] \in Seq(T)
    BY <1>0
  <2> HIDE DEF T
  <2>2. Append(queue[w], y) \in Seq(T) /\ ToSet(Append(queue[w], y)) = ToSet(queue[w]) \union {y}
    BY ONLY <2>1, AppendSet
  <2> QED BY <2>2 DEF T
<1>3. /\ queue' \in [Worker -> Seq(Entry \union {Stop})]
      /\ \A v \in Worker : ToSet(queue[v]) \subseteq ToSet(queue'[v])
      /\ \A v \in Worker : v # w => queue'[v] = queue[v]
      /\ entry' \in [Entry -> EntryFields]
      /\ \A e \in Entry : entry'[e].key = entry[e].key /\ entry'[e].future = entry[e].future
      /\ \A e \in Entry : entry'[e].queued => entry[e].queued \/ e \in ToSet(queue'[w])
  <2>1. CASE x = Stop
    <3>1. queue' = [queue EXCEPT ![w] = Append(@, Stop)] /\ entry' = entry
      BY <2>1 DEF RunCallback
    <3>2. /\ Append(queue[w], Stop) \in Seq(Entry \union {Stop})
          /\ ToSet(queue[w]) \subseteq ToSet(Append(queue[w], Stop))
      BY <1>10
    <3>3. /\ queue' \in [Worker -> Seq(Entry \union {Stop})]
          /\ queue'[w] = Append(queue[w], Stop)
          /\ \A v \in Worker : v # w => queue'[v] = queue[v]
      BY <1>0, <3>1, <3>2
    <3> QED BY <1>0, <3>1, <3>2, <3>3
  <2>2. CASE x # Stop /\ (Done(x) \/ entry[x].queued)
    BY <1>0, <2>2 DEF RunCallback, Enqueue
  <2>3. CASE x # Stop /\ ~(Done(x) \/ entry[x].queued)
    <3>1. /\ queue' = [queue EXCEPT ![w] = Append(@, x)]
          /\ entry' = [entry EXCEPT ![x].queued = TRUE]
      BY <2>3 DEF RunCallback, Enqueue
    <3>2. x \in Entry
      BY <1>1, <2>3
    <3>3. /\ Append(queue[w], x) \in Seq(Entry \union {Stop})
          /\ ToSet(Append(queue[w], x)) = ToSet(queue[w]) \union {x}
      BY <1>1, <1>10
    <3>4. /\ entry' \in [Entry -> EntryFields]
          /\ \A e \in Entry : entry'[e].key = entry[e].key /\ entry'[e].future = entry[e].future
          /\ \A e \in Entry : e # x => entry'[e].queued = entry[e].queued
      BY <1>0, <3>1, <3>2 DEF EntryFields
    <3>5. /\ queue' \in [Worker -> Seq(Entry \union {Stop})]
          /\ queue'[w] = Append(queue[w], x)
          /\ \A v \in Worker : v # w => queue'[v] = queue[v]
      BY <1>0, <3>1, <3>3
    <3> QED BY <3>2, <3>3, <3>4, <3>5
  <2> QED BY <2>1, <2>2, <2>3
<1>4. call' \in [Thread -> Call] /\ SettledArrived' /\ StartsOwn'
  BY <1>0, <1>3, CallsKept DEF history
<1>5. TypeOK'
  BY <1>0, <1>2, <1>3, <1>4 DEF TypeOK, history
<1>6. OwedIsRegistered'
  BY <1>0 DEF OwedIsRegistered, Due, Registered, history
<1>7. KeysMatch'
  BY <1>0, <1>3, EntriesTyped DEF KeysMatch, Registered
<1>8. QueuedIsServed'
  <2>1. SUFFICES ASSUME NEW e \in RegisteredEntries', entry'[e].queued, ~Done(e)'
                 PROVE  \E v \in Worker : /\ Alive(v)'
                                          /\ e \in ToSet(queue'[v]) \/ tasks'[v][e] > 0
    BY DEF QueuedIsServed
  <2>2. e \in RegisteredEntries /\ e \in Entry /\ ~Done(e)
    BY <1>0, <1>3, <2>1 DEF RegisteredEntries, Registered, Done
  <2>3. CASE entry[e].queued
    BY <1>0, <1>3, <2>2, <2>3 DEF QueuedIsServed, Alive
  <2>4. CASE e \in ToSet(queue'[w])
    BY <1>0, <2>4 DEF Alive, LoopRuns
  <2> QED BY <1>3, <2>1, <2>2, <2>3, <2>4
<1>9. WorkersClean'
  BY <1>0, <1>3 DEF WorkersClean, LoopRuns
<1>11. LeavingSettled'
  BY <1>0, <1>3, LeavingStill DEF Done
<1> QED BY <1>4, <1>5, <1>6, <1>7, <1>8, <1>9, <1>11

\* A taken entry becomes a task, unless it is done: nothing that is marked
\* and pending leaves the queue for nowhere.
LEMMA TakeItemInv ==
    ASSUME IndInv, NEW w \in Worker, TakeItem(w)
    PROVE  IndInv'
<1> USE DEF IndInv
<1> DEFINE x == Head(queue[w])
           T == Entry \union {Stop}
<1>0. /\ UNCHANGED <<shared, inbox, popping, call, history>>
      /\ phase \in [Worker -> Phase] /\ phase[w] = "running"
      /\ queue \in [Worker -> Seq(T)] /\ queue[w] # <<>>
      /\ queue' = [queue EXCEPT ![w] = Tail(@)]
      /\ tasks \in [Worker -> [Entry -> Nat]]
      /\ RegisteredEntries \subseteq Entry
  BY EntriesTyped DEF TypeOK, TakeItem
<1>1. /\ x \in T /\ Tail(queue[w]) \in Seq(T)
      /\ ToSet(queue[w]) \subseteq ToSet(Tail(queue[w])) \union {x}
  <2>1. queue[w] \in Seq(T) /\ queue[w] # <<>>
    BY <1>0
  <2> HIDE DEF T
  <2> QED BY ONLY <2>1, TailSet
<1>2. /\ queue' \in [Worker -> Seq(T)]
      /\ \A v \in Worker : queue'[v] = IF v = w THEN Tail(queue[w]) ELSE queue[v]
  <2> HIDE DEF T
  <2> QED BY <1>0, <1>1
<1>3. /\ phase' \in [Worker -> Phase]
      /\ \A v \in Worker : phase'[v] = phase[v] \/ (v = w /\ phase'[v] = "draining")
      /\ tasks' \in [Worker -> [Entry -> Nat]]
      /\ \A v \in Worker : v # w => tasks'[v] = tasks[v]
      /\ \A e \in Entry : tasks'[w][e] >= tasks[w][e]
      /\ x # Stop /\ ~Done(x) => tasks'[w][x] > 0
  <2>1. CASE x = Stop
    <3>1. phase' = [phase EXCEPT ![w] = "draining"] /\ tasks' = tasks
      BY <2>1 DEF TakeItem
    <3>2. phase' \in [Worker -> Phase]
          /\ \A v \in Worker : phase'[v] = phase[v] \/ (v = w /\ phase'[v] = "draining")
      BY <1>0, <3>1 DEF Phase
    <3>3. \A e \in Entry : tasks[w][e] \in Nat
      BY <1>0
    <3> QED BY <1>0, <2>1, <3>1, <3>2, <3>3
  <2>2. CASE x # Stop /\ Done(x)
    BY <1>0, <2>2 DEF TakeItem
  <2>3. CASE x # Stop /\ ~Done(x)
    <3>1. x \in Entry
      BY <1>1, <2>3
    <3>2. tasks' = [tasks EXCEPT ![w][x] = @ + 1] /\ phase' = phase
      BY <2>3 DEF TakeItem
    <3>3. [tasks[w] EXCEPT ![x] = @ + 1] \in [Entry -> Nat]
      BY <1>0, <3>1
    <3>4. tasks' = [tasks EXCEPT ![w] = [tasks[w] EXCEPT ![x] = @ + 1]]
      BY <3>2
    <3>5. /\ tasks' \in [Worker -> [Entry -> Nat]]
          /\ tasks'[w] = [tasks[w] EXCEPT ![x] = @ + 1]
          /\ \A v \in Worker : v # w => tasks'[v] = tasks[v]
      BY <1>0, <3>3, <3>4
    <3>6. /\ \A e \in Entry : tasks[w][e] \in Nat
          /\ \A e \in Entry : tasks'[w][e] = IF e = x THEN tasks[w][x] + 1 ELSE tasks[w][e]
      BY <1>0, <3>1, <3>5
    <3>7. \A e \in Entry : tasks'[w][e] >= tasks[w][e]
      BY <3>6
    <3>8. tasks'[w][x] > 0
      BY <3>1, <3>6
    <3> QED BY <1>0, <3>2, <3>5, <3>7, <3>8
  <2> QED BY <2>1, <2>2, <2>3
<1>4. call' \in [Thread -> Call] /\ SettledArrived' /\ StartsOwn'
  BY <1>0, <1>3, CallsKept DEF shared, history
<1>5. TypeOK'
  BY <1>0, <1>2, <1>3, <1>4 DEF TypeOK, shared, history
<1>6. OwedIsRegistered' /\ KeysMatch'
  BY <1>0 DEF OwedIsRegistered, Due, KeysMatch, Registered, shared, history
<1>7. QueuedIsServed'
  <2>1. SUFFICES ASSUME NEW e \in RegisteredEntries', entry'[e].queued, ~Done(e)'
                 PROVE  \E v \in Worker : /\ Alive(v)'
                                          /\ e \in ToSet(queue'[v]) \/ tasks'[v][e] > 0
    BY DEF QueuedIsServed
  <2>2. e \in RegisteredEntries /\ e \in Entry /\ ~Done(e) /\ entry[e].queued
    BY <1>0, <2>1 DEF RegisteredEntries, Registered, Done, shared
  <2>3. PICK v \in Worker : Alive(v) /\ (e \in ToSet(queue[v]) \/ tasks[v][e] > 0)
    BY <2>2 DEF QueuedIsServed
  <2>4. Alive(v)'
    BY <1>3, <2>3 DEF Alive
  <2>5. CASE v # w
    BY <1>2, <1>3, <2>3, <2>4, <2>5
  <2>6. CASE v = w /\ tasks[w][e] > 0
    <3>1. tasks'[w][e] > 0
      <4>1. tasks[w] \in [Entry -> Nat] /\ tasks'[w] \in [Entry -> Nat]
        BY <1>0, <1>3
      <4>2. tasks[w][e] \in Nat /\ tasks'[w][e] \in Nat
        BY <2>2, <4>1
      <4>3. tasks'[w][e] >= tasks[w][e]
        BY <1>3, <2>2
      <4> QED BY <2>6, <4>2, <4>3
    <3> QED BY <2>4, <2>6, <3>1
  <2>7. CASE v = w /\ e \in ToSet(queue[w])
    <3>1. e \in ToSet(queue'[w]) \/ e = x
      BY <1>1, <1>2, <2>7
    <3>2. CASE e \in ToSet(queue'[w])
      BY <2>4, <2>7, <3>2
    <3>3. CASE e = x
      <4>1. x # Stop
        BY <2>2, <3>3, WorkerAssumption
      <4> QED BY <1>3, <2>2, <2>4, <2>7, <3>3, <4>1
    <3> QED BY <3>1, <3>2, <3>3
  <2> QED BY <2>3, <2>5, <2>6, <2>7
<1>8. WorkersClean'
  <2>1. SUFFICES ASSUME NEW v \in Worker
                 PROVE  /\ ~LoopRuns(v)' =>
                            \A e \in Entry : tasks'[v][e] = 0 /\ popping'[v][e] = 0
                        /\ phase'[v] \in {"ended", "created", "starting"} => queue'[v] = <<>>
    BY DEF WorkersClean
  <2>2. CASE v = w
    BY <1>0, <1>3, <2>2 DEF LoopRuns
  <2>3. CASE v # w
    <3>1. phase'[v] = phase[v] /\ tasks'[v] = tasks[v] /\ queue'[v] = queue[v]
      <4> HIDE DEF T
      <4> QED BY <1>2, <1>3, <2>3
    <3> QED BY <1>0, <3>1 DEF LoopRuns, WorkersClean
  <2> QED BY <2>2, <2>3
<1>9. LeavingSettled'
  BY <1>0, LeavingStill DEF shared, Done
<1> QED BY <1>4, <1>5, <1>6, <1>7, <1>8, <1>9

\* A count of a worker's tasks that goes up or down by one.
LEMMA CountTyped ==
    ASSUME NEW f \in [Worker -> [Entry -> Nat]], NEW w \in Worker, NEW e \in Entry,
           NEW n \in Nat
    PROVE  LET g == [f EXCEPT ![w][e] = n]
           IN  /\ g \in [Worker -> [Entry -> Nat]]
               /\ \A v \in Worker, d \in Entry :
                    g[v][d] = IF v = w /\ d = e THEN n ELSE f[v][d]
<1> DEFINE h == [f[w] EXCEPT ![e] = n]
<1>1. h \in [Entry -> Nat] /\ \A d \in Entry : h[d] = IF d = e THEN n ELSE f[w][d]
  OBVIOUS
<1>2. [f EXCEPT ![w][e] = n] = [f EXCEPT ![w] = h]
  OBVIOUS
<1> HIDE DEF h
<1> QED BY <1>1, <1>2

\* A task that settles its entry leaves it registered: its write is no longer
\* due, because it arrived, was refused or was given up.
LEMMA SettleTaskInv ==
    ASSUME IndInv, NEW w \in Worker, NEW e \in Entry, NEW raises \in BOOLEAN,
           NEW result \in {"written", "refused", "failed"},
           SettleTask(w, e, result, raises)
    PROVE  IndInv'
<1> USE DEF IndInv
<1> DEFINE k == entry[e].key
<1>0. /\ UNCHANGED <<entries, thread, loop, phase, inbox, queue, call, overlooked>>
      /\ tasks \in [Worker -> [Entry -> Nat]] /\ tasks[w][e] > 0
      /\ popping \in [Worker -> [Entry -> Nat]]
      /\ entry \in [Entry -> EntryFields] /\ k \in Key
      /\ RegisteredEntries \subseteq Entry /\ LoopRuns(w)
      /\ tasks[w][e] - 1 \in Nat /\ popping[w][e] + 1 \in Nat
  <2>1. /\ UNCHANGED <<entries, thread, loop, phase, inbox, queue, call, overlooked>>
        /\ tasks[w][e] > 0 /\ LoopRuns(w)
    BY DEF SettleTask
  <2>2. /\ tasks \in [Worker -> [Entry -> Nat]] /\ popping \in [Worker -> [Entry -> Nat]]
        /\ entry \in [Entry -> EntryFields] /\ RegisteredEntries \subseteq Entry
    BY EntriesTyped DEF TypeOK
  <2>3. tasks[w][e] \in Nat /\ popping[w][e] \in Nat
    BY <2>2
  <2> QED BY <2>1, <2>2, <2>3 DEF EntryFields
<1>1. /\ entry' \in [Entry -> EntryFields]
      /\ entry'[e].future # "pending"
      /\ \A d \in Entry : /\ entry'[d].key = entry[d].key
                          /\ entry'[d].queued = entry[d].queued
                          /\ Done(d) => Done(d)'
      /\ \A d \in Entry : d # e => entry'[d] = entry[d]
  <2>1. entry' = [entry EXCEPT ![e].future = Outcome(e, result)]
    BY DEF SettleTask
  <2>2. Outcome(e, result) \in Future \ {"pending"}
    BY <1>0 DEF Outcome, Done, Future, EntryFields
  <2> QED BY <1>0, <2>1, <2>2 DEF EntryFields, Done
<1>2. /\ tasks' \in [Worker -> [Entry -> Nat]]
      /\ \A v \in Worker, d \in Entry : ~(v = w /\ d = e) => tasks'[v][d] = tasks[v][d]
  <2>1. tasks' = [tasks EXCEPT ![w][e] = tasks[w][e] - 1]
    BY DEF SettleTask
  <2> QED BY <1>0, <2>1, CountTyped
<1>3. /\ popping' \in [Worker -> [Entry -> Nat]]
      /\ \A v \in Worker, d \in Entry : popping'[v][d] = popping[v][d]
            \/ (v = w /\ d = e /\ Forgets(e, result))
  <2>1. CASE Forgets(e, result) /\ ~raises
    <3>1. popping' = [popping EXCEPT ![w][e] = popping[w][e] + 1]
      BY <2>1 DEF SettleTask
    <3> QED BY <1>0, <2>1, <3>1, CountTyped
  <2>2. CASE ~(Forgets(e, result) /\ ~raises)
    BY <1>0, <2>2 DEF SettleTask
  <2> QED BY <2>1, <2>2
<1>4. /\ stored \subseteq stored' /\ stored' \subseteq Key
      /\ owed' \subseteq owed /\ owed' \subseteq Key
      /\ Forgets(e, result) /\ Listed(e) => k \in stored' \/ k \notin owed'
  BY <1>0 DEF SettleTask, TypeOK, Listed
<1>5. call' \in [Thread -> Call] /\ SettledArrived' /\ StartsOwn'
  BY <1>0, <1>1, <1>4, CallsKept
<1>6. TypeOK'
  BY <1>0, <1>1, <1>2, <1>3, <1>4, <1>5 DEF TypeOK
<1>7. Registered' = Registered /\ RegisteredEntries' = RegisteredEntries
      /\ Due' \subseteq Due
  BY <1>0, <1>4 DEF Registered, RegisteredEntries, Due
<1>8. OwedIsRegistered'
  BY <1>7 DEF OwedIsRegistered
<1>9. KeysMatch'
  BY <1>0, <1>1, <1>7, EntriesTyped DEF KeysMatch
<1>10. QueuedIsServed'
  <2>1. SUFFICES ASSUME NEW d \in RegisteredEntries', entry'[d].queued, ~Done(d)'
                 PROVE  \E v \in Worker : /\ Alive(v)'
                                          /\ d \in ToSet(queue'[v]) \/ tasks'[v][d] > 0
    BY DEF QueuedIsServed
  <2>2. d \in RegisteredEntries /\ d \in Entry /\ d # e
    BY <1>0, <1>1, <1>7, <2>1 DEF Done
  <2>3. entry[d].queued /\ ~Done(d)
    BY <1>1, <2>1, <2>2 DEF Done
  <2>4. PICK v \in Worker : Alive(v) /\ (d \in ToSet(queue[v]) \/ tasks[v][d] > 0)
    BY <2>2, <2>3 DEF QueuedIsServed
  <2>5. Alive(v)' /\ queue'[v] = queue[v]
    BY <1>0, <2>4 DEF Alive
  <2>6. tasks'[v][d] = tasks[v][d]
    BY <1>2, <2>2
  <2> QED BY <2>4, <2>5, <2>6
<1>11. WorkersClean'
  <2>1. ASSUME NEW v \in Worker, ~LoopRuns(v)', NEW d \in Entry
        PROVE  tasks'[v][d] = 0 /\ popping'[v][d] = 0
    <3>1. v # w /\ ~LoopRuns(v)
      BY <1>0, <2>1 DEF LoopRuns
    <3>2. tasks[v][d] = 0 /\ popping[v][d] = 0
      BY <3>1 DEF WorkersClean
    <3> QED BY <1>2, <1>3, <3>1, <3>2
  <2> QED BY <1>0, <2>1 DEF WorkersClean
<1>12. LeavingSettled'
  <2> SUFFICES ASSUME NEW d \in Entry, Leaving(d)'
               PROVE  Done(d)' /\ (Listed(d)' => entry'[d].key \notin Due')
    BY DEF LeavingSettled
  <2>1. Listed(d)' <=> Listed(d)
    BY <1>0, <1>1, <1>7 DEF Listed
  <2>2. CASE Leaving(d)
    BY <1>1, <1>7, <2>1, <2>2 DEF LeavingSettled
  <2>3. CASE ~Leaving(d)
    <3>1. d = e /\ Forgets(e, result)
      BY <1>3, <2>3 DEF Leaving
    <3>2. Done(e)'
      BY <1>1 DEF Done
    <3> QED BY <1>1, <1>4, <2>1, <3>1, <3>2 DEF Due
  <2> QED BY <2>2, <2>3
<1> QED BY <1>5, <1>6, <1>8, <1>9, <1>10, <1>11, <1>12

\* Removing the entry afterwards forgets nothing that is due: who registered the
\* key in between counts as overlooked.
LEMMA DropEntryInv ==
    ASSUME IndInv, NEW w \in Worker, NEW e \in Entry, DropEntry(w, e)
    PROVE  IndInv'
<1> USE DEF IndInv
<1> DEFINE k == entry[e].key
<1>0. /\ UNCHANGED <<entry, thread, loop, phase, inbox, queue, tasks, call, history>>
      /\ popping \in [Worker -> [Entry -> Nat]] /\ popping[w][e] > 0
      /\ popping[w][e] - 1 \in Nat /\ LoopRuns(w)
      /\ entries' = IF Listed(e) THEN Without(k) ELSE entries
  <2>1. popping \in [Worker -> [Entry -> Nat]] /\ popping[w][e] > 0
    BY DEF TypeOK, DropEntry
  <2>2. popping[w][e] \in Nat
    BY <2>1
  <2> QED BY <2>1, <2>2 DEF DropEntry
<1>1. /\ popping' \in [Worker -> [Entry -> Nat]]
      /\ \A v \in Worker, d \in Entry :
            popping'[v][d] = IF v = w /\ d = e THEN popping[w][e] - 1 ELSE popping[v][d]
  <2>1. popping' = [popping EXCEPT ![w][e] = popping[w][e] - 1]
    BY DEF DropEntry
  <2> QED BY <1>0, <2>1, CountTyped
<1>2. \A d \in Entry : Leaving(d)' => Leaving(d)
  <2> SUFFICES ASSUME NEW d \in Entry, NEW v \in Worker, popping'[v][d] > 0
               PROVE  popping[v][d] > 0
    BY DEF Leaving
  <2> QED BY <1>0, <1>1
<1>3. Leaving(e) /\ (Listed(e) => k \notin Due)
  BY <1>0 DEF Leaving, LeavingSettled
<1>4. /\ OwedIsRegistered'
      /\ \E S \in SUBSET Key : entries' \in [S -> Entry]
      /\ Registered' \subseteq Registered
      /\ RegisteredEntries' \subseteq RegisteredEntries
      /\ \A d \in Registered' : entries'[d] = entries[d]
  <2>1. CASE Listed(e)
    BY <1>0, <1>3, <2>1, RemoveArrived
  <2>2. CASE ~Listed(e)
    BY <1>0, <2>2 DEF OwedIsRegistered, Due, Registered, RegisteredEntries, TypeOK, history
  <2> QED BY <2>1, <2>2
<1>5. call' \in [Thread -> Call] /\ SettledArrived' /\ StartsOwn'
  BY <1>0, CallsKept DEF history
<1>6. TypeOK'
  BY <1>0, <1>1, <1>4, <1>5 DEF TypeOK, history
<1>7. KeysMatch'
  BY <1>0, <1>4 DEF KeysMatch
<1>8. QueuedIsServed'
  BY <1>0, <1>4 DEF QueuedIsServed, Done, Alive
<1>9. WorkersClean'
  <2>1. ASSUME NEW v \in Worker, ~LoopRuns(v)', NEW d \in Entry
        PROVE  tasks'[v][d] = 0 /\ popping'[v][d] = 0
    <3>1. v # w /\ ~LoopRuns(v)
      BY <1>0, <2>1 DEF LoopRuns
    <3> QED BY <1>0, <1>1, <3>1 DEF WorkersClean
  <2> QED BY <1>0, <2>1 DEF WorkersClean
<1>10. LeavingSettled'
  <2> SUFFICES ASSUME NEW d \in Entry, Leaving(d)'
               PROVE  Done(d)' /\ (Listed(d)' => entry'[d].key \notin Due')
    BY DEF LeavingSettled
  <2>1. Done(d)' /\ (Listed(d) => entry[d].key \notin Due) /\ entry' = entry
    BY <1>0, <1>2 DEF LeavingSettled, Done
  <2>2. Due' = Due
    BY <1>0 DEF Due, history
  <2>3. Listed(d)' => Listed(d)
    BY <1>0, <1>4 DEF Listed
  <2> QED BY <2>1, <2>2, <2>3
<1> QED BY <1>4, <1>5, <1>6, <1>7, <1>8, <1>9, <1>10

\* A loop is closed only after its last task; its queue goes later.
LEMMA CloseLoopInv ==
    ASSUME IndInv, NEW w \in Worker, CloseLoop(w)
    PROVE  IndInv'
<1> USE DEF IndInv
<1>0. /\ UNCHANGED <<shared, inbox, queue, tasks, popping, call, history>>
      /\ phase \in [Worker -> Phase] /\ phase[w] = "draining"
      /\ \A e \in Entry : tasks[w][e] = 0 /\ popping[w][e] = 0
  BY DEF TypeOK, CloseLoop
<1>1. /\ phase' \in [Worker -> Phase]
      /\ \A v \in Worker : phase'[v] = IF v = w THEN "closed" ELSE phase[v]
  BY <1>0 DEF CloseLoop, Phase
<1>2. call' \in [Thread -> Call] /\ SettledArrived' /\ StartsOwn'
  BY <1>0, <1>1, CallsKept DEF shared, history
<1>3. TypeOK'
  BY <1>0, <1>1, <1>2 DEF TypeOK, shared, history
<1>4. OwedIsRegistered' /\ KeysMatch'
  BY <1>0 DEF OwedIsRegistered, Due, KeysMatch, Registered, shared, history
<1>5. QueuedIsServed'
  BY <1>0, <1>1 DEF QueuedIsServed, RegisteredEntries, Registered, Done, Alive, shared
<1>6. WorkersClean'
  BY <1>0, <1>1 DEF WorkersClean, LoopRuns
<1>7. LeavingSettled'
  BY <1>0, LeavingStill DEF shared, Done
<1> QED BY <1>2, <1>3, <1>4, <1>5, <1>6, <1>7

\* A worker that ends drops its queue, so it clears every flag.
LEMMA EndWorkerInv ==
    ASSUME IndInv, NEW w \in Worker, EndWorker(w)
    PROVE  IndInv'
<1> USE DEF IndInv
<1>0. /\ UNCHANGED <<entries, tasks, popping, call, history>>
      /\ phase \in [Worker -> Phase] /\ phase[w] = "closed"
      /\ thread' = Nobody /\ loop' = Nobody
      /\ inbox \in [Worker -> Seq(Entry \union {Stop})]
      /\ queue \in [Worker -> Seq(Entry \union {Stop})]
  BY DEF TypeOK, EndWorker
<1>1. /\ entry' \in [Entry -> EntryFields]
      /\ \A e \in Entry : entry'[e].key = entry[e].key /\ (Done(e) => Done(e)')
      /\ \A e \in RegisteredEntries : ~entry'[e].queued
  BY AllUnqueuedTyped DEF EndWorker
<1>2. /\ phase' \in [Worker -> Phase]
      /\ \A v \in Worker : phase'[v] = IF v = w THEN "ended" ELSE phase[v]
  BY <1>0 DEF EndWorker, Phase
<1>3. <<>> \in Seq(Entry \union {Stop})
  BY EmptySeq
<1>4. /\ inbox' \in [Worker -> Seq(Entry \union {Stop})]
      /\ queue' \in [Worker -> Seq(Entry \union {Stop})]
      /\ \A v \in Worker : queue'[v] = IF v = w THEN <<>> ELSE queue[v]
  BY <1>0, <1>3 DEF EndWorker
<1>5. call' \in [Thread -> Call] /\ SettledArrived' /\ StartsOwn'
  BY <1>0, <1>1, <1>2, CallsKept DEF history
<1>6. TypeOK'
  BY <1>0, <1>1, <1>2, <1>4, <1>5 DEF TypeOK, history
<1>7. OwedIsRegistered'
  BY <1>0 DEF OwedIsRegistered, Due, Registered, history
<1>8. KeysMatch'
  BY <1>0, <1>1, EntriesTyped DEF KeysMatch, Registered
<1>9. QueuedIsServed'
  BY <1>0, <1>1 DEF QueuedIsServed, RegisteredEntries, Registered
<1>10. WorkersClean'
  BY <1>0, <1>2, <1>4 DEF WorkersClean, LoopRuns
<1>11. LeavingSettled'
  BY <1>0, <1>1, LeavingStill
<1> QED BY <1>5, <1>6, <1>7, <1>8, <1>9, <1>10, <1>11

-----------------------------------------------------------------------------
(* The theorems *)

\* The invariant holds when the module has been imported.
LEMMA InitIndInv == Init => IndInv
<1> SUFFICES ASSUME Init PROVE IndInv
  OBVIOUS
<1> USE DEF Init
<1>1. (CHOOSE k \in Key : TRUE) \in Key
  BY KeyAssumption DEF Key
<1>2. entry \in [Entry -> EntryFields]
  BY <1>1 DEF EntryFields, Future
<1>3. {} \in SUBSET Key /\ entries \in [{} -> Entry]
  OBVIOUS
<1>4. \E S \in SUBSET Key : entries \in [S -> Entry]
  BY <1>3
<1>5. <<>> \in Seq(Entry \union {Stop})
  BY EmptySeq
<1>6. call \in [Thread -> Call]
  BY DEF Call
<1>7. TypeOK
  BY <1>2, <1>4, <1>5, <1>6 DEF TypeOK, Phase
<1>8. Registered = {} /\ RegisteredEntries = {}
  BY DEF Registered, RegisteredEntries
<1>9. OwedIsRegistered /\ QueuedIsServed /\ KeysMatch
  BY <1>8 DEF OwedIsRegistered, Due, QueuedIsServed, KeysMatch
<1>10. SettledArrived /\ StartsOwn
  BY DEF SettledArrived, StartsOwn
<1>11. WorkersClean
  BY DEF WorkersClean
<1>12. LeavingSettled
  BY DEF LeavingSettled, Leaving
<1> QED BY <1>7, <1>9, <1>10, <1>11, <1>12 DEF IndInv

\* Every step of a thread or of a worker keeps the invariant.
LEMMA NextIndInv == IndInv /\ [Next]_vars => IndInv'
<1> SUFFICES ASSUME IndInv, [Next]_vars PROVE IndInv'
  OBVIOUS
<1>1. ASSUME NEW t \in Thread, Enter(t) PROVE IndInv'
  BY <1>1, RegisterAgainInv, RegisterNewInv, MovesInv DEF Enter, Register
<1>2. ASSUME NEW t \in Thread, EnterStop(t) PROVE IndInv'
  BY <1>2, MovesInv DEF EnterStop
<1>3. ASSUME NEW t \in Thread, Continue(t) PROVE IndInv'
  <2>1. CASE EnsureWorker(t) \/ StartWorker(t) \/ Submit(t)
    BY <2>1, EnsureWorkerInv, StartWorkerInv, SubmitInv
  <2>2. CASE RequestStop(t) \/ ResetQueued(t) \/ ClearEntries(t)
    BY <2>2, RequestStopInv, ResetQueuedInv, ClearEntriesInv
  <2>3. CASE \/ \E k \in Checksum, success \in BOOLEAN : PutBuffer(t, k, success)
             \/ Settle(t) \/ PopEntry(t)
    BY <2>3, PutBufferInv, SettleInv, PopEntryInv
  <2>4. CASE \/ Await_Return(t) \/ ReadLoop(t) \/ ReadWorker(t) \/ Join(t) \/ AllPut(t)
             \/ \E server \in BOOLEAN : Drained(t, server)
    BY <2>4, MovesInv
  <2> QED BY <1>3, <2>1, <2>2, <2>3, <2>4 DEF Continue
<1>4. ASSUME NEW w \in Worker, Work(w) PROVE IndInv'
  <2>1. CASE WorkerStart(w) \/ RunCallback(w) \/ TakeItem(w)
    BY <2>1, WorkerStartInv, RunCallbackInv, TakeItemInv
  <2>2. CASE \E e \in Entry :
                \/ \E result \in {"written", "refused", "failed"}, raises \in BOOLEAN :
                        SettleTask(w, e, result, raises)
                \/ DropEntry(w, e)
    BY <2>2, SettleTaskInv, DropEntryInv
  <2>3. CASE CloseLoop(w) \/ EndWorker(w)
    BY <2>3, CloseLoopInv, EndWorkerInv
  <2> QED BY <1>4, <2>1, <2>2, <2>3 DEF Work
<1>5. CASE UNCHANGED vars
  <2>1. UNCHANGED <<shared, worker, call, history>>
    BY <1>5 DEF vars
  <2>2. TypeOK'
    BY <2>1 DEF IndInv, TypeOK, shared, worker, history
  <2>3. OwedIsRegistered' /\ KeysMatch' /\ SettledArrived'
    BY <2>1 DEF IndInv, OwedIsRegistered, Due, KeysMatch, SettledArrived, Registered,
                shared, history
  <2>4. QueuedIsServed'
    BY <2>1 DEF IndInv, QueuedIsServed, RegisteredEntries, Registered, Done, Alive,
                shared, worker
  <2>5. WorkersClean' /\ StartsOwn'
    BY <2>1 DEF IndInv, WorkersClean, StartsOwn, LoopRuns, worker
  <2>6. LeavingSettled'
    BY <2>1, LeavingStill DEF shared, worker, Done
  <2> QED BY <2>2, <2>3, <2>4, <2>5, <2>6 DEF IndInv
<1> QED BY <1>1, <1>2, <1>3, <1>4, <1>5 DEF Next

\* IndInv is an invariant of the writer.
THEOREM SpecIndInv == Spec => []IndInv
BY InitIndInv, NextIndInv, PTL DEF Spec

\* Every variable keeps its type: in particular, _entries maps keys to entries
\* and no task count goes below zero.
THEOREM TypeCorrect == Spec => []TypeOK
<1>1. IndInv => TypeOK
  BY DEF IndInv
<1> QED BY <1>1, SpecIndInv, PTL

\* However registers, retries, purges and flushes interleave with any number
\* of workers, the key of a registered write keeps an entry until the write was
\* written, refused, given up or purged, unless the registration came between
\* the settlement of the key's entry and its removal.
THEOREM WritesNotForgotten == Spec => []OwedIsRegistered
<1>1. IndInv => OwedIsRegistered
  BY DEF IndInv
<1> QED BY <1>1, SpecIndInv, PTL

\* An entry whose queued flag keeps register from queueing it again is in the
\* queue or the tasks of a worker that is alive.
THEOREM QueueHonest == Spec => []QueuedIsServed
<1>1. IndInv => QueuedIsServed
  BY DEF IndInv
<1> QED BY <1>1, SpecIndInv, PTL

-----------------------------------------------------------------------------
(* Each entry is handed to one worker, once *)

\* What an order of a set does not do is repeat itself.
LEMMA OrderOnce ==
    ASSUME NEW S, IsFiniteSet(S), NEW order \in SetToSeqs(S)
    PROVE  \A i, j \in DOMAIN order : order[i] = order[j] => i = j
BY FS_CardinalityType DEF SetToSeqs

\* An item that is new at the end leaves a queue without repetitions ...
LEMMA AppendOnce ==
    ASSUME NEW S, NEW q \in Seq(S), NEW x \in S, x \notin ToSet(q),
           \A i, j \in DOMAIN q : q[i] = q[j] => i = j
    PROVE  LET r == Append(q, x) IN \A i, j \in DOMAIN r : r[i] = r[j] => i = j
<1>1. /\ Len(q) \in Nat
      /\ DOMAIN q = 1..Len(q) /\ DOMAIN Append(q, x) = 1..(Len(q) + 1)
      /\ \A i \in 1..Len(q) : Append(q, x)[i] = q[i]
      /\ Append(q, x)[Len(q) + 1] = x
  BY AppendProperties
<1>2. \A i \in 1..Len(q) : q[i] # x
  BY <1>1 DEF ToSet
<1> QED BY <1>1, <1>2

\* ... and so does taking the first, which is then no longer in it.
LEMMA TailOnce ==
    ASSUME NEW S, NEW q \in Seq(S), q # <<>>,
           \A i, j \in DOMAIN q : q[i] = q[j] => i = j
    PROVE  LET r == Tail(q)
           IN  /\ \A i, j \in DOMAIN r : r[i] = r[j] => i = j
               /\ Head(q) \in ToSet(q)
               /\ ToSet(r) \subseteq ToSet(q) /\ Head(q) \notin ToSet(r)
<1>1. /\ Head(q) = q[1] /\ Len(q) \in Nat \ {0} /\ Len(Tail(q)) = Len(q) - 1
      /\ DOMAIN q = 1..Len(q) /\ DOMAIN Tail(q) = 1..(Len(q) - 1)
      /\ \A i \in 1..(Len(q) - 1) : Tail(q)[i] = q[i + 1]
  BY HeadTailProperties, LenProperties, EmptySeq
<1>2. \A i, j \in DOMAIN Tail(q) : Tail(q)[i] = Tail(q)[j] => i = j
  BY <1>1
<1>3. \A i \in DOMAIN Tail(q) : i + 1 \in DOMAIN q /\ Tail(q)[i] = q[i + 1] /\ i + 1 # 1
  BY <1>1
<1>4. 1 \in DOMAIN q
  BY <1>1
<1>5. ToSet(Tail(q)) \subseteq ToSet(q)
  BY <1>3 DEF ToSet
<1>6. Head(q) \notin ToSet(Tail(q))
  BY <1>1, <1>3, <1>4 DEF ToSet
<1> QED BY <1>1, <1>2, <1>4, <1>5, <1>6 DEF ToSet

\* A step hands nothing over twice if only one worker gets what no worker has.
LEMMA HandedStep ==
    ASSUME HandedOnce, NEW x \in Worker,
           \A w \in Worker : OwnOnce(w)',
           \A w \in Worker, e \in Entry : Has(w, e)' =>
                /\ entry'[e].queued
                /\ Has(w, e) \/ (w = x /\ ~entry[e].queued)
    PROVE  HandedOnce'
<1> SUFFICES ASSUME NEW w \in Worker, NEW e \in Entry, Has(w, e)'
             PROVE  entry'[e].queued /\ \A v \in Worker : Has(v, e)' => v = w
  BY DEF HandedOnce
<1> QED BY DEF HandedOnce

\* Steps that leave queues, tasks and flags alone.
LEMMA HandedKept ==
    ASSUME HandedOnce, UNCHANGED <<queue, tasks>>,
           \A w \in Worker, e \in Entry : Has(w, e) /\ entry[e].queued => entry'[e].queued
    PROVE  HandedOnce'
<1>1. \A w \in Worker, e \in Entry : Has(w, e)' <=> Has(w, e)
  BY DEF Has
<1>2. \A w \in Worker : OwnOnce(w)'
  BY DEF HandedOnce, OwnOnce
<1>3. ASSUME NEW w \in Worker, NEW e \in Entry, Has(w, e)'
      PROVE  entry'[e].queued /\ \A v \in Worker : Has(v, e)' => v = w
  BY <1>1, <1>3 DEF HandedOnce
<1> QED BY <1>2, <1>3 DEF HandedOnce

\* A thread that goes on, and asks no worker to stop.
LEMMA ServingKept ==
    ASSUME TypeOK, InService, NEW t \in Thread, NEW c, Goto(t, c), c.at \in Serving,
           \A w \in Worker : phase'[w] \notin {"draining", "closed"},
           \A w \in Worker : Stop \notin ToSet(inbox'[w]) \union ToSet(queue'[w])
    PROVE  InService'
<1>1. \A u \in Thread : call'[u] = IF u = t THEN c ELSE call[u]
  BY DEF TypeOK, Goto
<1> QED BY <1>1 DEF InService

LEMMA ThreadService ==
    ASSUME IndInv, ServiceInv, NEW t \in Thread, Enter(t) \/ Continue(t)
    PROVE  ServiceInv'
<1>1. /\ TypeOK /\ InService /\ HandedOnce /\ call[t] \in Call /\ call[t].at \in Serving
      /\ call \in [Thread -> Call]
  BY DEF IndInv, TypeOK, ServiceInv, InService
<1>2. ASSUME UNCHANGED <<phase, inbox, queue>>, NEW c, Goto(t, c), c.at \in Serving
      PROVE  InService'
  BY <1>1, <1>2, ServingKept DEF InService
<1>3. ASSUME UNCHANGED <<queue, tasks, entry>> PROVE HandedOnce'
  BY <1>1, <1>3, HandedKept
<1>4. ASSUME NEW k \in Key, Register(t, k) PROVE ServiceInv'
  <2>1. UNCHANGED call \/ \E c : Goto(t, c) /\ c.at \in Serving
    <3> DEFINE c(e) == [at |-> "ensure", entry |-> e, then |-> "return"]
    <3>1. UNCHANGED call \/ \E e : Goto(t, c(e))
      BY <1>4 DEF Register, RegisterAgain, RegisterNew
    <3>2. \A e : c(e).at \in Serving
      BY DEF Serving
    <3> HIDE DEF c
    <3> QED BY <3>1, <3>2
  <2>2. InService'
    <3>1. UNCHANGED worker
      BY <1>4 DEF Register, RegisterAgain, RegisterNew
    <3>2. CASE UNCHANGED call
      BY <1>1, <3>1, <3>2 DEF InService, worker
    <3> QED BY <1>2, <2>1, <3>1, <3>2 DEF worker
  <2>3. \A w \in Worker, e \in Entry : Has(w, e) /\ entry[e].queued => entry'[e].queued
    <3>1. CASE UNCHANGED entry
      BY <3>1
    <3>2. CASE \E e \in Entry : UnusedEntry(e) /\ entry' = [entry EXCEPT ![e] = NewEntry(k)]
      <4>1. PICK d \in Entry : UnusedEntry(d) /\ entry' = [entry EXCEPT ![d] = NewEntry(k)]
        BY <3>2
      <4>2. \A w \in Worker : ~Has(w, d)
        BY <4>1 DEF UnusedEntry, Has
      <4>3. \A e \in Entry \ {d} : entry'[e] = entry[e]
        BY <1>1, <4>1 DEF TypeOK
      <4> QED BY <4>2, <4>3
    <3> QED BY <1>4, <3>1, <3>2 DEF Register, RegisterAgain, RegisterNew, shared
  <2>4. HandedOnce'
    BY <1>1, <1>4, <2>3, HandedKept DEF Register, RegisterAgain, RegisterNew, worker
  <2> QED BY <2>2, <2>4 DEF ServiceInv
<1>5. ASSUME NEW k \in Key, Await(t, k) PROVE ServiceInv'
  BY <1>2, <1>3, <1>5 DEF Await, Serving, ServiceInv, shared, worker
<1>6. CASE EnsureWorker(t)
  <2>1. \E c : Goto(t, c) /\ c.at \in Serving
    <3> DEFINE c == [at |-> "read", entry |-> call[t].entry, then |-> call[t].then]
               d(w) == [at |-> "start", entry |-> call[t].entry, then |-> call[t].then,
                        worker |-> w]
    <3>1. Goto(t, c) \/ \E w : Goto(t, d(w))
      BY <1>6 DEF EnsureWorker
    <3>2. c.at \in Serving /\ \A w : d(w).at \in Serving
      BY DEF Serving
    <3> HIDE DEF c, d
    <3> QED BY <3>1, <3>2
  <2>2. \A w \in Worker : phase'[w] \notin {"draining", "closed"}
    BY <1>1, <1>6 DEF EnsureWorker, InService, TypeOK
  <2>3. InService'
    BY <1>1, <1>6, <2>1, <2>2, ServingKept DEF EnsureWorker, InService
  <2> QED BY <1>3, <1>6, <2>3 DEF EnsureWorker, ServiceInv
<1>7. CASE StartWorker(t)
  <2>1. \E c : Goto(t, c) /\ c.at \in Serving
    BY <1>7 DEF StartWorker, Serving
  <2>2. \A w \in Worker : phase'[w] \notin {"draining", "closed"}
    BY <1>1, <1>7 DEF StartWorker, InService, TypeOK
  <2>3. InService'
    BY <1>1, <1>7, <2>1, <2>2, ServingKept DEF StartWorker, InService
  <2> QED BY <1>3, <1>7, <2>3 DEF StartWorker, ServiceInv, shared
<1>8. ASSUME Enqueued(t) PROVE \E c : Goto(t, c) /\ c.at \in Serving
  BY <1>8 DEF Enqueued, Return, Serving
<1>9. CASE ReadLoop(t)
  <2>1. \E c : Goto(t, c) /\ c.at \in Serving
    BY <1>8, <1>9 DEF ReadLoop, Serving
  <2> QED BY <1>2, <1>3, <1>9, <2>1 DEF ReadLoop, ServiceInv, shared, worker
<1>10. CASE Submit(t)
  <2>1. \E c : Goto(t, c) /\ c.at \in Serving
    BY <1>8, <1>10 DEF Submit, Return, Serving
  <2>2. \A w \in Worker : Stop \notin ToSet(inbox'[w])
    <3>1. CASE UNCHANGED inbox
      BY <1>1, <3>1 DEF InService
    <3>2. CASE inbox' = [inbox EXCEPT ![call[t].loop] = Append(@, call[t].entry)]
      <4> DEFINE T == Entry \union {Stop}
                 x == call[t].entry
                 v == call[t].loop
      <4>1. x \in T /\ x # Stop /\ inbox \in [Worker -> Seq(T)]
        BY <1>1, <1>10, CallFields, WorkerAssumption DEF Submit, TypeOK
      <4>2. v \in Worker
        BY <1>1, <1>10, CallFields DEF Submit
      <4>3. ToSet(Append(inbox[v], x)) = ToSet(inbox[v]) \union {x}
        BY <4>1, <4>2, AppendSet
      <4>4. \A w \in Worker : inbox'[w] = IF w = v THEN Append(inbox[v], x) ELSE inbox[w]
        BY <3>2, <4>1
      <4> HIDE DEF T, x, v
      <4> QED BY <1>1, <4>1, <4>3, <4>4 DEF InService
    <3> QED BY <1>10, <3>1, <3>2 DEF Submit
  <2>3. InService'
    BY <1>1, <1>10, <2>1, <2>2, ServingKept DEF Submit, InService
  <2> QED BY <1>3, <1>10, <2>3 DEF Submit, ServiceInv, shared
<1>11. CASE Await_Return(t)
  BY <1>2, <1>3, <1>11 DEF Await_Return, Return, Serving, ServiceInv, shared, worker
<1>12. CASE \/ ReadWorker(t) \/ RequestStop(t) \/ Join(t) \/ ResetQueued(t)
            \/ ClearEntries(t) \/ \E server \in BOOLEAN : Drained(t, server)
            \/ \E k \in Checksum, success \in BOOLEAN : PutBuffer(t, k, success)
            \/ Settle(t) \/ PopEntry(t) \/ AllPut(t)
  BY <1>1, <1>12 DEF ReadWorker, RequestStop, Join, ResetQueued, ClearEntries, Drained,
                     PutBuffer, Settle, PopEntry, AllPut, Serving
<1> QED BY <1>4, <1>5, <1>6, <1>7, <1>9, <1>10, <1>11, <1>12 DEF Enter, Continue

\* Steps of the worker threads leave the calls alone.
LEMMA WorkServes ==
    ASSUME InService, UNCHANGED call,
           \A w \in Worker : phase'[w] \notin {"draining", "closed"},
           \A w \in Worker : Stop \notin ToSet(inbox'[w]) \union ToSet(queue'[w])
    PROVE  InService'
BY DEF InService

\* A worker that starts queues what no worker has, each entry once.
LEMMA WorkerStartService ==
    ASSUME IndInv, ServiceInv, NEW w \in Worker, WorkerStart(w)
    PROVE  ServiceInv'
<1>1. /\ TypeOK /\ InService /\ HandedOnce /\ WorkersClean /\ RegisteredEntries \subseteq Entry
      /\ phase[w] = "starting" /\ UNCHANGED <<inbox, tasks, call>>
  BY EntriesTyped DEF IndInv, ServiceInv, WorkerStart
<1>2. Pending \subseteq Entry /\ IsFiniteSet(Pending)
  BY <1>1, FS_Subset, WorkerAssumption DEF Pending
<1>3. PICK order \in SetToSeqs(Pending) : queue' = [queue EXCEPT ![w] = order]
  BY DEF WorkerStart
<1>4. /\ ToSet(order) = Pending
      /\ \A i, j \in DOMAIN order : order[i] = order[j] => i = j
  BY <1>2, OrderComplete, OrderOnce
<1>5. \A v \in Worker : queue'[v] = IF v = w THEN order ELSE queue[v]
  BY <1>1, <1>3 DEF TypeOK
<1>6. \A e \in Entry : tasks[w][e] = 0
  BY <1>1 DEF WorkersClean, LoopRuns
<1>7. \A e \in Entry : /\ e \in Pending => ~entry[e].queued /\ entry'[e].queued
                       /\ entry[e].queued => entry'[e].queued
  <2>1. \A e \in Entry : entry[e] \in EntryFields
    BY <1>1 DEF TypeOK
  <2>2. \A e \in Entry :
            entry'[e] = IF e \in Pending THEN [entry[e] EXCEPT !.queued = TRUE] ELSE entry[e]
    BY DEF WorkerStart
  <2> QED BY <2>1, <2>2 DEF Pending, EntryFields
<1>8. \A v \in Worker, e \in Entry : Has(v, e)' =>
        entry'[e].queued /\ (Has(v, e) \/ (v = w /\ ~entry[e].queued))
  BY <1>1, <1>4, <1>5, <1>6, <1>7 DEF Has, HandedOnce
<1>9. \A v \in Worker : OwnOnce(v)'
  BY <1>1, <1>4, <1>5, <1>6 DEF OwnOnce, HandedOnce
<1>10. HandedOnce'
  BY <1>1, <1>8, <1>9, HandedStep
<1>11. \A v \in Worker : phase'[v] \notin {"draining", "closed"}
  BY <1>1 DEF WorkerStart, InService, TypeOK
<1>12. \A v \in Worker : Stop \notin ToSet(inbox'[v]) \union ToSet(queue'[v])
  BY <1>1, <1>2, <1>4, <1>5, WorkerAssumption DEF InService
<1>13. InService'
  BY <1>1, <1>11, <1>12, WorkServes
<1> QED BY <1>10, <1>13 DEF ServiceInv

\* A callback queues only an entry that is not marked, and so is nowhere.
LEMMA RunCallbackService ==
    ASSUME IndInv, ServiceInv, NEW w \in Worker, RunCallback(w)
    PROVE  ServiceInv'
<1> DEFINE T == Entry \union {Stop}
<1> PICK x : x = Head(inbox[w])
  OBVIOUS
<1>1. /\ TypeOK /\ InService /\ HandedOnce
      /\ inbox \in [Worker -> Seq(T)] /\ queue \in [Worker -> Seq(T)] /\ inbox[w] # <<>>
      /\ UNCHANGED <<phase, tasks, call>>
  BY DEF IndInv, TypeOK, ServiceInv, RunCallback
<1>2. /\ x \in T /\ x \in ToSet(inbox[w]) /\ ToSet(Tail(inbox[w])) \subseteq ToSet(inbox[w])
  <2>1. inbox[w] \in Seq(T)
    BY <1>1
  <2> HIDE DEF T
  <2>2. /\ Head(inbox[w]) = inbox[w][1] /\ Head(inbox[w]) \in T
        /\ Len(inbox[w]) \in Nat \ {0}
        /\ DOMAIN inbox[w] = 1..Len(inbox[w])
        /\ DOMAIN Tail(inbox[w]) = 1..(Len(inbox[w]) - 1)
        /\ \A i \in 1..(Len(inbox[w]) - 1) : Tail(inbox[w])[i] = inbox[w][i + 1]
    BY <1>1, <2>1, HeadTailProperties, LenProperties, EmptySeq, TailSet
  <2>3. \A i \in DOMAIN Tail(inbox[w]) : i + 1 \in DOMAIN inbox[w]
                                         /\ Tail(inbox[w])[i] = inbox[w][i + 1]
    BY <2>2
  <2> QED BY <2>2, <2>3 DEF ToSet
<1>3. x \in Entry /\ x # Stop
  BY <1>1, <1>2 DEF InService
<1>4. \A v \in Worker : inbox'[v] = IF v = w THEN Tail(inbox[w]) ELSE inbox[v]
  BY <1>1 DEF RunCallback
<1>5. \A v \in Worker : Stop \notin ToSet(inbox'[v])
  BY <1>1, <1>2, <1>4 DEF InService
<1>6. \A v \in Worker : phase'[v] \notin {"draining", "closed"}
  BY <1>1 DEF InService
<1>7. CASE Done(x) \/ entry[x].queued
  <2>1. UNCHANGED <<entry, queue>>
    BY <1>3, <1>7 DEF RunCallback, Enqueue
  <2>2. HandedOnce'
    BY <1>1, <2>1, HandedKept
  <2>3. InService'
    BY <1>1, <1>5, <1>6, <2>1, WorkServes DEF InService
  <2> QED BY <2>2, <2>3 DEF ServiceInv
<1>8. CASE ~(Done(x) \/ entry[x].queued)
  <2>1. /\ entry' = [entry EXCEPT ![x].queued = TRUE]
        /\ queue' = [queue EXCEPT ![w] = Append(@, x)]
    BY <1>3, <1>8 DEF RunCallback, Enqueue
  <2>2. ~Has(w, x) /\ \A v \in Worker : ~Has(v, x)
    BY <1>1, <1>3, <1>8 DEF HandedOnce
  <2>3. /\ ToSet(Append(queue[w], x)) = ToSet(queue[w]) \union {x}
        /\ \A i, j \in DOMAIN Append(queue[w], x) :
              Append(queue[w], x)[i] = Append(queue[w], x)[j] => i = j
    <3>1. /\ queue[w] \in Seq(T) /\ x \in T /\ x \notin ToSet(queue[w])
          /\ \A i, j \in DOMAIN queue[w] : queue[w][i] = queue[w][j] => i = j
      BY <1>1, <1>2, <2>2 DEF Has, HandedOnce, OwnOnce
    <3> HIDE DEF T
    <3> QED BY <3>1, AppendSet, AppendOnce
  <2>4. \A v \in Worker : queue'[v] = IF v = w THEN Append(queue[w], x) ELSE queue[v]
    BY <1>1, <2>1
  <2>5. \A e \in Entry : /\ e # x => entry'[e] = entry[e]
                         /\ entry'[x].queued
    BY <1>1, <1>3, <2>1 DEF TypeOK, EntryFields
  <2>6. \A v \in Worker, e \in Entry : Has(v, e)' =>
            entry'[e].queued /\ (Has(v, e) \/ (v = w /\ ~entry[e].queued))
    BY <1>1, <1>3, <1>8, <2>3, <2>4, <2>5 DEF Has, HandedOnce
  <2>7. \A v \in Worker : OwnOnce(v)'
    <3>1. ASSUME NEW v \in Worker, v # w PROVE OwnOnce(v)'
      BY <1>1, <2>4, <3>1 DEF OwnOnce, HandedOnce
    <3>2. /\ queue'[w] = Append(queue[w], x) /\ UNCHANGED tasks
          /\ \A e \in Entry : tasks[w][e] > 0 =>
                tasks[w][e] = 1 /\ e \notin ToSet(queue[w]) /\ e # x
      BY <1>1, <2>2, <2>4 DEF OwnOnce, HandedOnce, Has
    <3>3. \A e \in Entry : tasks[w][e] > 0 =>
            tasks[w][e] = 1 /\ e \notin ToSet(queue'[w])
      BY <2>3, <3>2
    <3>4. \A i, j \in DOMAIN queue'[w] : queue'[w][i] = queue'[w][j] => i = j
      BY <2>3, <3>2
    <3>5. OwnOnce(w)'
      BY <3>2, <3>3, <3>4 DEF OwnOnce
    <3> QED BY <3>1, <3>5
  <2>8. HandedOnce'
    BY <1>1, <2>6, <2>7, HandedStep
  <2>9. \A v \in Worker : Stop \notin ToSet(queue'[v])
    BY <1>1, <1>3, <2>3, <2>4 DEF InService
  <2>10. InService'
    BY <1>1, <1>5, <1>6, <2>9, WorkServes
  <2> QED BY <2>8, <2>10 DEF ServiceInv
<1> QED BY <1>7, <1>8

\* A taken entry moves from the queue to the tasks, where it was not.
LEMMA TakeItemService ==
    ASSUME IndInv, ServiceInv, NEW w \in Worker, TakeItem(w)
    PROVE  ServiceInv'
<1> DEFINE T == Entry \union {Stop}
<1> PICK x, r : x = Head(queue[w]) /\ r = Tail(queue[w])
  OBVIOUS
<1>1. /\ TypeOK /\ InService /\ HandedOnce
      /\ queue \in [Worker -> Seq(T)] /\ queue[w] # <<>>
      /\ tasks \in [Worker -> [Entry -> Nat]]
      /\ UNCHANGED <<entry, inbox, call>> /\ queue' = [queue EXCEPT ![w] = r]
  BY DEF IndInv, TypeOK, ServiceInv, TakeItem, shared
<1>2. /\ x \in T /\ x \in ToSet(queue[w])
      /\ \A i, j \in DOMAIN r : r[i] = r[j] => i = j
      /\ ToSet(r) \subseteq ToSet(queue[w]) /\ x \notin ToSet(r)
  <2>1. /\ queue[w] \in Seq(T) /\ queue[w] # <<>>
        /\ \A i, j \in DOMAIN queue[w] : queue[w][i] = queue[w][j] => i = j
    BY <1>1 DEF HandedOnce, OwnOnce
  <2> HIDE DEF T
  <2> QED BY <2>1, TailSet, TailOnce
<1>3. x \in Entry /\ x # Stop
  BY <1>1, <1>2 DEF InService
<1>4. \A v \in Worker : queue'[v] = IF v = w THEN r ELSE queue[v]
  BY <1>1
<1>5. UNCHANGED phase
  BY <1>3 DEF TakeItem
<1>6. tasks[w][x] = 0
  BY <1>1, <1>2, <1>3 DEF HandedOnce, OwnOnce
<1>7. \A v \in Worker, e \in Entry :
        tasks'[v][e] = tasks[v][e] \/ (v = w /\ e = x /\ tasks'[v][e] = 1)
  <2>1. tasks' = tasks \/ tasks' = [tasks EXCEPT ![w][x] = @ + 1]
    BY <1>3 DEF TakeItem
  <2> QED BY <1>1, <1>3, <1>6, <2>1
<1>8. \A v \in Worker, e \in Entry : Has(v, e)' => Has(v, e)
  BY <1>2, <1>4, <1>7 DEF Has
<1>9. \A v \in Worker : OwnOnce(v)'
  <2>1. ASSUME NEW v \in Worker, v # w PROVE OwnOnce(v)'
    BY <1>1, <1>4, <1>7, <2>1 DEF OwnOnce, HandedOnce
  <2>2. OwnOnce(w)'
    BY <1>1, <1>2, <1>4, <1>7 DEF OwnOnce, HandedOnce
  <2> QED BY <2>1, <2>2
<1>10. \A v \in Worker, e \in Entry : Has(v, e)' => entry'[e].queued
  BY <1>1, <1>8 DEF HandedOnce
<1>11. HandedOnce'
  BY <1>1, <1>8, <1>9, <1>10, HandedStep
<1>12. \A v \in Worker : Stop \notin ToSet(inbox'[v]) \union ToSet(queue'[v])
  BY <1>1, <1>2, <1>4 DEF InService
<1>13. InService'
  BY <1>1, <1>5, <1>12, WorkServes DEF InService
<1> QED BY <1>11, <1>13 DEF ServiceInv

\* A task that ends has its entry no more.
LEMMA SettleTaskService ==
    ASSUME IndInv, ServiceInv, NEW w \in Worker, NEW e \in Entry, NEW raises \in BOOLEAN,
           NEW result \in {"written", "refused", "failed"},
           SettleTask(w, e, result, raises)
    PROVE  ServiceInv'
<1>1. /\ TypeOK /\ InService /\ HandedOnce /\ tasks \in [Worker -> [Entry -> Nat]]
      /\ tasks[w][e] > 0 /\ tasks' = [tasks EXCEPT ![w][e] = @ - 1]
      /\ entry' = [entry EXCEPT ![e].future = Outcome(e, result)]
      /\ UNCHANGED <<phase, inbox, queue, call>>
  BY DEF IndInv, TypeOK, ServiceInv, SettleTask
<1>2. tasks[w][e] = 1
  BY <1>1 DEF HandedOnce, OwnOnce
<1>3. \A v \in Worker, d \in Entry :
        tasks'[v][d] = IF v = w /\ d = e THEN 0 ELSE tasks[v][d]
  BY <1>1, <1>2
<1>4. \A d \in Entry : entry'[d].queued = entry[d].queued
  BY <1>1 DEF TypeOK, EntryFields
<1>5. \A v \in Worker, d \in Entry : Has(v, d)' => Has(v, d)
  BY <1>1, <1>3 DEF Has
<1>6. \A v \in Worker : OwnOnce(v)'
  BY <1>1, <1>3 DEF OwnOnce, HandedOnce
<1>7. \A v \in Worker, d \in Entry : Has(v, d)' => entry'[d].queued
  BY <1>1, <1>4, <1>5 DEF HandedOnce
<1>8. HandedOnce'
  BY <1>1, <1>5, <1>6, <1>7, HandedStep
<1>9. InService'
  BY <1>1, WorkServes DEF InService
<1> QED BY <1>8, <1>9 DEF ServiceInv

\* Removing an entry from _entries takes nothing from a worker.
LEMMA DropEntryService ==
    ASSUME IndInv, ServiceInv, NEW w \in Worker, NEW e \in Entry, DropEntry(w, e)
    PROVE  ServiceInv'
<1>1. InService /\ HandedOnce /\ UNCHANGED <<entry, phase, inbox, queue, tasks, call>>
  BY DEF ServiceInv, DropEntry
<1>2. HandedOnce'
  BY <1>1, HandedKept
<1>3. InService'
  BY <1>1, WorkServes DEF InService
<1> QED BY <1>2, <1>3 DEF ServiceInv

\* No worker exists but the first, and it has nothing.
LEMMA InitService ==
    ASSUME Init
    PROVE  ServiceInv
<1>1. /\ \A w \in Worker : phase[w] \in {"starting", "ended"}
      /\ \A w \in Worker : ToSet(inbox[w]) = {} /\ ToSet(queue[w]) = {}
      /\ \A w \in Worker : DOMAIN queue[w] = {}
      /\ \A w \in Worker, e \in Entry : tasks[w][e] = 0
      /\ \A t \in Thread : call[t].at = "idle"
  BY DEF Init, ToSet
<1>2. InService
  BY <1>1 DEF InService, Serving
<1>3. \A w \in Worker, e \in Entry : ~Has(w, e)
  BY <1>1 DEF Has
<1>4. HandedOnce
  BY <1>1, <1>3 DEF HandedOnce, OwnOnce
<1> QED BY <1>2, <1>4 DEF ServiceInv

LEMMA NextService ==
    ASSUME IndInv, ServiceInv, [ServiceNext]_vars
    PROVE  ServiceInv'
<1>1. ASSUME NEW t \in Thread, Enter(t) \/ Continue(t) PROVE ServiceInv'
  BY <1>1, ThreadService
<1>2. ASSUME NEW w \in Worker, Work(w) PROVE ServiceInv'
  <2>1. ~CloseLoop(w) /\ ~EndWorker(w)
    BY DEF CloseLoop, EndWorker, ServiceInv, InService
  <2> QED BY <1>2, <2>1, WorkerStartService, RunCallbackService, TakeItemService,
             SettleTaskService, DropEntryService DEF Work
<1>3. CASE UNCHANGED vars
  <2>1. UNCHANGED <<entry, phase, inbox, queue, tasks, call>>
    BY <1>3 DEF vars, shared, worker
  <2> QED BY <2>1 DEF ServiceInv, InService, HandedOnce, OwnOnce, Has
<1> QED BY <1>1, <1>2, <1>3 DEF ServiceNext

\* What no position or task has twice occurs once.
LEMMA HandedOccurs ==
    ASSUME TypeOK, HandedOnce
    PROVE  QueuedOnce
<1>1. ASSUME NEW w \in Worker, NEW e \in Entry
      PROVE  Occurrences(e, w) = IF Has(w, e) THEN 1 ELSE 0
  <2> DEFINE positions == {i \in DOMAIN queue[w] : queue[w][i] = e}
  <2>1. /\ tasks[w][e] \in Nat
        /\ tasks[w][e] > 0 => tasks[w][e] = 1 /\ e \notin ToSet(queue[w])
        /\ \A i, j \in positions : i = j
    BY DEF TypeOK, HandedOnce, OwnOnce
  <2>2. positions # {} <=> e \in ToSet(queue[w])
    BY DEF ToSet
  <2>3. CASE positions = {}
    <3>1. Cardinality(positions) = 0
      BY <2>3, FS_EmptySet
    <3> QED BY <2>1, <2>2, <2>3, <3>1 DEF Occurrences, Has
  <2>4. CASE positions # {}
    <3>1. PICK i : positions = {i}
      BY <2>1, <2>4
    <3>2. Cardinality(positions) = 1
      BY <3>1, FS_Singleton
    <3> QED BY <2>1, <2>2, <2>4, <3>2 DEF Occurrences, Has
  <2> QED BY <2>3, <2>4
<1>2. ASSUME NEW e \in Entry, NEW v \in Worker, NEW w \in Worker
      PROVE  /\ Occurrences(e, w) <= 1
             /\ Occurrences(e, v) = 1 /\ Occurrences(e, w) = 1 => v = w
  BY <1>1 DEF HandedOnce
<1> QED BY <1>2 DEF QueuedOnce

\* Until something asks a worker to stop, an entry is in one place of one
\* worker's queue or in one of its tasks, whatever threads register it at the
\* same time and whatever workers they start.  (After a stop it fails:
\* buffer_writer.py:310.)
THEOREM HandedToOne == ServiceSpec => []QueuedOnce
<1>1. Init => IndInv /\ ServiceInv
  BY InitIndInv, InitService
<1>2. IndInv /\ ServiceInv /\ [ServiceNext]_vars => (IndInv /\ ServiceInv)'
  <2>1. [ServiceNext]_vars => [Next]_vars
    BY DEF ServiceNext, Next
  <2> QED BY <2>1, NextIndInv, NextService
<1>3. IndInv /\ ServiceInv => QueuedOnce
  BY HandedOccurs DEF IndInv, ServiceInv
<1> QED BY <1>1, <1>2, <1>3, PTL DEF ServiceSpec

=============================================================================
