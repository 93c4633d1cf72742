-------------------------- MODULE MCBufferWriter --------------------------
(* Instances of BufferWriter for TLC. *)
EXTENDS BufferWriter

CONSTANTS e1, e2, w1, w2, t1, t2

\* Entries, workers and threads are interchangeable (safety runs only).
Symmetry == Permutations(Entry) \union Permutations(Worker) \union Permutations(Thread)

\* Registrations that race with flushes and purges.
RaceNext ==
    \/ \E t \in Thread :
        \/ \E k \in Key : Register(t, k)
        \/ EnterStop(t)
        \/ Continue(t)
    \/ \E w \in Worker : Work(w)
RaceSpec == Init /\ [][RaceNext]_vars

\* Two states that differ only in what is never read again are the same state:
\* the fields of an unused entry; the flag of a settled one, and how it was
\* settled (nobody awaits it in RaceSpec); the callbacks of a closed loop; the
\* timeout of a flush with nothing to wait for; whether what is stored is owed.
SameEntry(e) ==
    IF Done(e) THEN [entry[e] EXCEPT !.queued = FALSE, !.future = "written"] ELSE entry[e]
SameCall(c) == IF c.at = "drain" /\ c.todo = {} THEN [c EXCEPT !.timeout = TRUE] ELSE c
View == <<entries, [e \in {d \in Entry : ~UnusedEntry(d)} |-> SameEntry(e)],
          thread, loop, phase, queue, tasks, popping,
          [w \in Worker |-> IF phase[w] = "closed" THEN <<>> ELSE inbox[w]],
          [t \in Thread |-> SameCall(call[t])],
          stored, owed \ stored, (overlooked \intersect owed) \ stored>>

=============================================================================
