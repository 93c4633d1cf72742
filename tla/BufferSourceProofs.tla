------------------------- MODULE BufferSourceProofs -------------------------
(***************************************************************************)
(* Proofs about BufferSource, for any callers, tasks, owners and getters:  *)
(* a lookup that goes on is wanted, and the shared lookups implement       *)
(* SharedFetch.                                                            *)
(***************************************************************************)
EXTENDS BufferSource, FiniteSetTheorems, TLAPS

-----------------------------------------------------------------------------
(* The inductive invariant *)

LEMMA InitIndInv == Init => IndInv
<1> SUFFICES ASSUME Init PROVE IndInv
  OBVIOUS
<1>1. /\ \A f \in Task : task[f] = NoTask
      /\ \A c \in Caller : call[c] = Idle
      /\ \A k \in Key : pending[k] = Nothing
  BY DEF Init
<1>2. TasksShaped
  BY <1>1 DEF Init, TasksShaped, NoTask, Result, Key
<1>3. WaitersAgree
  BY <1>1 DEF WaitersAgree, Idle
<1>4. CancelledAlone /\ UnderWayShared
  BY <1>1 DEF CancelledAlone, UnderWayShared, Done, NoTask
<1>5. WaitersCounted
  BY <1>1 DEF WaitersCounted
<1>6. call \in [Caller -> Call]
  BY DEF Init, Idle, Call
<1>7. pending \in [Key -> [task : Task, waiters : Nat \ {0}] \union {Nothing}]
  BY DEF Init
<1> QED BY <1>2, <1>3, <1>4, <1>5, <1>6, <1>7 DEF IndInv

\* What the invariant says of an entry and of a call.
LEMMA EntryFacts ==
    ASSUME IndInv
    PROVE  /\ \A k \in Key : pending[k] # Nothing =>
                /\ pending[k].task \in Task
                /\ pending[k].waiters \in Nat \ {0}
                /\ pending[k] = [task |-> pending[k].task, waiters |-> pending[k].waiters]
           /\ \A c \in Caller :
                \/ call[c] = Idle
                \/ /\ call[c].at = "waiting"
                   /\ call[c].task \in Task
                   /\ call[c].key \in Key
BY DEF IndInv, Call, Idle

LEMMA WaitersFinite ==
    ASSUME NEW f
    PROVE  IsFiniteSet(WaitersOf(f)) /\ Cardinality(WaitersOf(f)) \in Nat
<1>1. WaitersOf(f) \subseteq Caller
  BY DEF WaitersOf
<1> QED BY <1>1, SourceAssumption, FS_Subset, FS_CardinalityType

\* A task goes from one point of its code to the next: nobody joins or leaves.
Progress(f, r) ==
    /\ task' = [task EXCEPT ![f] = r]
    /\ DOMAIN r = {"at", "key", "todo", "cancel", "result"}
    /\ r.at \in {"asking", "ended"}
    /\ r.key = task[f].key /\ r.cancel = task[f].cancel
    /\ r.result \in Result \/ (r.cancel /\ r.result = "cancelled")
    /\ ~Done(f)
    /\ UNCHANGED <<pending, call>>

LEMMA ProgressInv ==
    ASSUME IndInv, NEW f \in Task, NEW r, Progress(f, r)
    PROVE  IndInv'
<1>1. /\ task'[f] = r
      /\ \A g \in Task \ {f} : task'[g] = task[g]
      /\ DOMAIN task' = Task
  BY DEF Progress, IndInv, TasksShaped
<1>2. \A g \in Task : task'[g].key = task[g].key /\ task'[g].cancel = task[g].cancel
  BY <1>1 DEF Progress
<1>3. \A g : WaitersOf(g)' = WaitersOf(g)
  BY DEF WaitersOf, Progress
<1>4. TasksShaped'
  BY <1>1, <1>2 DEF TasksShaped, IndInv, Progress, Result
<1>5. WaitersCounted'
  <2> SUFFICES ASSUME NEW k \in Key, pending[k] # Nothing
               PROVE  /\ task'[pending[k].task].at # "over"
                      /\ task'[pending[k].task].key = k
                      /\ pending[k].waiters = Cardinality(WaitersOf(pending[k].task)')
    BY DEF WaitersCounted, Progress
  <2> QED BY <1>1, <1>2, <1>3, EntryFacts DEF Progress, IndInv, WaitersCounted
<1>6. WaitersAgree'
  BY <1>2, EntryFacts DEF WaitersAgree, IndInv, Progress, Idle
<1>7. CancelledAlone'
  BY <1>2, <1>3 DEF CancelledAlone, IndInv, Progress
<1>8. UnderWayShared'
  BY <1>1, <1>2 DEF UnderWayShared, IndInv, Progress, Done
<1> QED BY <1>4, <1>5, <1>6, <1>7, <1>8 DEF IndInv, Progress

LEMMA StartTaskProgress ==
    ASSUME IndInv, NEW f \in Task, StartTask(f)
    PROVE  \E r : Progress(f, r) /\ ~r.cancel
<1> DEFINE todo == SelectSeq(sources, LAMBDA o : Suits(o, task[f].key))
           r == [task[f] EXCEPT !.todo = todo,
                                !.at = IF todo = <<>> THEN "ended" ELSE "asking",
                                !.result = "missed"]
<1>1. task' = [task EXCEPT ![f] = r]
  BY DEF StartTask
<1>2. DOMAIN task[f] = {"at", "key", "todo", "cancel", "result"}
  BY DEF IndInv, TasksShaped
<1> HIDE DEF todo
<1>3. /\ DOMAIN r = {"at", "key", "todo", "cancel", "result"}
      /\ r.at \in {"asking", "ended"}
      /\ r.key = task[f].key /\ r.cancel = task[f].cancel
      /\ r.result = "missed"
  BY <1>2
<1>4. ~Done(f) /\ ~task[f].cancel /\ UNCHANGED <<pending, call>>
  BY DEF StartTask, Done
<1> HIDE DEF r
<1>5. Progress(f, r) /\ ~r.cancel
  BY <1>1, <1>3, <1>4 DEF Progress, Result
<1> QED BY <1>5

LEMMA SourceAnswersProgress ==
    ASSUME IndInv, NEW f \in Task, SourceAnswers(f)
    PROVE  \E r : Progress(f, r) /\ ~r.cancel
<1>1. PICK content \in Answers(Head(task[f].todo)) :
        task' = [task EXCEPT ![f].todo = Tail(task[f].todo),
                             ![f].at = IF Accepted(Head(task[f].todo), content)
                                          \/ Tail(task[f].todo) = <<>> THEN "ended" ELSE @,
                             ![f].result = IF Accepted(Head(task[f].todo), content)
                                           THEN "found" ELSE @]
  BY DEF SourceAnswers
<1> DEFINE taken == Accepted(Head(task[f].todo), content)
           rest == Tail(task[f].todo)
           r == [task[f] EXCEPT !.todo = rest,
                                !.at = IF taken \/ rest = <<>> THEN "ended" ELSE @,
                                !.result = IF taken THEN "found" ELSE @]
<1>2. task' = [task EXCEPT ![f] = r]
  BY <1>1
<1>3. /\ DOMAIN task[f] = {"at", "key", "todo", "cancel", "result"}
      /\ task[f].result \in Result
  BY DEF IndInv, TasksShaped, SourceAnswers
<1>4. ~Done(f) /\ ~task[f].cancel /\ UNCHANGED <<pending, call>> /\ task[f].at = "asking"
  BY DEF SourceAnswers, Done
<1> HIDE DEF rest, taken
<1>5. /\ DOMAIN r = {"at", "key", "todo", "cancel", "result"}
      /\ r.at \in {"asking", "ended"}
      /\ r.key = task[f].key /\ r.cancel = task[f].cancel
      /\ r.result \in Result
  BY <1>3, <1>4 DEF Result
<1> HIDE DEF r
<1>6. Progress(f, r) /\ ~r.cancel
  BY <1>2, <1>4, <1>5 DEF Progress
<1> QED BY <1>6

LEMMA TaskCancelledProgress ==
    ASSUME IndInv, NEW f \in Task, TaskCancelled(f)
    PROVE  \E r : Progress(f, r) /\ r.cancel
<1> DEFINE r == [task[f] EXCEPT !.at = "ended", !.result = "cancelled"]
<1>1. task' = [task EXCEPT ![f] = r]
  BY DEF TaskCancelled
<1>2. DOMAIN task[f] = {"at", "key", "todo", "cancel", "result"}
  BY DEF IndInv, TasksShaped
<1>3. /\ DOMAIN r = {"at", "key", "todo", "cancel", "result"}
      /\ r.at = "ended"
      /\ r.key = task[f].key /\ r.cancel = task[f].cancel
      /\ r.result = "cancelled"
  BY <1>2
<1>4. ~Done(f) /\ task[f].cancel /\ UNCHANGED <<pending, call>>
  BY DEF TaskCancelled, Done
<1> HIDE DEF r
<1>5. Progress(f, r) /\ r.cancel
  BY <1>1, <1>3, <1>4 DEF Progress
<1> QED BY <1>5

\* The callback forgets the task, so that it is joined no more.
LEMMA FinishedInv ==
    ASSUME IndInv, NEW f \in Task, Finished(f)
    PROVE  IndInv'
<1>1. /\ \A k \in Key : pending'[k] = IF pending[k] # Nothing /\ pending[k].task = f
                                      THEN Nothing ELSE pending[k]
      /\ call' = call
      /\ Done(f)
      /\ DOMAIN task' = Task
      /\ \A g \in Task \ {f} : task'[g] = task[g]
      /\ task'[f].at = "over" /\ task'[f].key = task[f].key
      /\ task'[f].cancel = task[f].cancel /\ task'[f].result = task[f].result
      /\ DOMAIN task'[f] = {"at", "key", "todo", "cancel", "result"}
  BY DEF Finished, IndInv, TasksShaped, Done
<1>2. \A g : WaitersOf(g)' = WaitersOf(g)
  BY <1>1 DEF WaitersOf
<1>3. \A g \in Task : task'[g].key = task[g].key /\ task'[g].cancel = task[g].cancel
  BY <1>1
<1>4. pending' \in [Key -> [task : Task, waiters : Nat \ {0}] \union {Nothing}]
  BY DEF Finished, IndInv
<1>5. TasksShaped'
  BY <1>1 DEF TasksShaped, IndInv
<1>6. WaitersCounted'
  <2> SUFFICES ASSUME NEW k \in Key, pending'[k] # Nothing,
                      NEW g, g = pending'[k].task
               PROVE  /\ task'[g].at # "over" /\ task'[g].key = k
                      /\ pending'[k].waiters = Cardinality(WaitersOf(g)')
    BY DEF WaitersCounted, WaitersOf
  <2>1. pending'[k] = pending[k] /\ pending[k].task \in Task \ {f}
    BY <1>1, EntryFacts
  <2> QED BY <1>1, <1>2, <2>1 DEF IndInv, WaitersCounted
<1>7. WaitersAgree'
  BY <1>1, <1>3, EntryFacts DEF WaitersAgree, IndInv, Idle
<1>8. CancelledAlone'
  BY <1>1, <1>2, <1>3 DEF CancelledAlone, IndInv
<1>9. UnderWayShared'
  BY <1>1, <1>3 DEF UnderWayShared, IndInv, Done, TasksShaped
<1> QED BY <1>1, <1>4, <1>5, <1>6, <1>7, <1>8, <1>9 DEF IndInv

\* A caller joins the task of the entry.
Join(c, k) ==
    /\ call[c] = Idle /\ pending[k] # Nothing
    /\ pending' = [pending EXCEPT ![k].waiters = @ + 1]
    /\ call' = [call EXCEPT ![c] = [at |-> "waiting", task |-> pending[k].task, key |-> k]]
    /\ UNCHANGED task

\* A caller starts a lookup with a task that nobody knows.
Begin(c, k, f) ==
    /\ call[c] = Idle /\ pending[k] = Nothing /\ Unused(f)
    /\ task' = [task EXCEPT ![f] = [at |-> "created", key |-> k, todo |-> <<>>,
                                    cancel |-> FALSE, result |-> "missed"]]
    /\ pending' = [pending EXCEPT ![k] = [task |-> f, waiters |-> 1]]
    /\ call' = [call EXCEPT ![c] = [at |-> "waiting", task |-> f, key |-> k]]

LEMMA GetBufferAsyncCases ==
    ASSUME NEW c \in Caller, NEW k \in Key, GetBufferAsync(c, k)
    PROVE  \/ UNCHANGED <<pending, task, call>>
           \/ Join(c, k)
           \/ \E f \in Task : Begin(c, k, f)
BY DEF GetBufferAsync, Join, Begin

LEMMA JoinInv ==
    ASSUME IndInv, NEW c \in Caller, NEW k \in Key, Join(c, k)
    PROVE  IndInv'
<1>1. PICK f \in Task : f = pending[k].task /\ pending[k].waiters \in Nat \ {0}
  BY EntryFacts DEF Join
<1>2. /\ pending'[k].task = f /\ pending'[k].waiters = pending[k].waiters + 1
      /\ pending'[k] \in [task : Task, waiters : Nat \ {0}]
      /\ \A j \in Key \ {k} : pending'[j] = pending[j]
      /\ pending'[k] # Nothing
      /\ pending' \in [Key -> [task : Task, waiters : Nat \ {0}] \union {Nothing}]
  <2>1. pending' = [pending EXCEPT ![k] = [pending[k] EXCEPT !.waiters = @ + 1]]
    BY DEF Join
  <2>2. pending[k] = [task |-> f, waiters |-> pending[k].waiters]
    BY <1>1, EntryFacts DEF Join
  <2>3. [pending[k] EXCEPT !.waiters = @ + 1] = [task |-> f, waiters |-> pending[k].waiters + 1]
    BY <2>2
  <2> QED BY <1>1, <2>1, <2>3, SourceAssumption DEF Join, IndInv
<1>3. /\ call'[c].at = "waiting" /\ call'[c].task = f /\ call'[c].key = k
      /\ \A d \in Caller \ {c} : call'[d] = call[d]
      /\ call' \in [Caller -> Call]
  BY <1>1 DEF Join, IndInv, Call
<1>4. c \notin WaitersOf(f)
  BY DEF WaitersOf, Join, Idle
<1>5. WaitersOf(f)' = WaitersOf(f) \union {c}
  BY <1>3 DEF WaitersOf
<1>6. \A g \in Task \ {f} : WaitersOf(g)' = WaitersOf(g)
  BY <1>3 DEF WaitersOf, Join, Idle
<1>7. Cardinality(WaitersOf(f)') = Cardinality(WaitersOf(f)) + 1
  BY <1>4, <1>5, WaitersFinite, FS_AddElement
<1>8. task[f].key = k /\ task' = task
  BY <1>1 DEF Join, IndInv, WaitersCounted
<1>9. TasksShaped'
  BY <1>8 DEF TasksShaped, IndInv
<1>10. WaitersCounted'
  <2> SUFFICES ASSUME NEW j \in Key, pending'[j] # Nothing,
                      NEW g, g = pending'[j].task
               PROVE  /\ task[g].at # "over" /\ task[g].key = j
                      /\ pending'[j].waiters = Cardinality(WaitersOf(g)')
    BY <1>8 DEF WaitersCounted, WaitersOf
  <2>1. CASE j = k
    BY <2>1, <1>2, <1>7 DEF IndInv, WaitersCounted, Join
  <2>2. CASE j # k
    <3>1. pending'[j] = pending[j] /\ pending[j].task \in Task
      BY <2>2, <1>2, EntryFacts
    <3>2. task[pending[j].task].key = j
      BY <3>1 DEF IndInv, WaitersCounted
    <3>3. pending[j].task # f
      BY <3>2, <2>2, <1>8
    <3> QED BY <3>1, <3>3, <1>6 DEF IndInv, WaitersCounted
  <2> QED BY <2>1, <2>2
<1>11. WaitersAgree'
  BY <1>3, <1>8 DEF WaitersAgree, IndInv
<1>12. ~task[f].cancel
  BY <1>1 DEF IndInv, CancelledAlone, Join
<1>13. CancelledAlone'
  BY <1>2, <1>6, <1>8, <1>12 DEF CancelledAlone, IndInv
<1>14. UnderWayShared'
  <2> SUFFICES ASSUME NEW g \in Task, ~Done(g), ~task[g].cancel
               PROVE  pending'[task[g].key] # Nothing /\ pending'[task[g].key].task = g
    BY <1>8 DEF UnderWayShared, Done
  <2>1. /\ task[g].key \in Key
        /\ pending[task[g].key] # Nothing /\ pending[task[g].key].task = g
    BY DEF IndInv, UnderWayShared, TasksShaped
  <2> QED BY <1>1, <1>2, <2>1
<1> QED BY <1>2, <1>3, <1>9, <1>10, <1>11, <1>13, <1>14 DEF IndInv

LEMMA BeginInv ==
    ASSUME IndInv, NEW c \in Caller, NEW k \in Key, NEW f \in Task, Begin(c, k, f)
    PROVE  IndInv'
<1>1. /\ pending'[k].task = f /\ pending'[k].waiters = 1 /\ pending'[k] # Nothing
      /\ \A j \in Key \ {k} : pending'[j] = pending[j]
      /\ pending' \in [Key -> [task : Task, waiters : Nat \ {0}] \union {Nothing}]
  BY SourceAssumption DEF Begin, IndInv
<1>2. /\ call'[c].at = "waiting" /\ call'[c].task = f /\ call'[c].key = k
      /\ \A d \in Caller \ {c} : call'[d] = call[d]
      /\ call' \in [Caller -> Call]
  BY DEF Begin, IndInv, Call
<1>3. /\ task'[f].at = "created" /\ task'[f].key = k /\ ~task'[f].cancel
      /\ task'[f].cancel \in BOOLEAN /\ task'[f].result = "missed"
      /\ DOMAIN task'[f] = {"at", "key", "todo", "cancel", "result"}
      /\ \A g \in Task \ {f} : task'[g] = task[g]
      /\ DOMAIN task' = Task
  BY DEF Begin, IndInv, TasksShaped
<1>4. /\ WaitersOf(f) = {}
      /\ \A j \in Key : pending[j] # Nothing => pending[j].task # f
  BY DEF Begin, Unused
<1>5. WaitersOf(f)' = {c}
  BY <1>2, <1>4 DEF WaitersOf
<1>6. \A g \in Task \ {f} : WaitersOf(g)' = WaitersOf(g)
  BY <1>2 DEF WaitersOf, Begin, Idle
<1>7. Cardinality(WaitersOf(f)') = 1
  BY <1>5, FS_Singleton
<1>8. TasksShaped'
  BY <1>3 DEF TasksShaped, IndInv, Result
<1>9. WaitersCounted'
  <2> SUFFICES ASSUME NEW j \in Key, pending'[j] # Nothing,
                      NEW g, g = pending'[j].task
               PROVE  /\ task'[g].at # "over" /\ task'[g].key = j
                      /\ pending'[j].waiters = Cardinality(WaitersOf(g)')
    BY DEF WaitersCounted, WaitersOf
  <2>1. CASE j = k
    BY <2>1, <1>1, <1>3, <1>7
  <2>2. CASE j # k
    <3>1. pending'[j] = pending[j] /\ pending[j].task \in Task \ {f}
      BY <2>2, <1>1, <1>4, EntryFacts
    <3> QED BY <3>1, <1>3, <1>6 DEF IndInv, WaitersCounted
  <2> QED BY <2>1, <2>2
<1>10. WaitersAgree'
  <2>1. \A d \in Caller \ {c} : call[d].at = "waiting" => call[d].task \in Task \ {f}
    BY <1>4, EntryFacts DEF WaitersOf, Idle
  <2> QED BY <2>1, <1>2, <1>3 DEF WaitersAgree, IndInv
<1>11. CancelledAlone'
  BY <1>1, <1>3, <1>6 DEF CancelledAlone, IndInv
<1>12. UnderWayShared'
  BY <1>1, <1>3 DEF UnderWayShared, IndInv, Done, Begin
<1> QED BY <1>1, <1>2, <1>8, <1>9, <1>10, <1>11, <1>12 DEF IndInv

\* A caller leaves: an entry of another task is left alone, the count goes
\* down, or, with the last waiter, the entry goes and the task with it.
LEMMA LeftInv ==
    ASSUME IndInv, NEW c \in Caller, call[c].at = "waiting", Left(c)
    PROVE  IndInv'
<1>1. PICK f \in Task, k \in Key : f = call[c].task /\ k = call[c].key
  BY EntryFacts DEF Idle
<1>2. /\ call' = [call EXCEPT ![c] = Idle]
      /\ call'[c] = Idle /\ \A d \in Caller \ {c} : call'[d] = call[d]
      /\ call' \in [Caller -> Call]
  BY DEF Left, IndInv, Call, Idle
<1>3. c \in WaitersOf(f)
  BY <1>1 DEF WaitersOf
<1>4. WaitersOf(f)' = WaitersOf(f) \ {c}
  BY <1>2 DEF WaitersOf, Idle
<1>5. \A g \in Task \ {f} : WaitersOf(g)' = WaitersOf(g)
  BY <1>1, <1>2 DEF WaitersOf, Idle
<1>6. task[f].key = k /\ ~task[f].cancel
  BY <1>1, <1>3 DEF IndInv, WaitersAgree, CancelledAlone
<1>7. CASE pending[k] = Nothing \/ pending[k].task # f
  <2>1. pending' = pending /\ task' = task
    BY <1>1, <1>7 DEF Left
  <2>2. \A j \in Key : pending[j] # Nothing => pending[j].task # f
    BY <1>6, <1>7 DEF IndInv, WaitersCounted
  <2>3. WaitersCounted'
    <3> SUFFICES ASSUME NEW j \in Key, pending[j] # Nothing, NEW g, g = pending[j].task
                 PROVE  /\ task[g].at # "over" /\ task[g].key = j
                        /\ pending[j].waiters = Cardinality(WaitersOf(g)')
      BY <2>1 DEF WaitersCounted, WaitersOf
    <3> QED BY <1>5, <2>2, EntryFacts DEF IndInv, WaitersCounted
  <2>4. TasksShaped' /\ UnderWayShared'
    BY <2>1 DEF TasksShaped, UnderWayShared, Done, IndInv
  <2>5. WaitersAgree'
    BY <1>2, <2>1 DEF WaitersAgree, IndInv, Idle
  <2>6. CancelledAlone'
    BY <1>5, <1>6, <2>1 DEF CancelledAlone, IndInv
  <2> QED BY <1>2, <2>1, <2>3, <2>4, <2>5, <2>6 DEF IndInv
<1>8. CASE pending[k] # Nothing /\ pending[k].task = f
  <2>1. /\ pending[k].waiters \in Nat \ {0}
        /\ pending[k].waiters = Cardinality(WaitersOf(f))
        /\ Cardinality(WaitersOf(f)') = pending[k].waiters - 1
        /\ IsFiniteSet(WaitersOf(f)')
    BY <1>3, <1>4, <1>8, WaitersFinite, FS_RemoveElement, EntryFacts DEF IndInv, WaitersCounted
  <2>2. \A j \in Key \ {k} : pending[j] # Nothing => pending[j].task \in Task \ {f}
    BY <1>6, EntryFacts DEF IndInv, WaitersCounted
  <2>3. CASE pending[k].waiters > 1
    <3>1. pending' = [pending EXCEPT ![k] = [pending[k] EXCEPT !.waiters = @ - 1]] /\ task' = task
      BY <1>1, <1>8, <2>3 DEF Left
    <3>2. pending[k] = [task |-> f, waiters |-> pending[k].waiters]
      BY <1>8, EntryFacts
    <3>3. [pending[k] EXCEPT !.waiters = @ - 1] = [task |-> f, waiters |-> pending[k].waiters - 1]
      BY <3>2
    <3>4. /\ pending'[k].task = f /\ pending'[k].waiters = pending[k].waiters - 1
          /\ pending'[k] # Nothing
          /\ \A j \in Key \ {k} : pending'[j] = pending[j]
          /\ pending' \in [Key -> [task : Task, waiters : Nat \ {0}] \union {Nothing}]
      BY <2>1, <2>3, <3>1, <3>3, SourceAssumption DEF IndInv
    <3>5. WaitersCounted'
      <4> SUFFICES ASSUME NEW j \in Key, pending'[j] # Nothing, NEW g, g = pending'[j].task
                   PROVE  /\ task'[g].at # "over" /\ task'[g].key = j
                          /\ pending'[j].waiters = Cardinality(WaitersOf(g)')
        BY DEF WaitersCounted, WaitersOf
      <4>1. CASE j = k
        BY <4>1, <1>8, <2>1, <3>1, <3>4 DEF IndInv, WaitersCounted
      <4>2. CASE j # k
        BY <4>2, <1>5, <2>2, <3>1, <3>4 DEF IndInv, WaitersCounted
      <4> QED BY <4>1, <4>2
    <3>6. TasksShaped' /\ UnderWayShared'
      BY <1>8, <3>1, <3>4 DEF TasksShaped, UnderWayShared, Done, IndInv
    <3>7. WaitersAgree'
      BY <1>2, <3>1 DEF WaitersAgree, IndInv, Idle
    <3>8. CancelledAlone'
      BY <1>5, <1>6, <1>8, <3>1, <3>4 DEF CancelledAlone, IndInv
    <3> QED BY <1>2, <3>4, <3>5, <3>6, <3>7, <3>8 DEF IndInv
  <2>4. CASE ~(pending[k].waiters > 1)
    <3>1. WaitersOf(f)' = {}
      BY <2>1, <2>4, FS_EmptySet
    <3>2. /\ pending'[k] = Nothing
          /\ \A j \in Key \ {k} : pending'[j] = pending[j]
          /\ pending' \in [Key -> [task : Task, waiters : Nat \ {0}] \union {Nothing}]
      BY <1>1, <1>8, <2>4 DEF Left, IndInv
    <3>3. task' = IF Done(f) THEN task ELSE [task EXCEPT ![f].cancel = TRUE]
      BY <1>1, <1>8, <2>4 DEF Left
    <3>4. /\ DOMAIN task' = Task
          /\ \A g \in Task \ {f} : task'[g] = task[g]
          /\ task'[f].at = task[f].at /\ task'[f].key = task[f].key
          /\ task'[f].result = task[f].result
          /\ DOMAIN task'[f] = {"at", "key", "todo", "cancel", "result"}
          /\ task'[f].cancel \in BOOLEAN
          /\ task[f].cancel => task'[f].cancel
          /\ ~Done(f) => task'[f].cancel
      BY <3>3 DEF IndInv, TasksShaped
    <3>5. WaitersCounted'
      <4> SUFFICES ASSUME NEW j \in Key, pending'[j] # Nothing, NEW g, g = pending'[j].task
                   PROVE  /\ task'[g].at # "over" /\ task'[g].key = j
                          /\ pending'[j].waiters = Cardinality(WaitersOf(g)')
        BY DEF WaitersCounted, WaitersOf
      <4>1. j # k /\ pending'[j] = pending[j] /\ g \in Task \ {f}
        BY <2>2, <3>2
      <4> QED BY <4>1, <1>5, <3>4 DEF IndInv, WaitersCounted
    <3>6. TasksShaped'
      BY <1>6, <3>4 DEF TasksShaped, IndInv
    <3>7. WaitersAgree'
      BY <1>2, <3>4, EntryFacts DEF WaitersAgree, IndInv, Idle
    <3>8. CancelledAlone'
      BY <1>5, <2>2, <3>1, <3>2, <3>4 DEF CancelledAlone, IndInv
    <3>9. UnderWayShared'
      <4> SUFFICES ASSUME NEW g \in Task, ~Done(g)', ~task'[g].cancel
                   PROVE  pending'[task'[g].key] # Nothing /\ pending'[task'[g].key].task = g
        BY DEF UnderWayShared
      <4>1. g # f /\ task'[g] = task[g] /\ ~Done(g)
        BY <3>4 DEF Done
      <4>2. /\ task[g].key \in Key
            /\ pending[task[g].key] # Nothing /\ pending[task[g].key].task = g
        BY <4>1 DEF IndInv, UnderWayShared, TasksShaped
      <4> QED BY <1>8, <3>2, <4>1, <4>2
    <3> QED BY <1>2, <3>2, <3>5, <3>6, <3>7, <3>8, <3>9 DEF IndInv
  <2> QED BY <2>3, <2>4
<1> QED BY <1>7, <1>8

-----------------------------------------------------------------------------
(* Invariants of every behaviour *)

\* No registration, lookup, source, callback or caller breaks the invariant.
LEMMA NextInv ==
    ASSUME IndInv, [Next]_vars
    PROVE  IndInv'
<1>1. ASSUME UNCHANGED <<pending, task, call>> PROVE IndInv'
  <2>1. \A g : WaitersOf(g)' = WaitersOf(g)
    BY <1>1 DEF WaitersOf
  <2>2. WaitersCounted'
    BY <1>1 DEF IndInv, WaitersCounted, WaitersOf
  <2>3. TasksShaped' /\ WaitersAgree' /\ UnderWayShared'
    BY <1>1 DEF IndInv, TasksShaped, WaitersAgree, UnderWayShared, Done
  <2>4. CancelledAlone'
    BY <1>1, <2>1 DEF IndInv, CancelledAlone
  <2> QED BY <1>1, <2>2, <2>3, <2>4 DEF IndInv
<1>2. ASSUME NEW o \in Owner, Replace(o) \/ Unregister(o) PROVE IndInv'
  BY <1>1, <1>2 DEF Replace, Unregister
<1>3. ASSUME NEW f \in Task, Run(f) PROVE IndInv'
  BY <1>3, StartTaskProgress, SourceAnswersProgress, TaskCancelledProgress, ProgressInv,
     FinishedInv DEF Run
<1>4. ASSUME NEW c \in Caller, NEW k \in Key, GetBufferAsync(c, k) PROVE IndInv'
  BY <1>1, <1>4, GetBufferAsyncCases, JoinInv, BeginInv
<1>5. ASSUME NEW c \in Caller, Resume(c) \/ CancelCaller(c) PROVE IndInv'
  BY <1>5, LeftInv DEF Resume, CancelCaller
<1> QED BY <1>1, <1>2, <1>3, <1>4, <1>5 DEF Next, vars

\* The inductive invariant holds in every reachable state.
THEOREM SpecIndInv == Spec => []IndInv
<1>1. IndInv /\ [Next]_vars => IndInv'
  BY NextInv
<1> QED BY <1>1, InitIndInv, PTL DEF Spec

\* However callers come, leave and are cancelled, a lookup that goes on has a
\* waiter and is the one that a new caller joins.
THEOREM LookupsWanted == Spec => []LookupWanted
<1>1. ASSUME IndInv PROVE LookupWanted
  <2> SUFFICES ASSUME NEW f \in Task, ~Done(f), ~task[f].cancel
               PROVE  /\ WaitersOf(f) # {}
                      /\ pending[task[f].key] # Nothing /\ pending[task[f].key].task = f
    BY DEF LookupWanted
  <2>1. /\ task[f].key \in Key
        /\ pending[task[f].key] # Nothing /\ pending[task[f].key].task = f
    BY <1>1 DEF IndInv, UnderWayShared, TasksShaped
  <2>2. Cardinality(WaitersOf(f)) \in Nat \ {0}
    BY <1>1, <2>1, EntryFacts DEF IndInv, WaitersCounted
  <2>3. WaitersOf(f) # {}
    BY <2>2, FS_EmptySet
  <2> QED BY <2>1, <2>3
<1> QED BY <1>1, SpecIndInv, PTL

-----------------------------------------------------------------------------
(* Refinement of SharedFetch *)

LEMMA InitRefines == Init => Promise!Init
<1> SUFFICES ASSUME Init PROVE Promise!Init
  OBVIOUS
<1>1. \A k \in Key : Aboard(k) = {} /\ Recent(k) = Nothing
  BY DEF Init, Aboard, Recent, Idle
<1>2. \A c \in Caller : Landed(c) = Nothing
  BY DEF Init, Landed, Idle
<1> QED BY <1>1, <1>2 DEF Promise!Init

\* Nothing that SharedFetch speaks of changes.
Unseen ==
    /\ \A k \in Key : Aboard(k)' = Aboard(k) /\ Recent(k)' = Recent(k)
    /\ \A c \in Caller : Landed(c)' = Landed(c)

LEMMA UnseenStutters == Unseen => UNCHANGED Promise!vars
BY DEF Unseen, Promise!vars

\* The callers aboard are the waiters of the one task that is under way, and
\* a caller that has landed has a result that no cancelling produced.
LEMMA AboardFacts ==
    ASSUME IndInv
    PROVE  /\ \A k \in Key : \A c \in Aboard(k) :
                /\ pending[k] # Nothing /\ pending[k].task = call[c].task
                /\ Recent(k) = Nothing
           /\ \A c \in Caller : call[c].at = "waiting" => task[call[c].task].result \in Result
           /\ \A k \in Key : pending[k] # Nothing => task[pending[k].task].result \in Result
           /\ Nothing \notin Result
<1>1. \A c \in Caller : call[c].at = "waiting" =>
        /\ call[c].task \in Task /\ ~task[call[c].task].cancel
        /\ task[call[c].task].key = call[c].key
  BY EntryFacts DEF IndInv, CancelledAlone, WaitersOf, WaitersAgree, Idle
<1>2. \A k \in Key : pending[k] # Nothing =>
        pending[k].task \in Task /\ ~task[pending[k].task].cancel
  BY EntryFacts DEF IndInv, CancelledAlone
<1>3. \A f \in Task : ~task[f].cancel => task[f].result \in Result
  BY DEF IndInv, TasksShaped, Result
<1>4. ASSUME NEW k \in Key, NEW c \in Aboard(k)
      PROVE  /\ pending[k] # Nothing /\ pending[k].task = call[c].task
             /\ Recent(k) = Nothing
  <2>1. c \in Caller /\ call[c].at = "waiting" /\ call[c].key = k /\ ~Done(call[c].task)
    BY <1>4 DEF Aboard
  <2> QED BY <1>1, <2>1 DEF Recent, IndInv, UnderWayShared
<1> QED BY <1>1, <1>2, <1>3, <1>4, SourceAssumption DEF Result

\* A task that goes on is not seen; one that ends lands everybody aboard.
LEMMA ProgressRefines ==
    ASSUME IndInv, IndInv', NEW f \in Task, NEW r, Progress(f, r)
    PROVE  \/ Unseen
           \/ ~r.cancel /\ Promise!Land(task[f].key, r.result)
<1>1. /\ task'[f] = r /\ \A g \in Task \ {f} : task'[g] = task[g]
      /\ pending' = pending /\ call' = call
      /\ ~Done(f)
      /\ r.cancel = task[f].cancel
  BY DEF Progress, IndInv, TasksShaped
<1>2. \A g \in Task \ {f} : Done(g)' <=> Done(g)
  BY <1>1 DEF Done
<1>3. Done(f)' <=> r.at = "ended"
  BY <1>1 DEF Done, Progress
<1>4. CASE r.cancel \/ r.at # "ended"
  <2>1. ASSUME r.cancel
        PROVE  /\ \A c \in Caller : call[c].at = "waiting" => call[c].task \in Task \ {f}
               /\ \A k \in Key : pending[k] # Nothing => pending[k].task \in Task \ {f}
    BY <1>1, <2>1, EntryFacts DEF IndInv, CancelledAlone, WaitersOf, Idle
  <2>2. ASSUME NEW c \in Caller, call[c].at = "waiting"
        PROVE  /\ Done(call[c].task)' <=> Done(call[c].task)
               /\ Done(call[c].task) => task'[call[c].task] = task[call[c].task]
    BY <1>1, <1>2, <1>3, <1>4, <2>1, <2>2, EntryFacts DEF Idle, Done
  <2>3. ASSUME NEW k \in Key, pending[k] # Nothing
        PROVE  /\ Done(pending[k].task)' <=> Done(pending[k].task)
               /\ Done(pending[k].task) => task'[pending[k].task] = task[pending[k].task]
    BY <1>1, <1>2, <1>3, <1>4, <2>1, <2>3, EntryFacts DEF Done
  <2>4. \A k \in Key : Aboard(k)' = Aboard(k)
    BY <1>1, <2>2 DEF Aboard
  <2>5. \A k \in Key : Recent(k)' = Recent(k)
    BY <1>1, <2>3 DEF Recent
  <2>6. \A c \in Caller : Landed(c)' = Landed(c)
    BY <1>1, <2>2 DEF Landed
  <2> QED BY <2>4, <2>5, <2>6 DEF Unseen
<1>5. CASE ~r.cancel /\ r.at = "ended"
  <2>1. PICK k \in Key : k = task[f].key /\ pending[k] # Nothing /\ pending[k].task = f
    BY <1>1, <1>5 DEF IndInv, UnderWayShared, TasksShaped
  <2>2. Aboard(k) = WaitersOf(f)
    BY <1>1, <2>1, AboardFacts, EntryFacts DEF Aboard, WaitersOf, IndInv, WaitersAgree
  <2>3. Aboard(k) # {}
    <3>1. Cardinality(WaitersOf(f)) \in Nat \ {0}
      BY <2>1, EntryFacts DEF IndInv, WaitersCounted
    <3> QED BY <2>2, <3>1, FS_EmptySet
  <2>4. \A j \in Key \ {k} : pending[j] # Nothing => pending[j].task \in Task \ {f}
    BY <2>1, EntryFacts DEF IndInv, WaitersCounted
  <2>5. \A c \in Caller : call[c].at = "waiting" =>
          IF c \in Aboard(k) THEN call[c].task = f ELSE call[c].task \in Task \ {f}
    BY <2>2, EntryFacts DEF WaitersOf, Idle
  <2>6. \A c \in Caller : call[c].at = "waiting" =>
          /\ call[c].task = f => Done(call[c].task)'
          /\ call[c].task # f => (Done(call[c].task)' <=> Done(call[c].task))
    BY <1>1, <1>2, <1>3, <1>5, <2>5 DEF Done
  <2>7. Aboard(k)' = {}
    BY <1>1, <2>2, <2>5, <2>6 DEF Aboard, WaitersOf
  <2>8. \A j \in Key \ {k} : Aboard(j)' = Aboard(j)
    BY <1>1, <2>1, <2>5, <2>6 DEF Aboard, IndInv, WaitersAgree
  <2>9. \A c \in Caller : Landed(c)' = IF c \in Aboard(k) THEN r.result ELSE Landed(c)
    <3> TAKE c \in Caller
    <3>1. CASE c \in Aboard(k)
      BY <3>1, <1>1, <2>5, <2>6 DEF Landed, Aboard
    <3>2. CASE c \notin Aboard(k)
      BY <3>2, <1>1, <2>5, <2>6 DEF Landed
    <3> QED BY <3>1, <3>2
  <2>10. Recent(k)' = r.result
    BY <1>1, <1>3, <1>5, <2>1 DEF Recent, Done
  <2>11. \A j \in Key \ {k} : Recent(j)' = Recent(j)
    BY <1>1, <1>2, <2>4 DEF Recent, Done
  <2>12. Promise!Land(k, r.result)
    BY <2>3, <2>7, <2>8, <2>9, <2>10, <2>11 DEF Promise!Land
  <2> QED BY <1>5, <2>1, <2>12
<1> QED BY <1>4, <1>5

\* The result at hand stays while the entry has its task and that its state.
LEMMA RecentKept ==
    ASSUME IndInv, NEW k \in Key,
           \/ pending'[k] = pending[k]
           \/ /\ pending[k] # Nothing /\ pending'[k] # Nothing
              /\ pending'[k].task = pending[k].task,
           \A g \in Task : task'[g].at = task[g].at /\ task'[g].result = task[g].result
    PROVE  Recent(k)' = Recent(k)
<1>1. CASE pending[k] = Nothing
  BY <1>1 DEF Recent
<1>2. CASE pending[k] # Nothing
  <2>1. PICK f \in Task : f = pending[k].task
    BY <1>2, EntryFacts
  <2>2. pending'[k] # Nothing /\ pending'[k].task = f
    BY <1>2, <2>1
  <2> QED BY <1>2, <2>1, <2>2 DEF Recent, Done
<1> QED BY <1>1, <1>2

\* The callback makes the result of its task unavailable.
LEMMA FinishedRefines ==
    ASSUME IndInv, NEW f \in Task, Finished(f)
    PROVE  Unseen \/ \E k \in Key : Promise!Forget(k)
<1>1. /\ \A k \in Key : pending'[k] = IF pending[k] # Nothing /\ pending[k].task = f
                                      THEN Nothing ELSE pending[k]
      /\ call' = call
      /\ Done(f)
      /\ task'[f].at = "over" /\ task'[f].result = task[f].result
      /\ \A g \in Task \ {f} : task'[g] = task[g]
  BY DEF Finished, IndInv, TasksShaped, Done
<1>2. \A g \in Task : (Done(g)' <=> Done(g)) /\ task'[g].result = task[g].result
  BY <1>1 DEF Done
<1>3. \A c \in Caller : call[c].at = "waiting" =>
        /\ Done(call[c].task)' <=> Done(call[c].task)
        /\ task'[call[c].task].result = task[call[c].task].result
  BY <1>1, <1>2, EntryFacts DEF Done, Idle
<1>4. \A k \in Key : Aboard(k)' = Aboard(k)
  BY <1>1, <1>3 DEF Aboard
<1>5. \A c \in Caller : Landed(c)' = Landed(c)
  BY <1>1, <1>3 DEF Landed
<1>6. \A k \in Key : Recent(k)' =
        IF pending[k] # Nothing /\ pending[k].task = f THEN Nothing ELSE Recent(k)
  <2> TAKE k \in Key
  <2>2. CASE pending[k] # Nothing /\ pending[k].task = f
    BY <2>2, <1>1 DEF Recent
  <2>3. CASE pending[k] = Nothing
    BY <2>3, <1>1 DEF Recent
  <2>4. CASE pending[k] # Nothing /\ pending[k].task # f
    <3>1. PICK g \in Task \ {f} : g = pending[k].task
      BY <2>4, EntryFacts
    <3>2. pending'[k] = pending[k] /\ task'[g] = task[g]
      BY <1>1, <2>4, <3>1
    <3> QED BY <2>4, <3>1, <3>2 DEF Recent, Done
  <2> QED BY <2>2, <2>3, <2>4
<1>7. CASE \E k \in Key : pending[k] # Nothing /\ pending[k].task = f
  <2>1. PICK k \in Key : pending[k] # Nothing /\ pending[k].task = f
    BY <1>7
  <2>2. \A j \in Key \ {k} : ~(pending[j] # Nothing /\ pending[j].task = f)
    BY <2>1 DEF IndInv, WaitersCounted
  <2>3. Recent(k) # Nothing
    BY <1>1, <2>1, AboardFacts DEF Recent
  <2>4. Promise!Forget(k)
    BY <1>4, <1>5, <1>6, <2>1, <2>2, <2>3 DEF Promise!Forget
  <2> QED BY <2>4
<1>8. CASE ~\E k \in Key : pending[k] # Nothing /\ pending[k].task = f
  BY <1>4, <1>5, <1>6, <1>8 DEF Unseen
<1> QED BY <1>7, <1>8

\* A caller that joins goes aboard, or finds the result that is at hand.
LEMMA JoinRefines ==
    ASSUME IndInv, NEW c \in Caller, NEW k \in Key, Join(c, k)
    PROVE  Promise!Board(c, k) \/ Promise!Hit(c, k)
<1>1. PICK f \in Task : f = pending[k].task
  BY EntryFacts DEF Join
<1>2. /\ call'[c].at = "waiting" /\ call'[c].task = f /\ call'[c].key = k
      /\ \A d \in Caller \ {c} : call'[d] = call[d]
      /\ task' = task /\ call[c] = Idle /\ pending[k] # Nothing
  BY <1>1 DEF Join, IndInv, Call
<1>3. \A j \in Key : (pending'[j] # Nothing <=> pending[j] # Nothing)
                     /\ (pending[j] # Nothing => pending'[j].task = pending[j].task)
  <2>1. pending' = [pending EXCEPT ![k] = [pending[k] EXCEPT !.waiters = @ + 1]]
    BY DEF Join
  <2>2. pending[k] = [task |-> f, waiters |-> pending[k].waiters] /\ pending[k].waiters \in Nat
    BY <1>1, EntryFacts DEF Join
  <2>3. [pending[k] EXCEPT !.waiters = @ + 1] = [task |-> f, waiters |-> pending[k].waiters + 1]
    BY <2>2
  <2> QED BY <1>1, <1>2, <2>1, <2>2, <2>3, SourceAssumption DEF IndInv
<1>4. \A g : Done(g)' <=> Done(g)
  BY <1>2 DEF Done
<1>5. \A j \in Key : Recent(j)' = Recent(j)
  BY <1>2, <1>3 DEF Recent, Done
<1>6. \A d \in Caller \ {c} : Landed(d)' = Landed(d)
  BY <1>2 DEF Landed, Done
<1>7. Landed(c) = Nothing /\ \A j \in Key : c \notin Aboard(j)
  BY <1>2 DEF Landed, Aboard, Idle
<1>8. Promise!Away(c)
  BY <1>7 DEF Promise!Away
<1>9. CASE Done(f)
  <2>1. \A j \in Key : Aboard(j)' = Aboard(j)
    BY <1>2, <1>9 DEF Aboard, Done, Idle
  <2>2. Landed(c)' = Recent(k) /\ Recent(k) # Nothing
    BY <1>1, <1>2, <1>9, AboardFacts DEF Landed, Recent, Done
  <2> QED BY <1>5, <1>6, <1>8, <2>1, <2>2 DEF Promise!Hit
<1>10. CASE ~Done(f)
  <2>1. Aboard(k)' = Aboard(k) \union {c} /\ \A j \in Key \ {k} : Aboard(j)' = Aboard(j)
    BY <1>2, <1>10 DEF Aboard, Done, Idle
  <2>2. Landed(c)' = Nothing /\ Recent(k) = Nothing
    BY <1>1, <1>2, <1>10 DEF Landed, Recent, Done
  <2> QED BY <1>5, <1>6, <1>7, <1>8, <2>1, <2>2 DEF Promise!Board
<1> QED BY <1>9, <1>10

\* A caller that starts a lookup is the first aboard.
LEMMA BeginRefines ==
    ASSUME IndInv, NEW c \in Caller, NEW k \in Key, NEW f \in Task, Begin(c, k, f)
    PROVE  Promise!Board(c, k)
<1>1. /\ call'[c].at = "waiting" /\ call'[c].task = f /\ call'[c].key = k
      /\ \A d \in Caller \ {c} : call'[d] = call[d]
      /\ call[c] = Idle /\ pending[k] = Nothing
      /\ pending'[k].task = f /\ \A j \in Key \ {k} : pending'[j] = pending[j]
      /\ task'[f].at = "created" /\ \A g \in Task \ {f} : task'[g] = task[g]
  BY DEF Begin, IndInv, TasksShaped
<1>2. /\ \A d \in Caller \ {c} : call[d].at = "waiting" => call[d].task \in Task \ {f}
      /\ \A j \in Key : pending[j] # Nothing => pending[j].task \in Task \ {f}
  <2>1. /\ WaitersOf(f) = {}
        /\ \A j \in Key : pending[j] # Nothing => pending[j].task # f
    BY DEF Begin, Unused
  <2>2. \A d \in Caller : call[d].at = "waiting" => call[d].task \in Task /\ call[d].task # f
    BY <2>1, EntryFacts DEF WaitersOf, Idle
  <2> QED BY <2>1, <2>2, EntryFacts
<1>3. ~Done(f)' /\ \A g \in Task \ {f} : Done(g)' <=> Done(g)
  BY <1>1 DEF Done
<1>4. \A j \in Key : Recent(j)' = Recent(j)
  BY <1>1, <1>2, <1>3 DEF Recent, Done
<1>5. \A d \in Caller \ {c} : Landed(d)' = Landed(d)
  BY <1>1, <1>2, <1>3 DEF Landed, Done
<1>6. Landed(c)' = Nothing /\ Landed(c) = Nothing /\ \A j \in Key : c \notin Aboard(j)
  BY <1>1, <1>3 DEF Landed, Aboard, Done, Idle
<1>7. \A j \in Key, d \in Caller \ {c} : d \in Aboard(j)' <=> d \in Aboard(j)
  BY <1>1, <1>2, <1>3 DEF Aboard, Done
<1>8. \A j \in Key : c \in Aboard(j)' <=> j = k
  BY <1>1, <1>3 DEF Aboard, Done
<1>9. \A j \in Key : Aboard(j) \subseteq Caller /\ Aboard(j)' \subseteq Caller
  BY DEF Aboard
<1>10. Aboard(k)' = Aboard(k) \union {c} /\ \A j \in Key \ {k} : Aboard(j)' = Aboard(j)
  BY <1>6, <1>7, <1>8, <1>9
<1>11. Promise!Away(c) /\ Recent(k) = Nothing
  BY <1>1, <1>6 DEF Promise!Away, Recent
<1> QED BY <1>4, <1>5, <1>6, <1>10, <1>11 DEF Promise!Board

\* A caller that leaves returns its result or gives up, and nobody with it.
LEMMA LeftRefines ==
    ASSUME IndInv, NEW c \in Caller, call[c].at = "waiting", Left(c)
    PROVE  Promise!Leave(c) \/ Promise!Return(c)
<1>1. PICK f \in Task, k \in Key : f = call[c].task /\ k = call[c].key
  BY EntryFacts DEF Idle
<1>2. call'[c] = Idle /\ \A d \in Caller \ {c} : call'[d] = call[d]
  BY DEF Left, IndInv
<1>3. \A g \in Task : task'[g].at = task[g].at /\ task'[g].result = task[g].result
  BY <1>1 DEF Left, IndInv, TasksShaped
<1>4. \A g \in Task : Done(g)' <=> Done(g)
  BY <1>3 DEF Done
<1>5. \A d \in Caller : call[d].at = "waiting" => call[d].task \in Task
  BY EntryFacts DEF Idle
<1>6. \A d \in Caller \ {c} : Landed(d)' = Landed(d)
  BY <1>2, <1>3, <1>4, <1>5 DEF Landed, Done
<1>7. Landed(c)' = Nothing
  BY <1>2 DEF Landed, Idle
<1>8. \A j \in Key : Aboard(j)' = Aboard(j) \ {c}
  <2>1. \A j \in Key, d \in Caller \ {c} : d \in Aboard(j)' <=> d \in Aboard(j)
    BY <1>2, <1>4, <1>5 DEF Aboard, Done
  <2>2. \A j \in Key : c \notin Aboard(j)'
    BY <1>2 DEF Aboard, Idle
  <2>3. \A j \in Key : Aboard(j) \subseteq Caller /\ Aboard(j)' \subseteq Caller
    BY DEF Aboard
  <2> QED BY <2>1, <2>2, <2>3
<1>9. \A j \in Key \ {k} : pending'[j] = pending[j]
  BY <1>1 DEF Left, IndInv
<1>10. \/ pending'[k] = Nothing /\ (pending[k] = Nothing \/ pending[k].task = f)
       \/ pending'[k] = pending[k]
       \/ /\ pending[k] # Nothing /\ pending'[k] # Nothing
          /\ pending[k].task = f /\ pending'[k].task = f
  <2>1. CASE pending[k] = Nothing \/ pending[k].task # f
    BY <1>1, <2>1 DEF Left
  <2>2. CASE pending[k] # Nothing /\ pending[k].task = f /\ pending[k].waiters > 1
    <3>1. pending' = [pending EXCEPT ![k] = [pending[k] EXCEPT !.waiters = @ - 1]]
      BY <1>1, <2>2 DEF Left
    <3>2. pending[k] = [task |-> f, waiters |-> pending[k].waiters] /\ pending[k].waiters \in Nat
      BY <2>2, EntryFacts
    <3>3. [pending[k] EXCEPT !.waiters = @ - 1] = [task |-> f, waiters |-> pending[k].waiters - 1]
      BY <3>2
    <3> QED BY <2>2, <3>1, <3>2, <3>3, SourceAssumption DEF IndInv
  <2>3. CASE pending[k] # Nothing /\ pending[k].task = f /\ ~(pending[k].waiters > 1)
    BY <1>1, <2>3 DEF Left, IndInv
  <2> QED BY <2>1, <2>2, <2>3
<1>11. \A j \in Key \ {k} : Recent(j)' = Recent(j)
  BY <1>3, <1>9, RecentKept
<1>12. Recent(k)' = Recent(k) \/ Recent(k)' = Nothing
  <2>1. CASE pending'[k] = Nothing
    BY <2>1 DEF Recent
  <2>2. CASE pending'[k] # Nothing
    BY <2>2, <1>3, <1>10, RecentKept
  <2> QED BY <2>1, <2>2
<1>13. CASE Done(f)
  <2>1. Landed(c) # Nothing
    BY <1>1, <1>13, AboardFacts DEF Landed
  <2>2. \A j \in Key : Aboard(j)' = Aboard(j)
    BY <1>1, <1>8, <1>13 DEF Aboard
  <2>3. [j \in Key |-> Recent(j)'] \in
          {[j \in Key |-> Recent(j)]} \union
          {[[j \in Key |-> Recent(j)] EXCEPT ![i] = Nothing] : i \in Key}
    <3>1. CASE Recent(k)' = Recent(k)
      BY <3>1, <1>11
    <3>2. CASE Recent(k)' = Nothing
      <4>1. [j \in Key |-> Recent(j)'] = [[j \in Key |-> Recent(j)] EXCEPT ![k] = Nothing]
        BY <3>2, <1>11
      <4> QED BY <4>1
    <3> QED BY <3>1, <3>2, <1>12
  <2>4. [d \in Caller |-> Landed(d)'] = [[d \in Caller |-> Landed(d)] EXCEPT ![c] = Nothing]
    BY <1>6, <1>7
  <2>5. [j \in Key |-> Aboard(j)'] = [j \in Key |-> Aboard(j)]
    BY <2>2
  <2>6. [d \in Caller |-> Landed(d)][c] # Nothing
    BY <2>1
  <2> QED BY <2>3, <2>4, <2>5, <2>6 DEF Promise!Return
<1>14. CASE ~Done(f)
  <2>1. Landed(c) = Nothing /\ c \in Aboard(k)
    BY <1>1, <1>14 DEF Landed, Aboard
  <2>2. \A j \in Key : Recent(j)' = Recent(j)
    BY <1>11, <1>12, <2>1, AboardFacts
  <2> QED BY <1>6, <1>7, <1>8, <2>1, <2>2 DEF Promise!Leave
<1> QED BY <1>13, <1>14

\* Every step is a step of SharedFetch or changes nothing that it speaks of.
LEMMA NextRefines ==
    ASSUME IndInv, IndInv', [Next]_vars
    PROVE  [Promise!Next]_(Promise!vars)
<1>1. ASSUME UNCHANGED <<pending, task, call>> PROVE Unseen
  BY <1>1 DEF Unseen, Aboard, Landed, Recent, Done
<1>2. ASSUME NEW o \in Owner, Replace(o) \/ Unregister(o) PROVE Unseen
  BY <1>1, <1>2 DEF Replace, Unregister
<1>3. ASSUME NEW f \in Task, Run(f)
      PROVE  Unseen \/ Promise!Next
  <2>1. CASE Finished(f)
    BY <2>1, FinishedRefines DEF Promise!Next
  <2>2. CASE ~Finished(f)
    <3>1. PICK r : Progress(f, r)
      BY <1>3, <2>2, StartTaskProgress, SourceAnswersProgress, TaskCancelledProgress DEF Run
    <3>2. task[f].key \in Key /\ (~r.cancel => r.result \in Result)
      BY <3>1 DEF IndInv, TasksShaped, Progress
    <3> QED BY <3>1, <3>2, ProgressRefines DEF Promise!Next
  <2> QED BY <2>1, <2>2
<1>4. ASSUME NEW c \in Caller, NEW k \in Key, GetBufferAsync(c, k)
      PROVE  Unseen \/ Promise!Next
  BY <1>1, <1>4, GetBufferAsyncCases, JoinRefines, BeginRefines DEF Promise!Next
<1>5. ASSUME NEW c \in Caller, Resume(c) \/ CancelCaller(c)
      PROVE  Promise!Next
  BY <1>5, LeftRefines DEF Resume, CancelCaller, Promise!Next
<1>6. Unseen \/ Promise!Next
  BY <1>1, <1>2, <1>3, <1>4, <1>5 DEF Next, vars
<1> QED BY <1>6, UnseenStutters

\* The tasks, counts and callbacks of get_buffer_async implement the shared
\* lookup: one result for everybody aboard, and nobody leaves with another.
THEOREM ImplementsSharedFetch == Spec => SharedFetchSpec
<1>1. IndInv /\ IndInv' /\ [Next]_vars => [Promise!Next]_(Promise!vars)
  BY NextRefines
<1> QED BY <1>1, InitRefines, SpecIndInv, PTL DEF Spec, SharedFetchSpec, Promise!Spec
=============================================================================
