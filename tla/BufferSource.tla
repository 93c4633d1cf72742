---------------------------- MODULE BufferSource ----------------------------
(***************************************************************************)
(* Local buffer sources: src/seamless/caching/buffer_source.py.            *)
(*                                                                         *)
(* Owners register stores; a lookup asks the stores that are registered    *)
(* when it starts, one after the other, and takes the first buffer whose   *)
(* content has the checksum.  Lookups of coroutines on one loop for one    *)
(* checksum share a task: _pending has the task and the number of waiters, *)
(* and the waiter that leaves last cancels it.                             *)
(*                                                                         *)
(* The model has one checksum on one loop: keys with another checksum or   *)
(* another loop never meet.  An action is a stretch of code between two    *)
(* awaits.  Sources live outside the repository's src: one that is asked   *)
(* finds nothing, raises, or returns content that is right or wrong.       *)
(* A caller that comes back may start another lookup.                      *)
(***************************************************************************)
EXTENDS Integers, FiniteSets, SequencesExt

CONSTANTS
    Caller,    \* coroutines that look up the checksum
    Task,      \* lookup tasks that exist at the same time
    Owner,     \* owners of sources; each has one source
    Getters,   \* Getters[o]: which of "sync" and "async" the source of o has
    Trusted,   \* owners whose source has returns_verified_buffer
    Nothing

ASSUME SourceAssumption ==
    /\ IsFiniteSet(Caller)
    /\ Getters \in [Owner -> SUBSET {"sync", "async"}]
    /\ Trusted \subseteq Owner
    /\ Nothing \notin {"found", "missed", "cancelled"}
    /\ Nothing \notin [task : Task, waiters : Nat]

VARIABLES
    sources,   \* _sources_by_owner, in the order of registration
    pending,   \* _pending: async_only -> task and number of waiters
    task,      \* the lookup tasks
    call       \* the call that each caller is in

vars == <<sources, pending, task, call>>

-----------------------------------------------------------------------------
(* State *)

\* The last part of a key: get_async_only_buffer_source or not.
Key == BOOLEAN

Result == {"found", "missed"}

\* created: not started.  asking: at the await for the first of the sources
\* in todo.  ended: done, finished (its callback) has not run.  over: done and
\* called back.  A task that is asked to cancel ends at its next step.
TaskState ==
    [at : {"created", "asking", "ended", "over"}, key : Key,
     todo : Seq(Owner), cancel : BOOLEAN, result : Result \union {"cancelled"}]

Call == [at : {"idle"}] \union [at : {"waiting"}, task : Task, key : Key]

Idle == [at |-> "idle"]
NoTask == [at |-> "over", key |-> FALSE, todo |-> <<>>, cancel |-> FALSE, result |-> "missed"]

TypeOK ==
    /\ sources \in Seq(Owner)
    /\ pending \in [Key -> [task : Task, waiters : Nat \ {0}] \union {Nothing}]
    /\ task \in [Task -> TaskState]
    /\ call \in [Caller -> Call]

Init ==
    /\ sources = <<>>
    /\ pending = [k \in Key |-> Nothing]
    /\ task = [f \in Task |-> NoTask]
    /\ call = [c \in Caller |-> Idle]

Done(f) == task[f].at \in {"ended", "over"}
WaitersOf(f) == {c \in Caller : call[c].at = "waiting" /\ call[c].task = f}

\* A task object that nobody knows any more stands for a new one.
Unused(f) ==
    /\ task[f].at = "over" /\ WaitersOf(f) = {}
    /\ \A k \in Key : pending[k] # Nothing => pending[k].task # f

-----------------------------------------------------------------------------
(* Registration *)

\* replace: the owner's sources go to the end of the order.
Replace(o) ==
    /\ sources' = Append(SelectSeq(sources, LAMBDA p : p # o), o)
    /\ UNCHANGED <<pending, task, call>>

Unregister(o) ==
    /\ o \in Range(sources)
    /\ sources' = SelectSeq(sources, LAMBDA p : p # o)
    /\ UNCHANGED <<pending, task, call>>

-----------------------------------------------------------------------------
(* The lookup task *)

\* _get_buffer_uncached passes over a source without a suitable getter.
Suits(o, asyncOnly) ==
    IF asyncOnly THEN Getters[o] = {"async"} ELSE Getters[o] # {}

StartTask(f) ==
    /\ task[f].at = "created" /\ ~task[f].cancel
    /\ LET todo == SelectSeq(sources, LAMBDA o : Suits(o, task[f].key)) IN
       task' = [task EXCEPT ![f].todo = todo,
                            ![f].at = IF todo = <<>> THEN "ended" ELSE "asking",
                            ![f].result = "missed"]
    /\ UNCHANGED <<sources, pending, call>>

\* _to_buffer: content that the source vouches for is taken as it is, other
\* content only if it has the checksum.  A trusted source keeps its promise.
Accepted(o, content) == content = "right" \/ (o \in Trusted /\ content = "vouched")
Answers(o) == {"none", "raises", "wrong", "right"} \union (IF o \in Trusted THEN {"vouched"} ELSE {})

\* The source answers; a miss, an exception or wrong content lead to the next.
SourceAnswers(f) ==
    /\ task[f].at = "asking" /\ ~task[f].cancel
    /\ \E content \in Answers(Head(task[f].todo)) :
        LET rest == Tail(task[f].todo)
            taken == Accepted(Head(task[f].todo), content)
        IN  task' = [task EXCEPT ![f].todo = rest,
                                 ![f].at = IF taken \/ rest = <<>> THEN "ended" ELSE @,
                                 ![f].result = IF taken THEN "found" ELSE @]
    /\ UNCHANGED <<sources, pending, call>>

TaskCancelled(f) ==
    /\ task[f].at \in {"created", "asking"} /\ task[f].cancel
    /\ task' = [task EXCEPT ![f].at = "ended", ![f].result = "cancelled"]
    /\ UNCHANGED <<sources, pending, call>>

\* The callback of the task: it forgets the task unless another took its place.
FaultyFinished(f) ==
    /\ task[f].at = "ended"
    /\ pending' = [pending EXCEPT ![task[f].key] = Nothing]
    /\ task' = [task EXCEPT ![f].at = "over"]
    /\ UNCHANGED <<sources, call>>
Finished(f) ==
    /\ task[f].at = "ended"
    /\ pending' = [k \in Key |->
                     IF pending[k] # Nothing /\ pending[k].task = f THEN Nothing ELSE pending[k]]
    /\ task' = [task EXCEPT ![f].at = "over"]
    /\ UNCHANGED <<sources, call>>

-----------------------------------------------------------------------------
(* Callers *)

\* get_buffer_async up to its await.
GetBufferAsync(c, k) ==
    /\ call[c] = Idle
    /\ IF sources = <<>>
       THEN UNCHANGED <<pending, task, call>>
       ELSE \/ /\ pending[k] # Nothing
               /\ pending' = [pending EXCEPT ![k].waiters = @ + 1]
               /\ call' = [call EXCEPT ![c] = [at |-> "waiting", task |-> pending[k].task, key |-> k]]
               /\ UNCHANGED task
            \/ /\ pending[k] = Nothing
               /\ \E f \in Task :
                    /\ Unused(f)
                    /\ task' = [task EXCEPT ![f] = [at |-> "created", key |-> k, todo |-> <<>>,
                                                    cancel |-> FALSE, result |-> "missed"]]
                    /\ pending' = [pending EXCEPT ![k] = [task |-> f, waiters |-> 1]]
                    /\ call' = [call EXCEPT ![c] = [at |-> "waiting", task |-> f, key |-> k]]
    /\ UNCHANGED sources

\* The finally block of a caller that leaves.
FaultyLeft(c) ==
    LET f == call[c].task
        k == call[c].key
    IN  /\ call' = [call EXCEPT ![c] = Idle]
        /\ IF pending[k] = Nothing \/ pending[k].task # f THEN UNCHANGED <<pending, task>>
           ELSE /\ pending' = [pending EXCEPT ![k] = Nothing]
                /\ task' = IF Done(f) THEN task ELSE [task EXCEPT ![f].cancel = TRUE]
Left(c) ==
    LET f == call[c].task
        k == call[c].key
    IN  /\ call' = [call EXCEPT ![c] = Idle]
        /\ IF pending[k] = Nothing \/ pending[k].task # f THEN UNCHANGED <<pending, task>>
           ELSE IF pending[k].waiters > 1
           THEN pending' = [pending EXCEPT ![k].waiters = @ - 1] /\ UNCHANGED task
           ELSE /\ pending' = [pending EXCEPT ![k] = Nothing]
                /\ task' = IF Done(f) THEN task ELSE [task EXCEPT ![f].cancel = TRUE]

\* The shielded task is done: the caller goes on with its result.
FaultyResume(c) ==
    /\ call[c].at = "waiting" /\ Done(call[c].task)
    /\ pending[call[c].key] # Nothing /\ pending[call[c].key].task = call[c].task
    /\ Left(c)
    /\ UNCHANGED sources
Resume(c) ==
    /\ call[c].at = "waiting" /\ Done(call[c].task)
    /\ Left(c)
    /\ UNCHANGED sources

\* Somebody cancels the caller at its await; the shield keeps the task.
CancelCaller(c) ==
    /\ call[c].at = "waiting"
    /\ Left(c)
    /\ UNCHANGED sources

-----------------------------------------------------------------------------
Run(f) == StartTask(f) \/ SourceAnswers(f) \/ TaskCancelled(f) \/ Finished(f)

Next ==
    \/ \E o \in Owner : Replace(o) \/ Unregister(o)
    \/ \E f \in Task : Run(f)
    \/ \E c \in Caller :
        \/ \E k \in Key : GetBufferAsync(c, k)
        \/ Resume(c) \/ CancelCaller(c)

Spec == Init /\ [][Next]_vars

\* The loop runs what is ready, and sources answer.
FairSpec ==
    /\ Spec
    /\ \A f \in Task : WF_vars(Run(f))
    /\ \A c \in Caller : WF_vars(Resume(c))

-----------------------------------------------------------------------------
(* Properties *)

\* A lookup that goes on is wanted: somebody waits for it and it is the one
\* that a new caller would join, so a key has at most one (get_buffer_async).
LookupWanted ==
    \A f \in Task :
        ~Done(f) /\ ~task[f].cancel =>
            /\ WaitersOf(f) # {}
            /\ pending[task[f].key] # Nothing /\ pending[task[f].key].task = f

\* The inductive invariant.  A task that was asked to cancel has no waiters
\* and can no longer be joined; any other that is under way is the one to
\* join, and the count of its entry is the number of its waiters.
TasksShaped ==
    /\ DOMAIN task = Task
    /\ \A f \in Task :
        /\ DOMAIN task[f] = {"at", "key", "todo", "cancel", "result"}
        /\ task[f].at \in {"created", "asking", "ended", "over"}
        /\ task[f].key \in Key
        /\ task[f].cancel \in BOOLEAN
        /\ task[f].result \in Result \union {"cancelled"}
        /\ task[f].result = "cancelled" => task[f].cancel

WaitersCounted ==
    \A k \in Key : pending[k] # Nothing =>
        /\ task[pending[k].task].at # "over"
        /\ task[pending[k].task].key = k
        /\ pending[k].waiters = Cardinality(WaitersOf(pending[k].task))

WaitersAgree ==
    \A c \in Caller : call[c].at = "waiting" => task[call[c].task].key = call[c].key

CancelledAlone ==
    \A f \in Task : task[f].cancel =>
        /\ WaitersOf(f) = {}
        /\ \A k \in Key : pending[k] # Nothing => pending[k].task # f

UnderWayShared ==
    \A f \in Task : ~Done(f) /\ ~task[f].cancel =>
        pending[task[f].key] # Nothing /\ pending[task[f].key].task = f

IndInv ==
    /\ pending \in [Key -> [task : Task, waiters : Nat \ {0}] \union {Nothing}]
    /\ call \in [Caller -> Call]
    /\ TasksShaped /\ WaitersCounted /\ WaitersAgree
    /\ CancelledAlone /\ UnderWayShared

\* Every lookup comes back, however many callers join and leave meanwhile.
LookupReturns == \A c \in Caller : call[c].at = "waiting" ~> call[c].at # "waiting"

\* The shared lookups implement SharedFetch: the callers aboard are the
\* waiters of the task that is under way, and none of them is cancelled with
\* another (the docstring of get_buffer_async).
Aboard(k) == {c \in Caller : call[c].at = "waiting" /\ call[c].key = k /\ ~Done(call[c].task)}
Landed(c) == IF call[c].at = "waiting" /\ Done(call[c].task)
             THEN task[call[c].task].result ELSE Nothing
Recent(k) == IF pending[k] # Nothing /\ Done(pending[k].task)
             THEN task[pending[k].task].result ELSE Nothing

Promise == INSTANCE SharedFetch WITH
    aboard <- [k \in Key |-> Aboard(k)],
    landed <- [c \in Caller |-> Landed(c)],
    recent <- [k \in Key |-> Recent(k)]

SharedFetchSpec == Promise!Spec
=============================================================================
