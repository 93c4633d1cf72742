-------------------------- MODULE ActiveExpression --------------------------
(***************************************************************************)
(* Shared evaluations: src/seamless/checksum/expression.py.                *)
(*                                                                         *)
(* Callers that want the result of one key share one _ActiveExpression.    *)
(* They join it as members, wait, and leave; when the last member leaves,  *)
(* the evaluation lingers for a while, and is cancelled unless somebody    *)
(* joins again.  Callers are coroutines on event loops, or threads; an     *)
(* evaluation is a task on the loop of the caller that created it, or is   *)
(* computed by a synchronous caller itself.  Each block under              *)
(* _active_expression_lock is one action, and so is each step of a task or *)
(* a callback on a loop; a loop runs one of these at a time.               *)
(*                                                                         *)
(* What an evaluation computes is not modelled, only whether it ends with  *)
(* a value, an error or a cancellation, and where the bytes of the result  *)
(* are: in this process or on the hashserver.                              *)
(*                                                                         *)
(* Operators whose name starts with Faulty carry a plausible bug, to show  *)
(* that the properties notice it.                                          *)
(***************************************************************************)
EXTENDS Integers, FiniteSets

CONSTANTS
    Key,         \* the cache keys
    Evaluation,  \* the _ActiveExpression objects that exist at the same time
    Caller,      \* whoever calls the engine, one call at a time
    Loop,        \* the event loops
    Brief,       \* the loops that asyncio.run makes for a single call
    LoopOf,      \* LoopOf[c]: the loop that runs in the thread of caller c
    MemberOf,    \* MemberOf[c]: the member id that caller c joins with
    Request,     \* Request[c]: what caller c may ask for
    Earlier,     \* what may be recorded of a result before the first call
    MaxTimers,   \* bound: no call begins while an evaluation has so many timers
    Nobody       \* Python's None where an evaluation, a caller or a loop is expected

\* sync: evaluate_expression_local.  local and remote: the two ends of
\* evaluate_expression_placed.  peek: wait_for_active_key.
Form == {"sync", "local", "remote", "peek"}

ASSUME CallerAssumption ==
    /\ LoopOf \in [Caller -> Loop \union {Nobody}]
    /\ Brief \subseteq Loop
    /\ \A c, d \in Caller : LoopOf[c] \in Brief /\ LoopOf[d] = LoopOf[c] => c = d

ASSUME KeyAssumption == Key # {}
ASSUME BoundAssumption == MaxTimers \in Nat
ASSUME NobodyAssumption == Nobody \notin Evaluation \union Caller \union Loop

\* Is the checksum of the result recorded, are its bytes in memory, on the server.
AnyResult == [cached : BOOLEAN, here : BOOLEAN, written : BOOLEAN]
ASSUME EarlierAssumption == Earlier \subseteq AnyResult

AnyRequest == [form : Form, scratch : BOOLEAN, materialize : BOOLEAN]

\* Coroutines have a loop, and only threads without one wait in a peek, which
\* asks for no bytes.  A placed request for a scratch value is evaluated locally.
ASSUME RequestAssumption ==
    /\ Request \in [Caller -> SUBSET AnyRequest]
    /\ \A c \in Caller : \A r \in Request[c] :
        /\ r.form \in {"local", "remote"} => LoopOf[c] # Nobody
        /\ r.form = "peek" => LoopOf[c] = Nobody /\ ~r.materialize
        /\ r.form = "remote" => ~(r.scratch /\ r.materialize)

VARIABLES
    active,      \* _active_expressions: key -> evaluation
    lingering,   \* _lingering_expressions: key -> evaluation
    evaluation,  \* the fields of every evaluation, with its task and timers
    results,     \* key -> is the result recorded, in memory, on the server
    call,        \* the call that each caller is in
    cancels,     \* callers whose waiter has a waiter.cancel scheduled
    left         \* history: callers that were asked to leave their call

registry == <<active, lingering>>
vars == <<registry, evaluation, results, call, cancels, left>>

-----------------------------------------------------------------------------
(* State *)

Member == {MemberOf[c] : c \in Caller}
Outcome == {"value", "error", "cancelled"}

\* none: a synchronous caller computes.  cancelling: cancel() was called.
\* published: the result is set, but the task has not withdrawn from the
\* registry.  withdrawn: the task ended, its done callback has not run.
Task == {"none", "created", "running", "cancelling", "published", "withdrawn", "done"}

\* Timers of the last linger are fresh, earlier ones stale; linger says
\* whether active.linger is the youngest timer, which has not fired yet.
EvaluationFields ==
    [key : Key, task : Task, loop : Loop \union {Nobody}, remote : BOOLEAN,
     materialize : BOOLEAN, members : SUBSET Member,
     waiters : [Member -> Caller \union {Nobody}],
     result : Outcome \union {"pending"}, scratch : BOOLEAN,
     dispatched : {"no", "scratch", "write"}, claimed : BOOLEAN,
     schedules : Nat, arming : BOOLEAN, fresh : Nat, stale : Nat,
     linger : BOOLEAN]

\* Where a caller is.  own: a synchronous caller that computes the shared
\* result; alone: one that evaluates or dispatches without sharing; ended:
\* its asyncio.run is cancelling what is left on the loop.
Call ==
    [at : {"idle", "ended"}]
    \union [at : {"join", "alone"}, key : Key, request : AnyRequest]
    \union [at : {"wait", "own", "withdraw"}, key : Key, request : AnyRequest,
            eval : Evaluation]
    \union [at : {"leave"}, key : Key, request : AnyRequest, eval : Evaluation,
            outcome : Outcome \union {"alone"}]
    \union [at : {"done"}, key : Key, request : AnyRequest, outcome : Outcome]

TypeOK ==
    /\ active \in [Key -> Evaluation \union {Nobody}]
    /\ lingering \in [Key -> Evaluation \union {Nobody}]
    /\ evaluation \in [Evaluation -> EvaluationFields]
    /\ results \in [Key -> AnyResult]
    /\ call \in [Caller -> Call]
    /\ cancels \subseteq Caller
    /\ left \subseteq Caller

\* No evaluation yet; the result may be known from earlier, and its bytes
\* may be in memory or on the server.
Init ==
    /\ active = [k \in Key |-> Nobody]
    /\ lingering = [k \in Key |-> Nobody]
    /\ evaluation = [e \in Evaluation |->
            [key |-> CHOOSE k \in Key : TRUE, task |-> "done", loop |-> Nobody,
             remote |-> FALSE, materialize |-> FALSE, members |-> {},
             waiters |-> [m \in Member |-> Nobody], result |-> "cancelled",
             scratch |-> TRUE, dispatched |-> "no", claimed |-> FALSE,
             schedules |-> 0, arming |-> FALSE, fresh |-> 0, stale |-> 0,
             linger |-> FALSE]]
    /\ results \in [Key -> Earlier]
    /\ call = [c \in Caller |-> [at |-> "idle"]]
    /\ cancels = {}
    /\ left = {}

Pending(e) == evaluation[e].result = "pending"
Timers(e) == evaluation[e].fresh + evaluation[e].stale

At(c, place) == call[c].at = place
Goto(c, next) == call' = [call EXCEPT ![c] = next]
Calls(c, form) == "request" \in DOMAIN call[c] /\ call[c].request.form = form
Async(c) == Calls(c, "local") \/ Calls(c, "remote")

\* A loop is busy while a synchronous caller runs in its thread and between
\* two steps of one task or callback.
LoopFree(l) ==
    /\ \A c \in Caller : LoopOf[c] = l => ~Calls(c, "sync") \/ At(c, "done")
    /\ \A e \in Evaluation : evaluation[e].loop = l =>
            evaluation[e].task # "published" /\ ~evaluation[e].arming
CanRun(c) == LoopOf[c] = Nobody \/ LoopFree(LoopOf[c])

\* An object that is not needed any more: a new one takes its place.
Unused(e) ==
    /\ \A k \in Key : active[k] # e /\ lingering[k] # e
    /\ \A c \in Caller : "eval" \in DOMAIN call[c] => call[c].eval # e
    /\ evaluation[e].task = "done" /\ ~evaluation[e].arming

\* Bounds: timers do not pile up, and a caller that blocks a loop finds an
\* object, and does not wait for one that only this loop can finish.
Room(c, r) ==
    /\ \A e \in Evaluation : Pending(e) => Timers(e) + evaluation[e].schedules < MaxTimers
    /\ r.form = "sync" /\ LoopOf[c] # Nobody =>
        Cardinality({d \in Caller : At(d, "join")}) < Cardinality({e \in Evaluation : Unused(e)})

-----------------------------------------------------------------------------
(* Joining *)

\* Where the bytes of a result count as present for a request.
Reachable(k, r) == results[k].here \/ (r.form = "remote" /\ results[k].written)
Recorded(k, r) == results[k].cached /\ (~r.materialize \/ Reachable(k, r))

FaultyFound(k) == active[k]
Found(k) == IF active[k] # Nobody THEN active[k] ELSE lingering[k]
Joinable(k) == Found(k) # Nobody /\ Pending(Found(k))

\* Look at the recorded results.  Other steps may come before the join.
FaultyBegin(c, k, r) ==
    /\ At(c, "idle") /\ CanRun(c) /\ Room(c, r)
    /\ IF r.form = "peek"
         THEN Goto(c, [at |-> "wait", key |-> k, request |-> r, eval |-> Found(k)])
         ELSE IF Recorded(k, r)
         THEN Goto(c, [at |-> "done", key |-> k, request |-> r, outcome |-> "value"])
         ELSE Goto(c, [at |-> "join", key |-> k, request |-> r])
    /\ UNCHANGED <<registry, evaluation, results, cancels, left>>

Begin(c, k, r) ==
    /\ At(c, "idle") /\ CanRun(c) /\ Room(c, r)
    /\ IF r.form = "peek"
         THEN /\ Found(k) # Nobody
              /\ Goto(c, [at |-> "wait", key |-> k, request |-> r, eval |-> Found(k)])
         ELSE IF Recorded(k, r)
         THEN Goto(c, [at |-> "done", key |-> k, request |-> r, outcome |-> "value"])
         ELSE Goto(c, [at |-> "join", key |-> k, request |-> r])
    /\ UNCHANGED <<registry, evaluation, results, cancels, left>>

NewEvaluation(c) ==
    LET r == call[c].request
    IN  [key |-> call[c].key,
         task |-> IF Async(c) THEN "created" ELSE "none",
         loop |-> IF Async(c) THEN LoopOf[c] ELSE Nobody,
         remote |-> r.form = "remote",
         materialize |-> r.materialize,
         members |-> {MemberOf[c]},
         waiters |-> [m \in Member |->
                        IF Async(c) /\ m = MemberOf[c] THEN c ELSE Nobody],
         result |-> "pending",
         scratch |-> r.form = "remote" => r.scratch,
         dispatched |-> "no", claimed |-> TRUE,
         schedules |-> 0, arming |-> FALSE, fresh |-> 0, stale |-> 0,
         linger |-> FALSE]

\* TimerHandle.cancel() on active.linger, the youngest timer.
LingerCancelled(f) ==
    IF ~f.linger THEN f
    ELSE [f EXCEPT !.linger = FALSE,
                   !.fresh = IF @ > 0 THEN @ - 1 ELSE @,
                   !.stale = IF f.fresh > 0 THEN @ ELSE @ - 1]

\* _join_expression cancels the linger; a synchronous caller does not, and
\* has no waiter.
Joined(f, c) ==
    LET g == IF Async(c) THEN LingerCancelled(f) ELSE f
    IN  [g EXCEPT !.members = @ \union {MemberOf[c]},
                  !.waiters = IF Async(c) THEN [@ EXCEPT ![MemberOf[c]] = c] ELSE @,
                  !.scratch = @ /\ (Calls(c, "remote") => call[c].request.scratch)]

\* The evaluation becomes the active one, and no longer lingers.
FaultyEnter(c, e, fields) ==
    /\ active' = [active EXCEPT ![call[c].key] = e]
    /\ evaluation' = [evaluation EXCEPT ![e] = fields]
    /\ UNCHANGED <<lingering, results, cancels, left>>

Enter(c, e, fields) ==
    /\ active' = [active EXCEPT ![call[c].key] = e]
    /\ lingering' = [lingering EXCEPT ![call[c].key] =
                        IF active[call[c].key] = Nobody THEN Nobody ELSE @]
    /\ evaluation' = [evaluation EXCEPT ![e] = fields]
    /\ UNCHANGED <<results, cancels, left>>

\* A synchronous caller that would wait for a task on its own loop leaves
\* again and evaluates alone.
Join(c) ==
    LET k == call[c].key
        e == Found(k)
        place == IF Calls(c, "sync") /\ LoopOf[c] # Nobody /\ evaluation[e].loop = LoopOf[c]
                   THEN [at |-> "leave", key |-> k, request |-> call[c].request,
                         eval |-> e, outcome |-> "alone"]
                   ELSE [at |-> "wait", key |-> k, request |-> call[c].request,
                         eval |-> e]
    IN  /\ At(c, "join")
        /\ Async(c) => CanRun(c)
        /\ Joinable(k)
        /\ Enter(c, e, Joined(evaluation[e], c))
        /\ Goto(c, place)

\* A result that is done but not withdrawn yet is not joined.
Create(c) ==
    LET k == call[c].key
    IN  /\ At(c, "join")
        /\ Async(c) => CanRun(c)
        /\ ~Joinable(k)
        /\ \E e \in Evaluation :
            /\ Unused(e)
            /\ Enter(c, e, NewEvaluation(c))
            /\ Goto(c, [at |-> IF Async(c) THEN "wait" ELSE "own", key |-> k,
                        request |-> call[c].request, eval |-> e])

-----------------------------------------------------------------------------
(* The task of an evaluation *)

RecordValue(k, here, written) ==
    results' = [results EXCEPT ![k] =
        [cached |-> TRUE, here |-> @.here \/ here, written |-> @.written \/ written]]

SetFields(e, fields) == evaluation' = [evaluation EXCEPT ![e] = fields]

\* A local task looks at the recorded results again, and then publishes one
\* without awaiting anything; a remote one decides whether to ask for a write.
Start(e) ==
    LET f == evaluation[e]
        recorded == results[f.key].cached /\ (~f.materialize \/ results[f.key].here)
    IN  /\ f.task = "created" /\ LoopFree(f.loop)
        /\ SetFields(e,
            IF f.remote
              THEN [f EXCEPT !.task = "running",
                             !.dispatched = IF f.scratch THEN "scratch" ELSE "write"]
              ELSE IF recorded THEN [f EXCEPT !.task = "published", !.result = "value"]
              ELSE [f EXCEPT !.task = "running"])
        /\ UNCHANGED <<registry, results, call, cancels, left>>

Finish(e, outcome) ==
    LET f == evaluation[e]
    IN  /\ f.task = "running" /\ LoopFree(f.loop)
        /\ SetFields(e, [f EXCEPT !.task = "published", !.result = outcome])
        /\ IF outcome = "value"
             THEN RecordValue(f.key, ~f.remote, f.dispatched = "write")
             ELSE UNCHANGED results
        /\ UNCHANGED <<registry, call, cancels, left>>

\* CancelledError reaches the task, which publishes it.
Cancelled(e) ==
    LET f == evaluation[e]
    IN  /\ f.task = "cancelling" /\ LoopFree(f.loop)
        /\ SetFields(e, [f EXCEPT !.task = "published", !.result = "cancelled"])
        /\ UNCHANGED <<registry, results, call, cancels, left>>

\* The end of execute(), local tasks only.
Withdraw(e) ==
    LET f == evaluation[e]
    IN  /\ f.task = "published" /\ ~f.remote
        /\ active' = [active EXCEPT ![f.key] = IF @ = e THEN Nobody ELSE @]
        /\ SetFields(e, [f EXCEPT !.task = "withdrawn"])
        /\ UNCHANGED <<lingering, results, call, cancels, left>>

\* _discard_active_expression: done callback, and the end of a remote task.
\* A task that was cancelled before its first step has published nothing.
\* What a finished evaluation has left of its members, callbacks and timers
\* never matters again, and is dropped here.
Dropped(f) ==
    [f EXCEPT !.task = "done", !.members = {}, !.waiters = [m \in Member |-> Nobody],
              !.schedules = 0, !.fresh = 0, !.stale = 0, !.linger = FALSE]

FaultyDiscarded(f) == [Dropped(f) EXCEPT !.claimed = FALSE]
FaultyDiscardedWithClaims(f) ==
    [Dropped(f) EXCEPT !.result = IF @ = "pending" THEN "cancelled" ELSE @]
Discarded(f) ==
    [Dropped(f) EXCEPT !.claimed = FALSE,
                       !.result = IF @ = "pending" THEN "cancelled" ELSE @]

Unregister(k, e) ==
    /\ active' = [active EXCEPT ![k] = IF @ = e THEN Nobody ELSE @]
    /\ lingering' = [lingering EXCEPT ![k] = IF @ = e THEN Nobody ELSE @]

Discard(e) ==
    LET f == evaluation[e]
    IN  /\ \/ f.task = "published" /\ f.remote
           \/ f.task = "withdrawn" /\ LoopFree(f.loop)
        /\ Unregister(f.key, e)
        /\ SetFields(e, Discarded(f))
        /\ UNCHANGED <<results, call, cancels, left>>

\* Task.cancel(): a task that has not started never enters its body.
TaskCancelled(f) ==
    [f EXCEPT !.task = CASE @ = "created" -> "withdrawn"
                         [] @ = "running" -> "cancelling"
                         [] OTHER -> @]

-----------------------------------------------------------------------------
(* Leaving *)

\* softcancel_expression looks the evaluation up by its key.  c is the caller
\* that leaves, or Nobody for a call from outside.
FaultyMoveToLinger(f) == [f EXCEPT !.stale = @ + f.fresh, !.fresh = 0]
FaultyMoveToLingerCancelled(f) ==
    [f EXCEPT !.task = IF @ = "running" THEN "cancelling" ELSE @,
              !.schedules = @ + 1, !.stale = @ + f.fresh, !.fresh = 0]
MoveToLinger(f) ==
    [f EXCEPT !.schedules = @ + 1, !.stale = @ + f.fresh, !.fresh = 0]

Leaves(k, m) ==
    /\ active[k] # Nobody
    /\ m \in evaluation[active[k]].members
    /\ Pending(active[k])

WithoutMember(f, m) == [f EXCEPT !.members = @ \ {m}, !.waiters[m] = Nobody]

Softcancel(k, m, c) ==
    LET e == active[k]
        f == WithoutMember(evaluation[e], m)
        d == evaluation[e].waiters[m]
    IN  IF ~Leaves(k, m)
          THEN /\ cancels' = cancels \ {c}
               /\ UNCHANGED <<registry, evaluation>>
          ELSE /\ cancels' = (IF d # Nobody /\ At(d, "wait") /\ call[d].eval = e
                                THEN cancels \union {d} ELSE cancels) \ {c}
               /\ IF f.members = {} /\ f.task # "none"
                    THEN /\ active' = [active EXCEPT ![k] = Nobody]
                         /\ lingering' = [lingering EXCEPT ![k] = e]
                         /\ SetFields(e, MoveToLinger(f))
                    ELSE /\ SetFields(e, f)
                         /\ UNCHANGED registry

\* Expression.softcancel() of the instance with member id m.
SoftcancelExpression(k, m) ==
    /\ Leaves(k, m)
    /\ Softcancel(k, m, Nobody)
    /\ left' = left \union {c \in Caller : /\ MemberOf[c] = m /\ At(c, "wait")
                                           /\ ~Calls(c, "peek")
                                           /\ call[c].eval = active[k]}
    /\ UNCHANGED <<results, call>>

\* The callback schedule() decides, and then arms a timer without the lock.
Schedule(e) ==
    LET f == evaluation[e]
    IN  /\ f.schedules > 0 /\ LoopFree(f.loop)
        /\ SetFields(e, [f EXCEPT !.schedules = @ - 1,
                                  !.arming = f.members = {} /\ Pending(e)])
        /\ UNCHANGED <<registry, results, call, cancels, left>>

Arm(e) ==
    LET f == evaluation[e]
    IN  /\ f.arming
        /\ SetFields(e, [f EXCEPT !.arming = FALSE, !.fresh = @ + 1, !.linger = TRUE])
        /\ UNCHANGED <<registry, results, call, cancels, left>>

\* Timers all have the same delay: the oldest fires first.
Fired(f) ==
    [f EXCEPT !.linger = @ /\ f.fresh + f.stale > 1,
              !.stale = IF @ > 0 THEN @ - 1 ELSE @,
              !.fresh = IF f.stale > 0 THEN @ ELSE @ - 1]

Expires(e) == lingering[evaluation[e].key] = e

Expire(e) ==
    LET f == evaluation[e]
    IN  /\ Timers(e) > 0 /\ LoopFree(f.loop)
        /\ IF Expires(e)
             THEN /\ lingering' = [lingering EXCEPT ![f.key] = Nobody]
                  /\ SetFields(e, IF f.members = {} THEN TaskCancelled(Fired(f))
                                  ELSE Fired(f))
             ELSE /\ SetFields(e, Fired(f))
                  /\ UNCHANGED lingering
        /\ UNCHANGED <<active, results, call, cancels, left>>

-----------------------------------------------------------------------------
(* Callers *)

LeaveWith(c, outcome) ==
    Goto(c, [at |-> "leave", key |-> call[c].key, request |-> call[c].request,
             eval |-> call[c].eval, outcome |-> outcome])
Done(c, outcome) ==
    Goto(c, [at |-> "done", key |-> call[c].key, request |-> call[c].request,
             outcome |-> outcome])

\* The result reaches the waiter; a peeking thread has no membership to leave.
Resume(c) ==
    /\ At(c, "wait") /\ ~Pending(call[c].eval)
    /\ Async(c) => CanRun(c)
    /\ IF Calls(c, "peek")
         THEN Done(c, evaluation[call[c].eval].result)
         ELSE LeaveWith(c, evaluation[call[c].eval].result)
    /\ UNCHANGED <<registry, evaluation, results, cancels, left>>

\* waiter.cancel runs on the caller's loop.
WaiterCancelled(c) ==
    /\ c \in cancels
    /\ At(c, "wait") /\ CanRun(c)
    /\ LeaveWith(c, "cancelled")
    /\ UNCHANGED <<registry, evaluation, results, cancels, left>>

\* The asyncio task of the caller is cancelled.
CancelCaller(c) ==
    /\ At(c, "wait") /\ Async(c) /\ CanRun(c)
    /\ LeaveWith(c, "cancelled")
    /\ left' = left \union {c}
    /\ UNCHANGED <<registry, evaluation, results, cancels>>

\* After a joined evaluation a caller may still lack the bytes it asked for.
FaultyBytesMissingByScratch(c) ==
    LET r == call[c].request
    IN  /\ call[c].outcome = "value" /\ r.materialize
        /\ ~Reachable(call[c].key, r)
        /\ r.form = "remote" => evaluation[call[c].eval].scratch
BytesMissing(c) ==
    LET r == call[c].request
    IN  /\ call[c].outcome = "value" /\ r.materialize
        /\ ~Reachable(call[c].key, r)
        /\ r.form = "remote" => evaluation[call[c].eval].dispatched = "scratch"

Leave(c) ==
    LET k == call[c].key
    IN  /\ At(c, "leave")
        /\ Async(c) => CanRun(c)
        /\ Softcancel(k, MemberOf[c], c)
        /\ IF call[c].outcome = "alone" \/ BytesMissing(c)
             THEN Goto(c, [at |-> "alone", key |-> k, request |-> call[c].request])
             ELSE Done(c, call[c].outcome)
        /\ UNCHANGED <<results, left>>

\* Evaluate here without joining, or dispatch once more and ask for a write.
EvaluateAlone(c, outcome) ==
    /\ At(c, "alone")
    /\ Async(c) => CanRun(c)
    /\ Done(c, outcome)
    /\ IF outcome = "value"
         THEN RecordValue(call[c].key, ~Calls(c, "remote"), Calls(c, "remote"))
         ELSE UNCHANGED results
    /\ UNCHANGED <<registry, evaluation, cancels, left>>

\* A synchronous caller that owns the evaluation computes, publishes ...
SyncPublish(c, outcome) ==
    /\ At(c, "own")
    /\ SetFields(call[c].eval, [evaluation[call[c].eval] EXCEPT !.result = outcome])
    /\ IF outcome = "value" THEN RecordValue(call[c].key, TRUE, FALSE)
       ELSE UNCHANGED results
    /\ Goto(c, [at |-> "withdraw", key |-> call[c].key, request |-> call[c].request,
                eval |-> call[c].eval])
    /\ UNCHANGED <<registry, cancels, left>>

\* ... and withdraws.
SyncWithdraw(c) ==
    LET e == call[c].eval
    IN  /\ At(c, "withdraw")
        /\ Unregister(call[c].key, e)
        /\ SetFields(e, Discarded(evaluation[e]))
        /\ Done(c, evaluation[e].result)
        /\ UNCHANGED <<results, cancels, left>>

\* asyncio.run cancels the tasks that are left on its loop ...
Return(c) ==
    /\ At(c, "done")
    /\ left' = left \ {c}
    /\ IF LoopOf[c] \in Brief
         THEN /\ Goto(c, [at |-> "ended"])
              /\ evaluation' = [e \in Evaluation |->
                    IF evaluation[e].loop = LoopOf[c] THEN TaskCancelled(evaluation[e])
                    ELSE evaluation[e]]
         ELSE /\ Goto(c, [at |-> "idle"])
              /\ UNCHANGED evaluation
    /\ UNCHANGED <<registry, results, cancels>>

\* ... waits for them and closes the loop.
CloseLoop(c) ==
    /\ At(c, "ended")
    /\ \A e \in Evaluation : evaluation[e].loop = LoopOf[c] =>
            evaluation[e].task = "done" /\ ~evaluation[e].arming
    /\ Goto(c, [at |-> "idle"])
    /\ UNCHANGED <<registry, evaluation, results, cancels, left>>

-----------------------------------------------------------------------------

Ask(c) == \E k \in Key, r \in Request[c] : Begin(c, k, r)

\* What a caller does once it has begun a call.
Proceed(c) ==
    \/ Join(c) \/ Create(c) \/ Resume(c) \/ WaiterCancelled(c) \/ Leave(c)
    \/ \E outcome \in {"value", "error"} :
            EvaluateAlone(c, outcome) \/ SyncPublish(c, outcome)
    \/ SyncWithdraw(c) \/ Return(c) \/ CloseLoop(c)

\* The steps of a task, but for the end of its work; and the steps of schedule().
TaskStep(e) == Start(e) \/ Cancelled(e) \/ Withdraw(e) \/ Discard(e)
ScheduleStep(e) == Schedule(e) \/ Arm(e)

Next ==
    \/ \E c \in Caller : Ask(c) \/ Proceed(c) \/ CancelCaller(c)
    \/ \E k \in Key, m \in Member : SoftcancelExpression(k, m)
    \/ \E e \in Evaluation :
        \/ TaskStep(e) \/ ScheduleStep(e) \/ Expire(e)
        \/ \E outcome \in {"value", "error"} : Finish(e, outcome)

Spec == Init /\ [][Next]_vars

\* Callers go on, loops run what is ready and timers fire; an evaluation may
\* take for ever.  A ready callback waits for the callbacks before it, whose
\* steps make the loop busy again and again: hence strong fairness.
HangSpec ==
    /\ Spec
    /\ \A c \in Caller : SF_vars(Proceed(c))
    /\ \A e \in Evaluation :
        SF_vars(TaskStep(e)) /\ SF_vars(ScheduleStep(e)) /\ SF_vars(Expire(e))

\* An evaluation that runs ends.
WorkEnds ==
    \A e \in Evaluation : SF_vars(\E outcome \in {"value", "error"} : Finish(e, outcome))

-----------------------------------------------------------------------------
(* Properties *)

\* An evaluation that can still produce a result is one that callers can
\* join: nothing runs that the registry has lost, and so at most one
\* evaluation of a key runs that was not cancelled, whoever joins, leaves,
\* finishes and expires meanwhile.
Running(e) ==
    Pending(e) /\ evaluation[e].task \in {"none", "created", "running"}
SharedOnce ==
    /\ \A e \in Evaluation :
        Running(e) => e \in {active[evaluation[e].key], lingering[evaluation[e].key]}
    /\ \A k \in Key : active[k] = Nobody \/ lingering[k] = Nobody

\* A lingering evaluation has no members, and one without members lingers,
\* unless a synchronous caller computes it: only what nobody waits for is
\* ever left to a timer, and everything that nobody waits for is.
AbandonedLingers ==
    /\ \A k \in Key : lingering[k] # Nobody /\ Pending(lingering[k]) =>
        evaluation[lingering[k]].members = {} /\ evaluation[lingering[k]].task # "none"
    /\ \A k \in Key : active[k] # Nobody /\ Running(active[k]) =>
        evaluation[active[k]].members # {} \/ evaluation[active[k]].task = "none"

\* softcancel takes one member out "without interrupting shared work"; the
\* tests add that the "work continues for the other member".  So whose wait ends
\* with a cancellation was asked to leave, but for two kinds of callers: who
\* waits for a task on the loop of an asyncio.run, which ends with the call of
\* somebody else (expression_class.py:272), and who shares its member id, that
\* of an Expression, with another caller (expression_class.py:440).
WaitCancelled(c) == At(c, "wait") /\ At(c, "leave")' /\ call'[c].outcome = "cancelled"
OnBriefLoop(c) == evaluation[call[c].eval].loop \in Brief
Lone(c) == \A d \in Caller \ {c} : MemberOf[d] # MemberOf[c]
OnlyLeaversCancelled ==
    [][\A c \in Caller : WaitCancelled(c) => c \in left' \/ OnBriefLoop(c) \/ ~Lone(c)]_vars

\* Without exceptions; it fails for either kind of callers.
OthersNotCancelled == [][\A c \in Caller : WaitCancelled(c) => c \in left']_vars

\* The inputs of an evaluation stay claimed for as long as it may need them,
\* and the claims are given back at its end, however it ends.
ClaimsFollowWork ==
    /\ \A e \in Evaluation : Pending(e) => evaluation[e].claimed
    /\ \A e \in Evaluation : Unused(e) => ~evaluation[e].claimed

\* The parts of the inductive invariant that the runs do not ask for: an
\* evaluation is registered under its own key, active.linger is one of its
\* timers, what is over is neither awaited nor claimed, and a synchronous
\* caller that withdraws has published.
KeysMatch ==
    \A k \in Key, e \in Evaluation :
        active[k] = e \/ lingering[k] = e => evaluation[e].key = k
TimersCounted == \A e \in Evaluation : evaluation[e].linger => Timers(e) > 0
DoneIsOver ==
    \A e \in Evaluation : evaluation[e].task = "done" => ~evaluation[e].claimed /\ ~Pending(e)
PublishedFirst == \A c \in Caller : At(c, "withdraw") => ~Pending(call[c].eval)

\* Registered, running, abandoned and claimed evaluations fit together in
\* every reachable state; each of the properties above follows.
IndInv ==
    /\ TypeOK
    /\ KeysMatch /\ SharedOnce /\ AbandonedLingers
    /\ TimersCounted /\ DoneIsOver /\ PublishedFirst /\ ClaimsFollowWork

\* A request for the bytes is answered with a value only when they are there,
\* in this process or, for a remote caller, on the hashserver, whatever evaluation
\* the caller joined.  The exception is a remote caller that joined a local
\* evaluation of the checksum alone, which it takes for an answer
\* (expression.py:599).
Answered(c) == At(c, "done") /\ call[c].outcome = "value"
HasBytes(c) == call[c].request.materialize => Reachable(call[c].key, call[c].request)
ChecksumOnly(e) == ~evaluation[e].remote /\ ~evaluation[e].materialize
JoinedChecksumOnly(c) == At(c, "leave") /\ Calls(c, "remote") /\ ChecksumOnly(call[c].eval)
MaterializedAnswered ==
    [][\A c \in Caller :
        ~At(c, "done") /\ Answered(c)' => HasBytes(c)' \/ JoinedChecksumOnly(c)]_vars

\* Without the exception; it fails for such a caller.
BytesAlways == \A c \in Caller : Answered(c) => HasBytes(c)

\* What the induction for MaterializedAnswered rests on.  A caller asks for what
\* it may, its evaluation has its key, and one that it computes itself has no
\* task; a value has bytes somewhere, unless the evaluation was for the checksum
\* alone, or was dispatched and not asked to write them.
CallMatches(c) ==
    /\ call[c].at \notin {"idle", "ended"} => call[c].request \in Request[c]
    /\ call[c].at \in {"wait", "own", "withdraw", "leave"} =>
        evaluation[call[c].eval].key = call[c].key
    /\ call[c].at \in {"own", "withdraw"} =>
        evaluation[call[c].eval].task \in {"none", "done"}
Backed(k, e) ==
    \/ evaluation[e].dispatched = "scratch" \/ ChecksumOnly(e)
    \/ results[k].here \/ results[k].written
ValueBacked(e) ==
    LET f == evaluation[e]
    IN  /\ f.result = "value" => Backed(f.key, e)
        /\ f.task = "created" => f.dispatched = "no"
        /\ f.task = "running" /\ f.remote => f.dispatched # "no"
AnswerBacked(c) ==
    /\ CallMatches(c)
    /\ At(c, "leave") /\ call[c].outcome = "value" => Backed(call[c].key, call[c].eval)
    /\ At(c, "withdraw") /\ evaluation[call[c].eval].result = "value" =>
        results[call[c].key].here
BytesFollow == (\A e \in Evaluation : ValueBacked(e)) /\ (\A c \in Caller : AnswerBacked(c))

\* What the induction for OnlyLeaversCancelled rests on.  But for the loop of an
\* asyncio.run, a task that is being cancelled, or was before it started, is out
\* of the registry and has no members; everybody who waits and has a member id of
\* its own is a member until it is asked to leave; waiters are those of their
\* member, and cancelled only when it leaves.
Doomed(e) ==
    \/ evaluation[e].task = "cancelling"
    \/ evaluation[e].task = "withdrawn" /\ Pending(e)
WorkUndisturbed(e) ==
    LET f == evaluation[e]
    IN  /\ f.task \in {"created", "running", "cancelling"} => Pending(e)
        /\ f.task = "published" => ~Pending(e)
        /\ Doomed(e) /\ f.loop \notin Brief =>
            f.members = {} /\ e \notin {active[f.key], lingering[f.key]}
        /\ \A m \in Member : f.waiters[m] # Nobody =>
            MemberOf[f.waiters[m]] = m /\ LoopOf[f.waiters[m]] # Nobody
CallUndisturbed(c) ==
    /\ CallMatches(c)
    /\ c \in cancels => LoopOf[c] # Nobody /\ call[c].at \in {"wait", "leave"}
    /\ At(c, "withdraw") => evaluation[call[c].eval].result \in {"value", "error"}
    /\ Lone(c) /\ c \notin left =>
        /\ c \notin cancels
        /\ At(c, "wait") /\ ~Calls(c, "peek") =>
            /\ Pending(call[c].eval) => MemberOf[c] \in evaluation[call[c].eval].members
            /\ evaluation[call[c].eval].result # "cancelled" \/ OnBriefLoop(c)
Undisturbed ==
    (\A e \in Evaluation : WorkUndisturbed(e)) /\ (\A c \in Caller : CallUndisturbed(c))

\* "shared evaluation survives a bounded linger": a timer that cancels was
\* armed after the last member left, not by an earlier departure.
LingerInFull ==
    [][\A e \in Evaluation :
        Expires(e) /\ Pending(e) /\ Expire(e) => evaluation[e].stale = 0]_vars

\* An evaluation that nobody waits for does not run for ever.
LingerEnds == \A k \in Key, e \in Evaluation : (lingering[k] = e) ~> (lingering[k] # e)

\* Every call comes back if evaluations end.
CallReturns == WorkEnds => \A c \in Caller : ~At(c, "idle") ~> At(c, "idle")

=============================================================================
