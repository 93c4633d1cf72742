----------------------- MODULE ActiveExpressionProofs -----------------------
(***************************************************************************)
(* Proofs about ActiveExpression, for any number of keys, callers, loops   *)
(* and evaluations.                                                        *)
(***************************************************************************)
EXTENDS ActiveExpression, TLAPS

-----------------------------------------------------------------------------
(* The fields of an evaluation *)

\* What an evaluation record is made of.
LEMMA FieldsOf ==
    ASSUME NEW f \in EvaluationFields
    PROVE  /\ f.key \in Key /\ f.task \in Task
           /\ f.members \in SUBSET Member
           /\ f.waiters \in [Member -> Caller \union {Nobody}]
           /\ f.result \in Outcome \union {"pending"}
           /\ f.schedules \in Nat /\ f.fresh \in Nat /\ f.stale \in Nat
           /\ f.linger \in BOOLEAN /\ f.claimed \in BOOLEAN
           /\ f.loop \in Loop \union {Nobody}
BY DEF EvaluationFields

\* Cancelling the handle that is remembered takes one of the timers away.
LEMMA LingerCancelledFields ==
    ASSUME NEW f \in EvaluationFields, f.linger => f.fresh + f.stale > 0,
           NEW g, g = LingerCancelled(f)
    PROVE  /\ g \in EvaluationFields
           /\ ~g.linger
           /\ g.key = f.key /\ g.task = f.task /\ g.members = f.members
           /\ g.result = f.result /\ g.claimed = f.claimed
<1>1. f.fresh \in Nat /\ f.stale \in Nat
  BY FieldsOf
<1>2. CASE ~f.linger
  BY <1>2 DEF LingerCancelled
<1>3. CASE f.linger
  <2> DEFINE fresh == IF f.fresh > 0 THEN f.fresh - 1 ELSE f.fresh
             stale == IF f.fresh > 0 THEN f.stale ELSE f.stale - 1
  <2>1. fresh \in Nat /\ stale \in Nat
    BY <1>1, <1>3
  <2>2. g = [f EXCEPT !.linger = FALSE, !.fresh = fresh, !.stale = stale]
    BY <1>3 DEF LingerCancelled
  <2> HIDE DEF fresh, stale
  <2> QED BY <2>1, <2>2 DEF EvaluationFields
<1> QED BY <1>2, <1>3

\* Joining keeps an evaluation what it is, with one member more.
LEMMA JoinedFields ==
    ASSUME NEW c \in Caller, NEW f \in EvaluationFields,
           f.linger => f.fresh + f.stale > 0,
           call[c].request \in AnyRequest,
           NEW g, g = Joined(f, c)
    PROVE  /\ g \in EvaluationFields
           /\ MemberOf[c] \in g.members
           /\ g.linger => g.fresh + g.stale > 0
           /\ g.key = f.key /\ g.task = f.task
           /\ g.result = f.result /\ g.claimed = f.claimed
<1> DEFINE h == IF Async(c) THEN LingerCancelled(f) ELSE f
<1>1. /\ h \in EvaluationFields
      /\ h.linger => h.fresh + h.stale > 0
      /\ h.key = f.key /\ h.task = f.task /\ h.result = f.result /\ h.claimed = f.claimed
  BY LingerCancelledFields
<1>2. MemberOf[c] \in Member
  BY DEF Member
<1> DEFINE members == h.members \union {MemberOf[c]}
           waiters == IF Async(c) THEN [h.waiters EXCEPT ![MemberOf[c]] = c] ELSE h.waiters
           scratch == h.scratch /\ (Calls(c, "remote") => call[c].request.scratch)
<1>3. g = [h EXCEPT !.members = members, !.waiters = waiters, !.scratch = scratch]
  BY DEF Joined
<1> HIDE DEF h
<1>4. members \in SUBSET Member
  BY <1>1, <1>2, FieldsOf
<1>5. waiters \in [Member -> Caller \union {Nobody}]
  BY <1>1, <1>2, FieldsOf
<1>6. scratch \in BOOLEAN
  OBVIOUS
<1>7. MemberOf[c] \in members
  OBVIOUS
<1> HIDE DEF members, waiters, scratch
<1>8. g \in EvaluationFields
  BY <1>1, <1>3, <1>4, <1>5, <1>6 DEF EvaluationFields
<1>9. /\ g.members = members /\ g.linger = h.linger /\ g.fresh = h.fresh /\ g.stale = h.stale
      /\ g.key = h.key /\ g.task = h.task /\ g.result = h.result /\ g.claimed = h.claimed
  BY <1>1, <1>3 DEF EvaluationFields
<1> QED BY <1>1, <1>7, <1>8, <1>9

\* An evaluation that is created is pending, claimed and has one member.
LEMMA NewFields ==
    ASSUME NEW c \in Caller, call[c].key \in Key, call[c].request \in AnyRequest
    PROVE  /\ NewEvaluation(c) \in EvaluationFields
           /\ NewEvaluation(c).key = call[c].key
           /\ NewEvaluation(c).members # {}
           /\ NewEvaluation(c).task \in {"none", "created"}
           /\ NewEvaluation(c).claimed /\ ~NewEvaluation(c).linger
<1>1. MemberOf[c] \in Member
  BY DEF Member
<1>2. LoopOf[c] \in Loop \union {Nobody}
  BY CallerAssumption
<1>3. /\ call[c].request.scratch \in BOOLEAN
      /\ call[c].request.materialize \in BOOLEAN
  BY DEF AnyRequest
<1> DEFINE task == IF Async(c) THEN "created" ELSE "none"
           loop == IF Async(c) THEN LoopOf[c] ELSE Nobody
           waiters == [m \in Member |-> IF Async(c) /\ m = MemberOf[c] THEN c ELSE Nobody]
           remote == call[c].request.form = "remote"
           scratch == remote => call[c].request.scratch
<1>4. /\ task \in {"none", "created"} /\ loop \in Loop \union {Nobody}
      /\ waiters \in [Member -> Caller \union {Nobody}]
      /\ remote \in BOOLEAN /\ scratch \in BOOLEAN
  BY <1>2
<1>5. NewEvaluation(c) =
        [key |-> call[c].key, task |-> task, loop |-> loop, remote |-> remote,
         materialize |-> call[c].request.materialize, members |-> {MemberOf[c]},
         waiters |-> waiters, result |-> "pending", scratch |-> scratch,
         dispatched |-> "no", claimed |-> TRUE, schedules |-> 0, arming |-> FALSE,
         fresh |-> 0, stale |-> 0, linger |-> FALSE]
  BY DEF NewEvaluation
<1> HIDE DEF task, loop, waiters, remote, scratch
<1> QED BY <1>1, <1>3, <1>4, <1>5 DEF EvaluationFields, Task

\* The end of an evaluation: nothing pending, claimed or scheduled.
LEMMA DiscardedFields ==
    ASSUME NEW f \in EvaluationFields, NEW g, g = Discarded(f)
    PROVE  /\ g \in EvaluationFields
           /\ g.key = f.key /\ g.task = "done" /\ g.result # "pending"
           /\ ~g.claimed /\ ~g.linger
<1> DEFINE waiters == [m \in Member |-> Nobody]
           h == Dropped(f)
           result == IF h.result = "pending" THEN "cancelled" ELSE h.result
<1>1. waiters \in [Member -> Caller \union {Nobody}]
  OBVIOUS
<1>2. h = [f EXCEPT !.task = "done", !.members = {}, !.waiters = waiters,
                    !.schedules = 0, !.fresh = 0, !.stale = 0, !.linger = FALSE]
  BY DEF Dropped
<1> HIDE DEF waiters, h
<1>3. h \in EvaluationFields /\ h.key = f.key /\ h.task = "done" /\ ~h.linger
  BY <1>1, <1>2 DEF EvaluationFields, Task
<1>4. result \in Outcome
  BY <1>3, FieldsOf DEF Outcome
<1>5. result # "pending"
  OBVIOUS
<1>6. g = [h EXCEPT !.claimed = FALSE, !.result = result]
  BY DEF Discarded, h
<1> HIDE DEF result
<1> QED BY <1>3, <1>4, <1>5, <1>6 DEF EvaluationFields

\* A cancelled task keeps everything but its place.
LEMMA TaskCancelledFields ==
    ASSUME NEW f \in EvaluationFields, NEW g, g = TaskCancelled(f)
    PROVE  /\ g \in EvaluationFields
           /\ g.task \notin {"created", "running"}
           /\ g.task = "none" <=> f.task = "none"
           /\ g.task = "done" <=> f.task = "done"
           /\ g = [f EXCEPT !.task = g.task]
<1> DEFINE task == CASE f.task = "created" -> "withdrawn"
                     [] f.task = "running" -> "cancelling"
                     [] OTHER -> f.task
<1>1. /\ task \in Task \ {"created", "running"}
      /\ task = "none" <=> f.task = "none"
      /\ task = "done" <=> f.task = "done"
  BY FieldsOf DEF Task
<1>2. g = [f EXCEPT !.task = task]
  BY DEF TaskCancelled
<1> HIDE DEF task
<1> QED BY <1>1, <1>2 DEF EvaluationFields

\* A timer that fires is one timer less.
LEMMA FiredFields ==
    ASSUME NEW f \in EvaluationFields, f.fresh + f.stale > 0, NEW g, g = Fired(f)
    PROVE  /\ g \in EvaluationFields
           /\ g.linger => g.fresh + g.stale > 0
           /\ g.key = f.key /\ g.task = f.task /\ g.members = f.members
           /\ g.result = f.result /\ g.claimed = f.claimed
<1>1. f.fresh \in Nat /\ f.stale \in Nat /\ f.linger \in BOOLEAN
  BY FieldsOf
<1> DEFINE linger == f.linger /\ f.fresh + f.stale > 1
           stale == IF f.stale > 0 THEN f.stale - 1 ELSE f.stale
           fresh == IF f.stale > 0 THEN f.fresh ELSE f.fresh - 1
<1>2. /\ linger \in BOOLEAN /\ stale \in Nat /\ fresh \in Nat
      /\ linger => fresh + stale > 0
  BY <1>1
<1>3. g = [f EXCEPT !.linger = linger, !.stale = stale, !.fresh = fresh]
  BY DEF Fired
<1> HIDE DEF linger, stale, fresh
<1> QED BY <1>2, <1>3 DEF EvaluationFields

\* A member that leaves an evaluation leaves its waiter too.
LEMMA WithoutMemberFields ==
    ASSUME NEW f \in EvaluationFields, NEW m \in Member,
           NEW g, g = WithoutMember(f, m)
    PROVE  /\ g \in EvaluationFields
           /\ g.key = f.key /\ g.task = f.task /\ g.result = f.result
           /\ g.claimed = f.claimed /\ g.linger = f.linger
           /\ g.fresh = f.fresh /\ g.stale = f.stale
<1> DEFINE members == f.members \ {m}
           waiters == [f.waiters EXCEPT ![m] = Nobody]
<1>1. members \in SUBSET Member
  BY FieldsOf
<1>2. waiters \in [Member -> Caller \union {Nobody}]
  BY FieldsOf
<1>3. g = [f EXCEPT !.members = members, !.waiters = waiters]
  BY DEF WithoutMember
<1> HIDE DEF members, waiters
<1> QED BY <1>1, <1>2, <1>3 DEF EvaluationFields

\* An evaluation that starts to linger has its timers, now stale.
LEMMA MoveToLingerFields ==
    ASSUME NEW f \in EvaluationFields, f.linger => f.fresh + f.stale > 0,
           NEW g, g = MoveToLinger(f)
    PROVE  /\ g \in EvaluationFields
           /\ g.linger => g.fresh + g.stale > 0
           /\ g.key = f.key /\ g.task = f.task /\ g.members = f.members
           /\ g.result = f.result /\ g.claimed = f.claimed
<1> DEFINE schedules == f.schedules + 1
           stale == f.stale + f.fresh
           fresh == 0
<1>1. f.fresh \in Nat /\ f.stale \in Nat /\ f.schedules \in Nat
  BY FieldsOf
<1>2. schedules \in Nat /\ stale \in Nat /\ fresh \in Nat
  BY <1>1
<1>3. f.linger => fresh + stale > 0
  BY <1>1
<1>4. g = [f EXCEPT !.schedules = schedules, !.stale = stale, !.fresh = fresh]
  BY DEF MoveToLinger
<1> HIDE DEF schedules, stale, fresh
<1>5. g \in EvaluationFields
  BY <1>2, <1>4 DEF EvaluationFields
<1>6. /\ g.fresh = fresh /\ g.stale = stale /\ g.linger = f.linger
      /\ g.key = f.key /\ g.task = f.task /\ g.members = f.members
      /\ g.result = f.result /\ g.claimed = f.claimed
  BY <1>4 DEF EvaluationFields
<1>7. ASSUME g.linger PROVE g.fresh + g.stale > 0
  BY <1>2, <1>3, <1>6, <1>7
<1> QED BY <1>5, <1>6, <1>7

-----------------------------------------------------------------------------
(* The parts of the invariant *)

\* What the invariant says about each evaluation on its own.
Sound(f) ==
    /\ f \in EvaluationFields
    /\ f.linger => f.fresh + f.stale > 0
    /\ f.task = "done" => ~f.claimed /\ f.result # "pending"
    /\ f.result = "pending" => f.claimed

\* What it says about the evaluations and the registry.
Registry == KeysMatch /\ SharedOnce /\ AbandonedLingers

\* The types of what is not an evaluation.
OthersTyped ==
    /\ active \in [Key -> Evaluation \union {Nobody}]
    /\ lingering \in [Key -> Evaluation \union {Nobody}]
    /\ results \in [Key -> AnyResult]
    /\ call \in [Caller -> Call]
    /\ cancels \subseteq Caller
    /\ left \subseteq Caller

AllSound ==
    /\ evaluation \in [Evaluation -> EvaluationFields]
    /\ \A e \in Evaluation : Sound(evaluation[e])

\* Together they are the invariant.
LEMMA Parts == IndInv <=> OthersTyped /\ AllSound /\ Registry /\ PublishedFirst
<1>1. ASSUME IndInv PROVE OthersTyped /\ AllSound /\ Registry /\ PublishedFirst
  <2>1. OthersTyped /\ Registry /\ evaluation \in [Evaluation -> EvaluationFields]
    BY <1>1 DEF IndInv, OthersTyped, Registry, TypeOK
  <2>2. \A e \in Evaluation : Sound(evaluation[e])
    BY <1>1, <2>1 DEF IndInv, Sound, TimersCounted, DoneIsOver, ClaimsFollowWork, Timers, Pending
  <2> QED BY <1>1, <2>1, <2>2 DEF AllSound, IndInv
<1>2. OthersTyped /\ AllSound /\ Registry /\ PublishedFirst => IndInv
  BY DEF IndInv, OthersTyped, AllSound, Sound, Registry, TypeOK, TimersCounted, DoneIsOver,
         ClaimsFollowWork, Timers, Pending, Unused
<1> QED BY <1>1, <1>2

\* The evaluation e becomes g, and no other changes.
Becomes(e, g) ==
    \A d \in Evaluation : evaluation'[d] = IF d = e THEN g ELSE evaluation[d]

\* One evaluation changes, soundly.
LEMMA SetSound ==
    ASSUME AllSound, NEW e \in Evaluation, NEW g, Sound(g), SetFields(e, g)
    PROVE  AllSound' /\ Becomes(e, g)
<1> USE DEF Becomes
<1>1. evaluation \in [Evaluation -> EvaluationFields] /\ g \in EvaluationFields
  BY DEF AllSound, Sound
<1>2. \A d \in Evaluation : evaluation'[d] = IF d = e THEN g ELSE evaluation[d]
  BY <1>1 DEF SetFields
<1>3. evaluation' \in [Evaluation -> EvaluationFields]
  BY <1>1 DEF SetFields
<1>4. \A d \in Evaluation : Sound(evaluation'[d])
  BY <1>2 DEF AllSound
<1>5. AllSound'
  BY <1>3, <1>4 DEF AllSound, Sound
<1> QED BY <1>2, <1>5

\* As far as the registry can tell, g is no more alive than f.
Quiet(f, g) ==
    /\ g.key = f.key /\ g.members = f.members
    /\ g.result = "pending" => f.result = "pending"
    /\ g.task = "none" <=> f.task = "none"
    /\ g.task \in {"created", "running"} => f.task \in {"created", "running"}

\* Steps of that kind keep the registry sound.
LEMMA QuietRegistry ==
    ASSUME OthersTyped, Registry, UNCHANGED registry,
           \A e \in Evaluation : Quiet(evaluation[e], evaluation'[e])
    PROVE  Registry'
<1>1. KeysMatch'
  BY DEF Registry, KeysMatch, Quiet, registry
<1>2. SharedOnce'
  BY DEF Registry, SharedOnce, Running, Pending, Quiet, registry
<1>3. AbandonedLingers'
  BY DEF Registry, AbandonedLingers, OthersTyped, Running, Pending, Quiet, registry
<1> QED BY <1>1, <1>2, <1>3 DEF Registry

\* What a caller carries at each point of a call.
LEMMA CallFields ==
    ASSUME NEW x \in Call
    PROVE  /\ x.at \notin {"idle", "ended"} => x.key \in Key /\ x.request \in AnyRequest
           /\ x.at \in {"wait", "own", "withdraw", "leave"} => x.eval \in Evaluation
           /\ x.at = "leave" => x.outcome \in Outcome \union {"alone"}
           /\ x.at = "done" => x.outcome \in Outcome
BY DEF Call

\* A caller that moves on keeps the type of the calls.
LEMMA GotoTyped ==
    ASSUME OthersTyped, NEW c \in Caller, NEW x \in Call, Goto(c, x)
    PROVE  call' \in [Caller -> Call]
BY DEF OthersTyped, Goto

\* So does one that leaves, or is done.
LEMMA LeaveTyped ==
    ASSUME OthersTyped, NEW c \in Caller,
           \/ At(c, "wait") /\ \E outcome \in Outcome : LeaveWith(c, outcome)
           \/ ~At(c, "idle") /\ ~At(c, "ended") /\ \E outcome \in Outcome : Done(c, outcome)
    PROVE  call' \in [Caller -> Call]
<1>1. call[c] \in Call
  BY DEF OthersTyped
<1>2. ASSUME At(c, "wait"), NEW outcome \in Outcome, LeaveWith(c, outcome)
      PROVE  call' \in [Caller -> Call]
  <2>1. call[c].key \in Key /\ call[c].request \in AnyRequest /\ call[c].eval \in Evaluation
    BY <1>1, <1>2, CallFields DEF At
  <2>2. [at |-> "leave", key |-> call[c].key, request |-> call[c].request,
         eval |-> call[c].eval, outcome |-> outcome] \in Call
    BY <2>1 DEF Call
  <2> QED BY <1>2, <2>2, GotoTyped DEF LeaveWith
<1>3. ASSUME ~At(c, "idle"), ~At(c, "ended"), NEW outcome \in Outcome, Done(c, outcome)
      PROVE  call' \in [Caller -> Call]
  <2>1. call[c].key \in Key /\ call[c].request \in AnyRequest
    BY <1>1, <1>3, CallFields DEF At
  <2>2. [at |-> "done", key |-> call[c].key, request |-> call[c].request,
         outcome |-> outcome] \in Call
    BY <2>1 DEF Call
  <2> QED BY <1>3, <2>2, GotoTyped DEF Done
<1> QED BY <1>2, <1>3

\* A recorded value keeps the type of the results.
LEMMA RecordTyped ==
    ASSUME OthersTyped, NEW k \in Key, NEW here \in BOOLEAN, NEW written \in BOOLEAN,
           RecordValue(k, here, written)
    PROVE  results' \in [Key -> AnyResult]
BY DEF OthersTyped, RecordValue, AnyResult

Inv == OthersTyped /\ AllSound /\ Registry

-----------------------------------------------------------------------------
(* Steps that leave evaluations and registry alone *)

LEMMA KeptInv ==
    ASSUME Inv, UNCHANGED <<registry, evaluation>>,
           call' \in [Caller -> Call],
           results' \in [Key -> AnyResult],
           cancels' \subseteq Caller, left' \subseteq Caller
    PROVE  Inv'
<1>1. OthersTyped'
  BY DEF Inv, OthersTyped, registry
<1>2. AllSound'
  BY DEF Inv, AllSound, Sound
<1>3. Registry'
  <2>1. \A e \in Evaluation : Quiet(evaluation[e], evaluation'[e])
    BY DEF Quiet
  <2> QED BY <2>1, QuietRegistry DEF Inv
<1> QED BY <1>1, <1>2, <1>3 DEF Inv

\* Evaluations and the registry hold evaluations.
LEMMA FoundTyped ==
    ASSUME OthersTyped, NEW k \in Key, Found(k) # Nobody
    PROVE  Found(k) \in Evaluation
BY DEF OthersTyped, Found

LEMMA MovesInv ==
    ASSUME Inv, NEW c \in Caller,
           \/ \E k \in Key, r \in Request[c] : Begin(c, k, r)
           \/ Resume(c) \/ WaiterCancelled(c) \/ CancelCaller(c) \/ CloseLoop(c)
           \/ \E outcome \in {"value", "error"} : EvaluateAlone(c, outcome)
    PROVE  Inv'
<1>0. OthersTyped /\ call[c] \in Call
  BY DEF Inv, OthersTyped
<1>1. ASSUME NEW k \in Key, NEW r \in Request[c], Begin(c, k, r) PROVE Inv'
  <2>1. r \in AnyRequest
    BY RequestAssumption
  <2>2. /\ [at |-> "join", key |-> k, request |-> r] \in Call
        /\ [at |-> "done", key |-> k, request |-> r, outcome |-> "value"] \in Call
    BY <2>1 DEF Call, Outcome
  <2>3. Found(k) # Nobody =>
            [at |-> "wait", key |-> k, request |-> r, eval |-> Found(k)] \in Call
    BY <1>0, <2>1, FoundTyped DEF Call
  <2>4. call' \in [Caller -> Call]
    BY <1>0, <1>1, <2>2, <2>3, GotoTyped DEF Begin
  <2> QED BY <1>0, <1>1, <2>4, KeptInv DEF Begin, OthersTyped
<1>2. CASE Resume(c)
  <2>1. /\ At(c, "wait") /\ ~At(c, "idle") /\ ~At(c, "ended")
        /\ call[c].eval \in Evaluation
    BY <1>0, <1>2, CallFields DEF Resume, At
  <2>2. evaluation[call[c].eval].result \in Outcome
    BY <1>2, <2>1, FieldsOf DEF Resume, Pending, Inv, AllSound, Outcome
  <2>3. call' \in [Caller -> Call]
    BY <1>0, <1>2, <2>1, <2>2, LeaveTyped DEF Resume
  <2> QED BY <1>0, <1>2, <2>3, KeptInv DEF Resume, OthersTyped
<1>3. CASE WaiterCancelled(c)
  <2>1. call' \in [Caller -> Call]
    BY <1>0, <1>3, LeaveTyped DEF WaiterCancelled, Outcome
  <2> QED BY <1>0, <1>3, <2>1, KeptInv DEF WaiterCancelled, OthersTyped
<1>4. CASE CancelCaller(c)
  <2>1. call' \in [Caller -> Call]
    BY <1>0, <1>4, LeaveTyped DEF CancelCaller, Outcome
  <2> QED BY <1>0, <1>4, <2>1, KeptInv DEF CancelCaller, OthersTyped
<1>5. CASE CloseLoop(c)
  <2>1. [at |-> "idle"] \in Call
    BY DEF Call
  <2>2. call' \in [Caller -> Call]
    BY <1>0, <1>5, <2>1, GotoTyped DEF CloseLoop
  <2> QED BY <1>0, <1>5, <2>2, KeptInv DEF CloseLoop, OthersTyped
<1>6. ASSUME NEW outcome \in {"value", "error"}, EvaluateAlone(c, outcome) PROVE Inv'
  <2>1. /\ ~At(c, "idle") /\ ~At(c, "ended") /\ outcome \in Outcome
        /\ call[c].key \in Key
    BY <1>0, <1>6, CallFields DEF EvaluateAlone, At, Outcome
  <2>2. call' \in [Caller -> Call]
    BY <1>0, <1>6, <2>1, LeaveTyped DEF EvaluateAlone
  <2>3. Calls(c, "remote") \in BOOLEAN
    BY DEF Calls
  <2>4. results' \in [Key -> AnyResult]
    BY <1>0, <1>6, <2>1, <2>3, RecordTyped DEF EvaluateAlone, OthersTyped
  <2> QED BY <1>0, <1>6, <2>2, <2>4, KeptInv DEF EvaluateAlone, OthersTyped
<1> QED BY <1>1, <1>2, <1>3, <1>4, <1>5, <1>6

-----------------------------------------------------------------------------
(* Steps of tasks and callbacks that the registry does not notice *)

LEMMA QuietInv ==
    ASSUME Inv, NEW e \in Evaluation, NEW g, Sound(g), Quiet(evaluation[e], g),
           SetFields(e, g), UNCHANGED registry,
           call' \in [Caller -> Call],
           results' \in [Key -> AnyResult],
           UNCHANGED <<cancels, left>>
    PROVE  Inv'
<1>1. OthersTyped'
  BY DEF Inv, OthersTyped, registry
<1>2. AllSound' /\ Becomes(e, g)
  BY SetSound DEF Inv
<1>3. \A d \in Evaluation : Quiet(evaluation[d], evaluation'[d])
  BY <1>2 DEF Quiet, Becomes
<1>4. Registry'
  BY <1>3, QuietRegistry DEF Inv
<1> QED BY <1>1, <1>2, <1>4 DEF Inv

\* A task that has something to do goes on, and may publish.
LEMMA TaskFields ==
    ASSUME NEW f, Sound(f), f.task \in {"created", "running", "cancelling"},
           NEW task \in {"running", "published"}, task = "running" => f.task = "created",
           NEW result \in Outcome \union {f.result},
           NEW dispatched \in {"no", "scratch", "write"},
           NEW g, g = [f EXCEPT !.task = task, !.result = result, !.dispatched = dispatched]
    PROVE  Sound(g) /\ Quiet(f, g)
<1>1. f \in EvaluationFields /\ result \in Outcome \union {"pending"} /\ task \in Task
  BY FieldsOf DEF Sound, Task
<1>2. g \in EvaluationFields
  BY <1>1 DEF EvaluationFields
<1>3. /\ g.task = task /\ g.result = result
      /\ g.key = f.key /\ g.members = f.members /\ g.claimed = f.claimed
      /\ g.linger = f.linger /\ g.fresh = f.fresh /\ g.stale = f.stale
  BY <1>1 DEF EvaluationFields
<1>4. result = "pending" => f.result = "pending"
  BY DEF Outcome
<1>5. Sound(g)
  BY <1>2, <1>3, <1>4 DEF Sound
<1>6. Quiet(f, g)
  BY <1>3, <1>4 DEF Quiet
<1> QED BY <1>5, <1>6

LEMMA StartInv ==
    ASSUME Inv, NEW e \in Evaluation, Start(e)
    PROVE  Inv'
<1> DEFINE f == evaluation[e]
           task == IF f.remote \/ ~(results[f.key].cached /\ (~f.materialize \/ results[f.key].here))
                     THEN "running" ELSE "published"
           result == IF task = "running" THEN f.result ELSE "value"
           dispatched == IF ~f.remote THEN f.dispatched
                         ELSE IF f.scratch THEN "scratch" ELSE "write"
           g == [f EXCEPT !.task = task, !.result = result, !.dispatched = dispatched]
<1>1. Sound(f) /\ f \in EvaluationFields /\ f.task = "created"
  BY DEF Start, Inv, AllSound
<1>2. /\ task \in {"running", "published"} /\ result \in Outcome \union {f.result}
      /\ dispatched \in {"no", "scratch", "write"}
  BY <1>1 DEF EvaluationFields, Outcome
<1>3. SetFields(e, g)
  <2>1. CASE f.remote
    <3>1. g = [f EXCEPT !.task = "running",
                        !.dispatched = IF f.scratch THEN "scratch" ELSE "write"]
      BY <1>1, <2>1 DEF EvaluationFields
    <3> QED BY <2>1, <3>1 DEF Start
  <2>2. CASE ~f.remote /\ task = "running"
    <3>1. g = [f EXCEPT !.task = "running"]
      BY <1>1, <2>2 DEF EvaluationFields
    <3> QED BY <2>2, <3>1 DEF Start
  <2>3. CASE ~f.remote /\ task = "published"
    <3>1. g = [f EXCEPT !.task = "published", !.result = "value"]
      BY <1>1, <2>3, Zenon DEF EvaluationFields
    <3> QED BY <2>3, <3>1 DEF Start
  <2> QED BY <1>2, <2>1, <2>2, <2>3
<1>4. task = "running" => f.task = "created"
  BY <1>1
<1> HIDE DEF task, result, dispatched
<1>5. Sound(g) /\ Quiet(f, g)
  BY <1>1, <1>2, <1>4, TaskFields, Zenon
<1> HIDE DEF g
<1> QED BY <1>3, <1>5, QuietInv DEF Start, Inv, OthersTyped

LEMMA PublishInv ==
    ASSUME Inv, NEW e \in Evaluation,
           \/ \E outcome \in {"value", "error"} : Finish(e, outcome)
           \/ Cancelled(e)
    PROVE  Inv'
<1> DEFINE f == evaluation[e]
<1>0. /\ Sound(f) /\ f \in EvaluationFields /\ f.key \in Key
      /\ OthersTyped
  BY FieldsOf DEF Inv, AllSound
<1>d. f.dispatched \in {"no", "scratch", "write"} /\ f.remote \in BOOLEAN
  BY <1>0 DEF EvaluationFields
<1>1. ASSUME NEW outcome \in {"value", "error"}, Finish(e, outcome) PROVE Inv'
  <2> PICK task, result, dispatched :
             task = "published" /\ result = outcome /\ dispatched = f.dispatched
    OBVIOUS
  <2> DEFINE g == [f EXCEPT !.task = task, !.result = result, !.dispatched = dispatched]
  <2>1. /\ f.task = "running" /\ outcome \in Outcome
        /\ f.dispatched \in {"no", "scratch", "write"}
    BY <1>1, <1>d DEF Finish, Outcome
  <2>2. Sound(g) /\ Quiet(f, g)
    <3>1. /\ task \in {"running", "published"} /\ (task = "running" => f.task = "created")
          /\ result \in Outcome \union {f.result}
          /\ dispatched \in {"no", "scratch", "write"}
      BY <2>1
    <3>2. f.task \in {"created", "running", "cancelling"}
      BY <2>1
    <3> HIDE DEF f
    <3> QED BY <1>0, <3>1, <3>2, TaskFields, Zenon
  <2>3. g = [f EXCEPT !.task = "published", !.result = outcome]
    BY <1>0 DEF EvaluationFields
  <2>4. SetFields(e, g)
    BY <1>1, <2>3 DEF Finish
  <2>5. f.remote \in BOOLEAN /\ (f.dispatched = "write") \in BOOLEAN
    BY <1>d
  <2>6. results' \in [Key -> AnyResult]
    <3>1. CASE outcome = "value"
      <4>1. PICK here, written : here = ~f.remote /\ written = (f.dispatched = "write")
        OBVIOUS
      <4>2. RecordValue(f.key, here, written) /\ here \in BOOLEAN /\ written \in BOOLEAN
        BY <1>1, <2>5, <3>1, <4>1 DEF Finish
      <4> QED BY <1>0, <4>2, RecordTyped
    <3>2. CASE outcome # "value"
      BY <1>0, <1>1, <3>2 DEF Finish, OthersTyped
    <3> QED BY <3>1, <3>2
  <2> HIDE DEF g
  <2> QED BY <1>0, <1>1, <2>2, <2>4, <2>6, QuietInv DEF Finish, OthersTyped
<1>2. CASE Cancelled(e)
  <2> PICK task, result, dispatched :
             task = "published" /\ result = "cancelled" /\ dispatched = f.dispatched
    OBVIOUS
  <2> DEFINE g == [f EXCEPT !.task = task, !.result = result, !.dispatched = dispatched]
  <2>1. /\ f.task = "cancelling" /\ "cancelled" \in Outcome
        /\ f.dispatched \in {"no", "scratch", "write"}
    BY <1>2, <1>d DEF Cancelled, Outcome
  <2>2. Sound(g) /\ Quiet(f, g)
    <3>1. /\ task \in {"running", "published"} /\ (task = "running" => f.task = "created")
          /\ result \in Outcome \union {f.result}
          /\ dispatched \in {"no", "scratch", "write"}
      BY <2>1
    <3>2. f.task \in {"created", "running", "cancelling"}
      BY <2>1
    <3> HIDE DEF f
    <3> QED BY <1>0, <3>1, <3>2, TaskFields, Zenon
  <2>3. g = [f EXCEPT !.task = "published", !.result = "cancelled"]
    BY <1>0 DEF EvaluationFields
  <2>4. SetFields(e, g)
    BY <1>2, <2>3 DEF Cancelled
  <2> HIDE DEF g
  <2> QED BY <1>0, <1>2, <2>2, <2>4, QuietInv DEF Cancelled, OthersTyped
<1> QED BY <1>1, <1>2

\* schedule() counts one callback less and one timer more.
LEMMA ScheduleInv ==
    ASSUME Inv, NEW e \in Evaluation, Schedule(e) \/ Arm(e)
    PROVE  Inv'
<1> DEFINE f == evaluation[e]
<1>0. Sound(f) /\ f \in EvaluationFields /\ OthersTyped
  BY DEF Inv, AllSound
<1>1. f.schedules \in Nat /\ f.fresh \in Nat /\ f.stale \in Nat
  BY <1>0, FieldsOf
<1>2. CASE Schedule(e)
  <2> DEFINE schedules == f.schedules - 1
             arming == f.members = {} /\ Pending(e)
             g == [f EXCEPT !.schedules = schedules, !.arming = arming]
  <2>1. schedules \in Nat /\ arming \in BOOLEAN
    BY <1>1, <1>2 DEF Schedule
  <2>2. SetFields(e, g)
    BY <1>2 DEF Schedule
  <2> HIDE DEF schedules, arming
  <2>3. /\ g \in EvaluationFields
        /\ g.key = f.key /\ g.members = f.members /\ g.claimed = f.claimed
        /\ g.result = f.result /\ g.task = f.task
        /\ g.linger = f.linger /\ g.fresh = f.fresh /\ g.stale = f.stale
    BY <1>0, <2>1 DEF EvaluationFields
  <2> HIDE DEF g
  <2>4. Sound(g) /\ Quiet(f, g)
    BY <1>0, <2>3 DEF Sound, Quiet
  <2> QED BY <1>0, <1>2, <2>2, <2>4, QuietInv DEF Schedule, OthersTyped
<1>3. CASE Arm(e)
  <2> DEFINE fresh == f.fresh + 1
             g == [f EXCEPT !.arming = FALSE, !.fresh = fresh, !.linger = TRUE]
  <2>1. fresh \in Nat /\ fresh + f.stale > 0
    BY <1>1
  <2>2. SetFields(e, g)
    BY <1>3 DEF Arm
  <2> HIDE DEF fresh
  <2>3. /\ g \in EvaluationFields
        /\ g.key = f.key /\ g.members = f.members /\ g.claimed = f.claimed
        /\ g.result = f.result /\ g.task = f.task
        /\ g.fresh = fresh /\ g.stale = f.stale
    BY <1>0, <2>1 DEF EvaluationFields
  <2> HIDE DEF g
  <2>4. Sound(g) /\ Quiet(f, g)
    BY <1>0, <2>1, <2>3 DEF Sound, Quiet
  <2> QED BY <1>0, <1>3, <2>2, <2>4, QuietInv DEF Arm, OthersTyped
<1> QED BY <1>2, <1>3

\* A synchronous caller publishes what it computed.
LEMMA SyncPublishInv ==
    ASSUME Inv, NEW c \in Caller, NEW outcome \in {"value", "error"}, SyncPublish(c, outcome)
    PROVE  Inv'
<1> DEFINE e == call[c].eval
           f == evaluation[e]
           g == [f EXCEPT !.result = outcome]
<1>0. OthersTyped /\ call[c] \in Call
  BY DEF Inv, OthersTyped
<1>1. /\ call[c].key \in Key /\ call[c].request \in AnyRequest /\ e \in Evaluation
  BY <1>0, CallFields DEF SyncPublish, At
<1>2. Sound(f) /\ f \in EvaluationFields
  BY <1>1 DEF Inv, AllSound
<1>3. SetFields(e, g)
  BY DEF SyncPublish
<1>4. call' \in [Caller -> Call]
  <2>1. [at |-> "withdraw", key |-> call[c].key, request |-> call[c].request,
         eval |-> e] \in Call
    BY <1>1 DEF Call
  <2> QED BY <1>0, <2>1, GotoTyped DEF SyncPublish
<1>5. results' \in [Key -> AnyResult]
  BY <1>0, <1>1, RecordTyped DEF SyncPublish, OthersTyped
<1> HIDE DEF e
<1>6. /\ g \in EvaluationFields
      /\ g.key = f.key /\ g.members = f.members /\ g.claimed = f.claimed
      /\ g.result # "pending" /\ g.task = f.task
      /\ g.linger = f.linger /\ g.fresh = f.fresh /\ g.stale = f.stale
  BY <1>2 DEF EvaluationFields, Outcome
<1> HIDE DEF g
<1>7. Sound(g) /\ Quiet(f, g)
  BY <1>2, <1>6 DEF Sound, Quiet
<1>8. UNCHANGED registry /\ UNCHANGED <<cancels, left>>
  BY DEF SyncPublish
<1> QED BY <1>1, <1>3, <1>4, <1>5, <1>7, <1>8, QuietInv

\* The end of a call, and of the tasks on a loop that ends with it.
LEMMA ReturnInv ==
    ASSUME Inv, NEW c \in Caller, Return(c)
    PROVE  Inv'
<1>0. OthersTyped /\ left' \subseteq Caller
  BY DEF Inv, OthersTyped, Return
<1>1. call' \in [Caller -> Call]
  <2>1. [at |-> "idle"] \in Call /\ [at |-> "ended"] \in Call
    BY DEF Call
  <2> QED BY <1>0, <2>1, GotoTyped DEF Return
<1>2. CASE LoopOf[c] \notin Brief
  BY <1>0, <1>1, <1>2, KeptInv DEF Return, OthersTyped
<1>3. CASE LoopOf[c] \in Brief
  <2>1. OthersTyped'
    BY <1>0, <1>1 DEF Return, OthersTyped, registry
  <2>2. \A e \in Evaluation :
            evaluation'[e] = IF evaluation[e].loop = LoopOf[c]
                               THEN TaskCancelled(evaluation[e]) ELSE evaluation[e]
    BY <1>3 DEF Return
  <2>3. \A e \in Evaluation : Sound(evaluation'[e]) /\ Quiet(evaluation[e], evaluation'[e])
    <3> SUFFICES ASSUME NEW e \in Evaluation
                 PROVE  Sound(evaluation'[e]) /\ Quiet(evaluation[e], evaluation'[e])
      OBVIOUS
    <3> DEFINE f == evaluation[e]
               g == TaskCancelled(f)
    <3>1. Sound(f) /\ f \in EvaluationFields
      BY DEF Inv, AllSound
    <3>2. /\ g \in EvaluationFields
          /\ g.task \notin {"created", "running"}
          /\ g.task = "none" <=> f.task = "none"
          /\ g.task = "done" <=> f.task = "done"
          /\ g = [f EXCEPT !.task = g.task]
      BY <3>1, TaskCancelledFields
    <3> HIDE DEF g
    <3>3. /\ g.key = f.key /\ g.members = f.members /\ g.claimed = f.claimed
          /\ g.result = f.result
          /\ g.linger = f.linger /\ g.fresh = f.fresh /\ g.stale = f.stale
      BY <3>1, <3>2 DEF EvaluationFields
    <3>4. Sound(g) /\ Quiet(f, g)
      BY <3>1, <3>2, <3>3 DEF Sound, Quiet
    <3>5. Quiet(f, f)
      BY DEF Quiet
    <3> QED BY <2>2, <3>1, <3>4, <3>5 DEF g
  <2>4. evaluation' = [e \in Evaluation |-> evaluation'[e]]
    BY <1>3 DEF Return
  <2>5. AllSound'
    BY <2>3, <2>4 DEF AllSound, Sound
  <2>6. Registry'
    BY <2>3, QuietRegistry DEF Inv, Return
  <2> QED BY <2>1, <2>5, <2>6 DEF Inv
<1> QED BY <1>2, <1>3

-----------------------------------------------------------------------------
(* Steps that change the registry *)

\* The registry forgets at most the evaluation e.
Forgets(e) ==
    /\ \A k \in Key : active'[k] = active[k] \/ (active[k] = e /\ active'[k] = Nobody)
    /\ \A k \in Key : lingering'[k] = lingering[k] \/ (lingering[k] = e /\ lingering'[k] = Nobody)

\* The evaluation f becomes g, which cannot produce a result any more.
Retired(f, g) ==
    /\ g.key = f.key
    /\ g.task \notin {"none", "created", "running"} \/ g.result # "pending"
    /\ g.result = "pending" =>
        f.result = "pending" /\ g.members = f.members /\ g.task # "none"

\* Then the registry may forget it.
LEMMA RetiredRegistry ==
    ASSUME OthersTyped, Registry, NEW e \in Evaluation, NEW g,
           Becomes(e, g), Forgets(e), Retired(evaluation[e], g),
           \A d \in Evaluation : evaluation[d].key \in Key
    PROVE  Registry'
<1> USE DEF Becomes, Forgets, Retired
<1>0. Nobody \notin Evaluation
  BY NobodyAssumption
<1>1. KeysMatch'
  BY <1>0 DEF Registry, KeysMatch
<1>2. SharedOnce'
  <2>1. ASSUME NEW d \in Evaluation, Running(d)'
        PROVE  d \in {active'[evaluation'[d].key], lingering'[evaluation'[d].key]}
    <3>1. d # e
      BY <2>1 DEF Running, Pending
    <3>2. evaluation'[d] = evaluation[d] /\ Running(d)
      BY <2>1, <3>1 DEF Running, Pending
    <3>3. d \in {active[evaluation[d].key], lingering[evaluation[d].key]}
      BY <3>2 DEF Registry, SharedOnce
    <3> QED BY <3>1, <3>2, <3>3
  <2>2. \A k \in Key : active'[k] = Nobody \/ lingering'[k] = Nobody
    BY DEF Registry, SharedOnce
  <2> QED BY <2>1, <2>2 DEF SharedOnce
<1>3. AbandonedLingers'
  BY <1>0 DEF Registry, AbandonedLingers, OthersTyped, Running, Pending
<1> QED BY <1>1, <1>2, <1>3 DEF Registry

\* A caller joins the evaluation of its key, or creates one in place of
\* nothing or of an evaluation that is over.
LEMMA EnteredRegistry ==
    ASSUME OthersTyped, Registry, NEW k \in Key, NEW e \in Evaluation, NEW g,
           Becomes(e, g),
           active' = [active EXCEPT ![k] = e],
           lingering' = [lingering EXCEPT ![k] = IF active[k] = Nobody THEN Nobody ELSE @],
           g.key = k, g.members # {},
           \A j \in Key \ {k} : active[j] # e /\ lingering[j] # e,
           Found(k) \in {e, Nobody} \/ ~Pending(Found(k)),
           \A d \in Evaluation : evaluation[d].key \in Key
    PROVE  Registry'
<1> USE DEF Becomes
<1>0. Nobody \notin Evaluation
  BY NobodyAssumption
<1>1. /\ \A j \in Key : active'[j] = IF j = k THEN e ELSE active[j]
      /\ \A j \in Key \ {k} : lingering'[j] = lingering[j]
      /\ lingering'[k] = Nobody
  BY DEF OthersTyped, Registry, SharedOnce
<1>2. KeysMatch'
  BY <1>0, <1>1 DEF Registry, KeysMatch
<1>3. SharedOnce'
  <2>1. ASSUME NEW d \in Evaluation, Running(d)'
        PROVE  d \in {active'[evaluation'[d].key], lingering'[evaluation'[d].key]}
    <3>1. CASE d = e
      BY <1>1, <3>1
    <3>2. CASE d # e
      <4>1. evaluation'[d] = evaluation[d] /\ Running(d) /\ Pending(d)
        BY <2>1, <3>2 DEF Running, Pending
      <4>2. d \in {active[evaluation[d].key], lingering[evaluation[d].key]}
        BY <4>1 DEF Registry, SharedOnce
      <4>3. ASSUME evaluation[d].key = k PROVE FALSE
        <5>1. Found(k) = d
          BY <1>0, <4>2, <4>3 DEF Found, Registry, SharedOnce
        <5> QED BY <1>0, <3>2, <4>1, <5>1
      <4> QED BY <1>1, <4>1, <4>2, <4>3
    <3> QED BY <3>1, <3>2
  <2>2. \A j \in Key : active'[j] = Nobody \/ lingering'[j] = Nobody
    BY <1>1 DEF Registry, SharedOnce
  <2> QED BY <2>1, <2>2 DEF SharedOnce
<1>4. AbandonedLingers'
  <2>1. ASSUME NEW j \in Key, lingering'[j] # Nobody, Pending(lingering[j])'
        PROVE  evaluation'[lingering'[j]].members = {} /\ evaluation'[lingering'[j]].task # "none"
    <3>1. j # k /\ lingering'[j] = lingering[j] /\ lingering[j] # e
      BY <1>1, <2>1
    <3>2. lingering[j] \in Evaluation
      BY <2>1, <3>1 DEF OthersTyped
    <3>3. evaluation'[lingering[j]] = evaluation[lingering[j]]
      BY <1>1, <3>1, <3>2
    <3>4. lingering[j] # Nobody /\ Pending(lingering[j])
      BY <2>1, <3>1, <3>3 DEF Pending
    <3> QED BY <3>1, <3>3, <3>4 DEF Registry, AbandonedLingers
  <2>2. ASSUME NEW j \in Key, active'[j] # Nobody, Running(active[j])'
        PROVE  evaluation'[active'[j]].members # {} \/ evaluation'[active'[j]].task = "none"
    <3>1. CASE j = k
      BY <1>1, <3>1
    <3>2. CASE j # k
      <4>1. active'[j] = active[j] /\ active[j] # e /\ active[j] \in Evaluation
        BY <1>1, <2>2, <3>2 DEF OthersTyped
      <4> QED BY <2>2, <4>1 DEF Registry, AbandonedLingers, Running, Pending
    <3> QED BY <3>1, <3>2
  <2> QED BY <2>1, <2>2 DEF AbandonedLingers
<1> QED BY <1>2, <1>3, <1>4 DEF Registry

\* The last member leaves: the evaluation moves from one map to the other.
LEMMA LingeredRegistry ==
    ASSUME OthersTyped, Registry, NEW k \in Key, NEW e \in Evaluation, NEW g,
           Becomes(e, g),
           active[k] = e,
           active' = [active EXCEPT ![k] = Nobody],
           lingering' = [lingering EXCEPT ![k] = e],
           g.key = k, g.members = {}, g.task # "none", g.task = evaluation[e].task,
           g.result = evaluation[e].result,
           \A d \in Evaluation : evaluation[d].key \in Key
    PROVE  Registry'
<1> USE DEF Becomes
<1>0. Nobody \notin Evaluation /\ evaluation[e].key = k
  BY NobodyAssumption DEF Registry, KeysMatch
<1>1. /\ \A j \in Key : active'[j] = IF j = k THEN Nobody ELSE active[j]
      /\ \A j \in Key : lingering'[j] = IF j = k THEN e ELSE lingering[j]
      /\ lingering[k] = Nobody
      /\ \A j \in Key \ {k} : active[j] # e /\ lingering[j] # e
  BY <1>0 DEF OthersTyped, Registry, SharedOnce, KeysMatch
<1>2. KeysMatch'
  BY <1>0, <1>1 DEF Registry, KeysMatch
<1>3. SharedOnce'
  <2>1. ASSUME NEW d \in Evaluation, Running(d)'
        PROVE  d \in {active'[evaluation'[d].key], lingering'[evaluation'[d].key]}
    <3>1. CASE d = e
      BY <1>1, <3>1
    <3>2. CASE d # e
      <4>1. evaluation'[d] = evaluation[d] /\ Running(d)
        BY <2>1, <3>2 DEF Running, Pending
      <4>2. d \in {active[evaluation[d].key], lingering[evaluation[d].key]}
        BY <4>1 DEF Registry, SharedOnce
      <4> QED BY <1>0, <1>1, <3>2, <4>1, <4>2
    <3> QED BY <3>1, <3>2
  <2> QED BY <1>1, <2>1 DEF SharedOnce, Registry
<1>4. AbandonedLingers'
  <2>1. ASSUME NEW j \in Key, lingering'[j] # Nobody, Pending(lingering[j])'
        PROVE  evaluation'[lingering'[j]].members = {} /\ evaluation'[lingering'[j]].task # "none"
    <3>1. CASE j = k
      BY <1>1, <3>1
    <3>2. CASE j # k
      <4>1. lingering'[j] = lingering[j] /\ lingering[j] # e /\ lingering[j] \in Evaluation
        BY <1>1, <2>1, <3>2 DEF OthersTyped
      <4> QED BY <2>1, <4>1 DEF Registry, AbandonedLingers, Pending
    <3> QED BY <3>1, <3>2
  <2>2. ASSUME NEW j \in Key, active'[j] # Nobody, Running(active[j])'
        PROVE  evaluation'[active'[j]].members # {} \/ evaluation'[active'[j]].task = "none"
    <3>1. j # k /\ active'[j] = active[j] /\ active[j] # e /\ active[j] \in Evaluation
      BY <1>1, <2>2 DEF OthersTyped
    <3> QED BY <2>2, <3>1 DEF Registry, AbandonedLingers, Running, Pending
  <2> QED BY <2>1, <2>2 DEF AbandonedLingers
<1> QED BY <1>2, <1>3, <1>4 DEF Registry

\* A member leaves others behind, or a synchronous caller that computes.
LEMMA LeftRegistry ==
    ASSUME OthersTyped, Registry, NEW k \in Key, NEW e \in Evaluation, NEW g,
           Becomes(e, g),
           active[k] = e, UNCHANGED registry,
           g.key = k, g.members # {} \/ g.task = "none",
           g.task = evaluation[e].task, g.result = evaluation[e].result
    PROVE  Registry'
<1> USE DEF Becomes
<1>0. Nobody \notin Evaluation /\ evaluation[e].key = k
  BY NobodyAssumption DEF Registry, KeysMatch
<1>1. KeysMatch'
  BY <1>0 DEF Registry, KeysMatch, registry
<1>2. SharedOnce'
  BY <1>0 DEF Registry, SharedOnce, Running, Pending, registry
<1>3. \A j \in Key : lingering[j] # e
  BY <1>0 DEF Registry, SharedOnce, KeysMatch
<1>4. AbandonedLingers'
  BY <1>0, <1>3 DEF Registry, AbandonedLingers, OthersTyped, Running, Pending, registry
<1> QED BY <1>1, <1>2, <1>4 DEF Registry

\* What the steps below need of the evaluations.
LEMMA EvaluationParts ==
    ASSUME Inv
    PROVE  /\ OthersTyped /\ AllSound /\ Registry
           /\ \A e \in Evaluation :
                /\ Sound(evaluation[e]) /\ evaluation[e] \in EvaluationFields
                /\ evaluation[e].key \in Key
BY FieldsOf DEF Inv, AllSound

\* The registry forgets an evaluation of one key.
LEMMA UnregisterMaps ==
    ASSUME OthersTyped, NEW k \in Key, NEW e \in Evaluation, Unregister(k, e)
    PROVE  /\ active' \in [Key -> Evaluation \union {Nobody}]
           /\ lingering' \in [Key -> Evaluation \union {Nobody}]
           /\ Forgets(e)
BY DEF OthersTyped, Unregister, Forgets

\* A local task withdraws; it has published, or was cancelled.
LEMMA WithdrawInv ==
    ASSUME Inv, NEW e \in Evaluation, Withdraw(e)
    PROVE  Inv'
<1> DEFINE f == evaluation[e]
           g == [f EXCEPT !.task = "withdrawn"]
<1>0. /\ OthersTyped /\ AllSound /\ Registry /\ Sound(f) /\ f \in EvaluationFields
      /\ f.key \in Key /\ \A d \in Evaluation : evaluation[d].key \in Key
  BY EvaluationParts
<1>1. /\ g \in EvaluationFields
      /\ g.key = f.key /\ g.members = f.members /\ g.claimed = f.claimed
      /\ g.result = f.result /\ g.task = "withdrawn"
      /\ g.linger = f.linger /\ g.fresh = f.fresh /\ g.stale = f.stale
  BY <1>0 DEF EvaluationFields, Task
<1>2. SetFields(e, g)
  BY DEF Withdraw
<1> HIDE DEF g
<1>3. Sound(g)
  BY <1>0, <1>1 DEF Sound
<1>4. AllSound' /\ Becomes(e, g)
  BY <1>0, <1>2, <1>3, SetSound
<1>5. OthersTyped'
  BY <1>0 DEF Withdraw, OthersTyped
<1>6. Forgets(e)
  BY <1>0 DEF Withdraw, OthersTyped, Forgets
<1>7. Retired(evaluation[e], g)
  BY <1>1 DEF Retired
<1>8. Registry'
  BY <1>0, <1>4, <1>6, <1>7, RetiredRegistry
<1> QED BY <1>4, <1>5, <1>8 DEF Inv

\* The end of an evaluation, by its task or by the caller that computed it.
LEMMA EndInv ==
    ASSUME Inv, NEW e \in Evaluation, NEW k \in Key, Unregister(k, e),
           SetFields(e, Discarded(evaluation[e])),
           call' \in [Caller -> Call], UNCHANGED <<results, cancels, left>>
    PROVE  Inv'
<1> DEFINE f == evaluation[e]
           g == Discarded(f)
<1>0. /\ OthersTyped /\ AllSound /\ Registry /\ Sound(f) /\ f \in EvaluationFields
      /\ \A d \in Evaluation : evaluation[d].key \in Key
  BY EvaluationParts
<1>1. /\ g \in EvaluationFields
      /\ g.key = f.key /\ g.task = "done" /\ g.result # "pending"
      /\ ~g.claimed /\ ~g.linger
  BY <1>0, DiscardedFields
<1>2. SetFields(e, g)
  OBVIOUS
<1> HIDE DEF g
<1>3. Sound(g)
  BY <1>1 DEF Sound
<1>4. AllSound' /\ Becomes(e, g)
  BY <1>0, <1>2, <1>3, SetSound
<1>5. /\ active' \in [Key -> Evaluation \union {Nobody}]
      /\ lingering' \in [Key -> Evaluation \union {Nobody}]
      /\ Forgets(e)
  BY <1>0, UnregisterMaps
<1>6. OthersTyped'
  BY <1>0, <1>5 DEF OthersTyped
<1>7. Retired(evaluation[e], g)
  BY <1>1 DEF Retired
<1>8. Registry'
  BY <1>0, <1>4, <1>5, <1>7, RetiredRegistry
<1> QED BY <1>4, <1>6, <1>8 DEF Inv

LEMMA DiscardInv ==
    ASSUME Inv, NEW e \in Evaluation, Discard(e)
    PROVE  Inv'
<1>1. evaluation[e].key \in Key /\ call \in [Caller -> Call]
  BY EvaluationParts DEF OthersTyped
<1> QED BY <1>1, EndInv DEF Discard

LEMMA SyncWithdrawInv ==
    ASSUME Inv, PublishedFirst, NEW c \in Caller, SyncWithdraw(c)
    PROVE  Inv'
<1>0. OthersTyped /\ call[c] \in Call
  BY EvaluationParts DEF OthersTyped
<1>1. call[c].key \in Key /\ call[c].request \in AnyRequest /\ call[c].eval \in Evaluation
  BY <1>0, CallFields DEF SyncWithdraw, At
<1>2. ~At(c, "idle") /\ ~At(c, "ended") /\ ~Pending(call[c].eval)
  BY DEF SyncWithdraw, At, PublishedFirst
<1>3. evaluation[call[c].eval].result \in Outcome
  BY <1>1, <1>2, EvaluationParts, FieldsOf DEF Pending
<1>4. call' \in [Caller -> Call]
  BY <1>0, <1>2, <1>3, LeaveTyped DEF SyncWithdraw
<1> QED BY <1>1, <1>4, EndInv DEF SyncWithdraw

\* A timer fires: a lingering evaluation that is still wanted by nobody is
\* forgotten and its task cancelled.
LEMMA ExpireInv ==
    ASSUME Inv, NEW e \in Evaluation, Expire(e)
    PROVE  Inv'
<1> DEFINE f == evaluation[e]
           h == Fired(f)
<1>0. /\ OthersTyped /\ AllSound /\ Registry /\ Sound(f) /\ f \in EvaluationFields
      /\ f.key \in Key /\ \A d \in Evaluation : evaluation[d].key \in Key
  BY EvaluationParts
<1>1. /\ h \in EvaluationFields
      /\ h.linger => h.fresh + h.stale > 0
      /\ h.key = f.key /\ h.task = f.task /\ h.members = f.members
      /\ h.result = f.result /\ h.claimed = f.claimed
  BY <1>0, FiredFields DEF Expire, Timers
<1>2. CASE ~Expires(e)
  <2>1. SetFields(e, h) /\ UNCHANGED registry /\ UNCHANGED <<results, call, cancels, left>>
    BY <1>2 DEF Expire, registry
  <2> HIDE DEF h
  <2>2. Sound(h) /\ Quiet(f, h)
    BY <1>0, <1>1 DEF Sound, Quiet
  <2> QED BY <1>0, <2>1, <2>2, QuietInv DEF OthersTyped
<1>3. CASE Expires(e)
  <2> DEFINE g == IF f.members = {} THEN TaskCancelled(h) ELSE h
  <2>1. SetFields(e, g)
    BY <1>3 DEF Expire
  <2>2. OthersTyped' /\ Forgets(e)
    BY <1>0, <1>3 DEF Expire, Expires, OthersTyped, Forgets
  <2> HIDE DEF h
  <2>3. CASE f.members = {}
    <3>1. /\ g \in EvaluationFields
          /\ g.task \notin {"created", "running"}
          /\ g.task = "none" <=> h.task = "none"
          /\ g.task = "done" <=> h.task = "done"
          /\ g = [h EXCEPT !.task = g.task]
      BY <1>1, <2>3, TaskCancelledFields
    <3> HIDE DEF g
    <3>2. /\ g.key = f.key /\ g.members = f.members /\ g.claimed = f.claimed
          /\ g.result = f.result
          /\ g.linger = h.linger /\ g.fresh = h.fresh /\ g.stale = h.stale
      BY <1>1, <3>1 DEF EvaluationFields
    <3>3. Sound(g)
      BY <1>0, <1>1, <3>1, <3>2 DEF Sound
    <3>4. f.result = "pending" => f.task # "none"
      BY <1>0, <1>3, NobodyAssumption DEF Registry, AbandonedLingers, Expires, Pending
    <3>5. Retired(evaluation[e], g)
      BY <1>1, <3>1, <3>2, <3>4 DEF Retired
    <3>6. AllSound' /\ Becomes(e, g)
      BY <1>0, <2>1, <3>3, SetSound
    <3> HIDE DEF f
    <3>7. Registry'
      BY <1>0, <2>2, <3>5, <3>6, RetiredRegistry
    <3> QED BY <2>2, <3>6, <3>7 DEF Inv
  <2>4. CASE f.members # {}
    <3>1. g = h
      BY <2>4
    <3>2. Sound(h)
      BY <1>0, <1>1 DEF Sound
    <3>3. f.result # "pending"
      BY <1>0, <1>3, <2>4, NobodyAssumption DEF Registry, AbandonedLingers, Expires, Pending
    <3>4. Retired(evaluation[e], h)
      BY <1>1, <3>3 DEF Retired
    <3>5. AllSound' /\ Becomes(e, h)
      BY <1>0, <2>1, <3>1, <3>2, SetSound
    <3> HIDE DEF f, g
    <3>6. Registry'
      BY <1>0, <2>2, <3>4, <3>5, RetiredRegistry
    <3> QED BY <2>2, <3>5, <3>6 DEF Inv
  <2> QED BY <2>3, <2>4
<1> QED BY <1>2, <1>3

\* Joining and creating put an evaluation into the active map.
LEMMA EnterTyped ==
    ASSUME OthersTyped, NEW c \in Caller, call[c].key \in Key, NEW e \in Evaluation,
           NEW fields, Enter(c, e, fields), call' \in [Caller -> Call]
    PROVE  OthersTyped'
BY DEF OthersTyped, Enter

LEMMA JoinInv ==
    ASSUME Inv, NEW c \in Caller, Join(c)
    PROVE  Inv'
<1> DEFINE k == call[c].key
           e == Found(k)
           f == evaluation[e]
           g == Joined(f, c)
<1>0. /\ OthersTyped /\ AllSound /\ Registry
      /\ \A d \in Evaluation : evaluation[d].key \in Key
      /\ call[c] \in Call
  BY EvaluationParts DEF OthersTyped
<1>1. k \in Key /\ call[c].request \in AnyRequest
  BY <1>0, CallFields DEF Join, At
<1>2. e \in Evaluation /\ Pending(e) /\ Enter(c, e, g)
  BY <1>0, <1>1, FoundTyped DEF Join, Joinable
<1>3. Sound(f) /\ f \in EvaluationFields /\ f.key = k
  BY <1>0, <1>1, <1>2, EvaluationParts DEF Registry, KeysMatch, Found
<1>4. call' \in [Caller -> Call]
  <2>1. /\ [at |-> "leave", key |-> k, request |-> call[c].request, eval |-> e,
             outcome |-> "alone"] \in Call
        /\ [at |-> "wait", key |-> k, request |-> call[c].request, eval |-> e] \in Call
    BY <1>1, <1>2 DEF Call
  <2> QED BY <1>0, <2>1, GotoTyped DEF Join
<1>5. OthersTyped'
  BY <1>0, <1>1, <1>2, <1>4, EnterTyped
<1>6. /\ g \in EvaluationFields
      /\ MemberOf[c] \in g.members
      /\ g.linger => g.fresh + g.stale > 0
      /\ g.key = f.key /\ g.task = f.task
      /\ g.result = f.result /\ g.claimed = f.claimed
  BY <1>1, <1>3, JoinedFields DEF Sound
<1>7. /\ SetFields(e, g)
      /\ active' = [active EXCEPT ![k] = e]
      /\ lingering' = [lingering EXCEPT ![k] = IF active[k] = Nobody THEN Nobody ELSE @]
  BY <1>2 DEF Enter, SetFields
<1>8. \A j \in Key \ {k} : active[j] # e /\ lingering[j] # e
  BY <1>0, <1>2, <1>3 DEF Registry, KeysMatch
<1> HIDE DEF g
<1>9. Sound(g)
  BY <1>3, <1>6 DEF Sound
<1>10. g.key = k /\ g.members # {} /\ Found(k) \in {e, Nobody}
  BY <1>3, <1>6
<1> HIDE DEF k, e, f
<1>11. AllSound' /\ Becomes(e, g)
  BY <1>0, <1>2, <1>7, <1>9, SetSound
<1>12. Registry'
  BY <1>0, <1>1, <1>2, <1>7, <1>8, <1>10, <1>11, EnteredRegistry
<1> QED BY <1>5, <1>11, <1>12 DEF Inv

LEMMA CreateInv ==
    ASSUME Inv, NEW c \in Caller, Create(c)
    PROVE  Inv'
<1> DEFINE k == call[c].key
           g == NewEvaluation(c)
<1>0. /\ OthersTyped /\ AllSound /\ Registry
      /\ \A d \in Evaluation : evaluation[d].key \in Key
      /\ call[c] \in Call
  BY EvaluationParts DEF OthersTyped
<1>1. k \in Key /\ call[c].request \in AnyRequest
  BY <1>0, CallFields DEF Create, At
<1>2. PICK e \in Evaluation :
        /\ Unused(e)
        /\ Enter(c, e, g)
        /\ Goto(c, [at |-> IF Async(c) THEN "wait" ELSE "own", key |-> k,
                    request |-> call[c].request, eval |-> e])
  BY DEF Create
<1>3. call' \in [Caller -> Call]
  <2>1. [at |-> IF Async(c) THEN "wait" ELSE "own", key |-> k,
         request |-> call[c].request, eval |-> e] \in Call
    BY <1>1 DEF Call
  <2> QED BY <1>0, <1>2, <2>1, GotoTyped
<1>4. OthersTyped'
  BY <1>0, <1>1, <1>2, <1>3, EnterTyped
<1>5. /\ g \in EvaluationFields
      /\ g.key = k
      /\ g.members # {}
      /\ g.task \in {"none", "created"}
      /\ g.claimed /\ ~g.linger
  BY <1>1, NewFields
<1>6. /\ SetFields(e, g)
      /\ active' = [active EXCEPT ![k] = e]
      /\ lingering' = [lingering EXCEPT ![k] = IF active[k] = Nobody THEN Nobody ELSE @]
  BY <1>2 DEF Enter, SetFields
<1>7. \A j \in Key \ {k} : active[j] # e /\ lingering[j] # e
  BY <1>2 DEF Unused
<1>8. Found(k) \in {e, Nobody} \/ ~Pending(Found(k))
  BY DEF Create, Joinable
<1> HIDE DEF g
<1>9. Sound(g)
  BY <1>5 DEF Sound
<1> HIDE DEF k
<1>10. AllSound' /\ Becomes(e, g)
  BY <1>0, <1>6, <1>9, SetSound
<1>11. Registry'
  BY <1>0, <1>1, <1>5, <1>6, <1>7, <1>8, <1>10, EnteredRegistry
<1> QED BY <1>4, <1>10, <1>11 DEF Inv

\* A member goes; after the last one the evaluation lingers.
LEMMA SoftcancelInv ==
    ASSUME Inv, NEW k \in Key, NEW m \in Member, NEW c, Softcancel(k, m, c),
           call' \in [Caller -> Call], UNCHANGED results, left' \subseteq Caller
    PROVE  Inv'
<1> DEFINE e == active[k]
           f == WithoutMember(evaluation[e], m)
           d == evaluation[e].waiters[m]
<1>0. /\ OthersTyped /\ AllSound /\ Registry
      /\ \A b \in Evaluation : evaluation[b].key \in Key
  BY EvaluationParts
<1>1. CASE ~Leaves(k, m)
  <2>1. cancels' \subseteq Caller /\ UNCHANGED <<registry, evaluation>>
    BY <1>0, <1>1 DEF Softcancel, OthersTyped
  <2> QED BY <1>0, <2>1, KeptInv DEF OthersTyped
<1>2. CASE Leaves(k, m)
  <2>1. e \in Evaluation
    BY <1>0, <1>2 DEF Leaves, OthersTyped
  <2>2. /\ Sound(evaluation[e]) /\ evaluation[e] \in EvaluationFields
        /\ evaluation[e].key = k
    BY <1>0, <2>1, EvaluationParts DEF Registry, KeysMatch
  <2>3. cancels' \subseteq Caller
    <3>1. d \in Caller \union {Nobody}
      BY <2>2, FieldsOf
    <3>2. cancels' = (IF d # Nobody /\ At(d, "wait") /\ call[d].eval = e
                        THEN cancels \union {d} ELSE cancels) \ {c}
      BY <1>2 DEF Softcancel
    <3> HIDE DEF d
    <3> QED BY <1>0, <3>1, <3>2 DEF OthersTyped
  <2>4. /\ f \in EvaluationFields
        /\ f.key = evaluation[e].key /\ f.task = evaluation[e].task
        /\ f.result = evaluation[e].result
        /\ f.claimed = evaluation[e].claimed /\ f.linger = evaluation[e].linger
        /\ f.fresh = evaluation[e].fresh /\ f.stale = evaluation[e].stale
    BY <2>2, WithoutMemberFields
  <2>5. CASE f.members = {} /\ f.task # "none"
    <3> DEFINE g == MoveToLinger(f)
    <3>1. /\ active' = [active EXCEPT ![k] = Nobody]
          /\ lingering' = [lingering EXCEPT ![k] = e]
          /\ SetFields(e, g)
      BY <1>2, <2>5 DEF Softcancel
    <3> HIDE DEF f
    <3>2. /\ g \in EvaluationFields
          /\ g.linger => g.fresh + g.stale > 0
          /\ g.key = f.key /\ g.task = f.task /\ g.members = f.members
          /\ g.result = f.result /\ g.claimed = f.claimed
      BY <2>2, <2>4, MoveToLingerFields DEF Sound
    <3> HIDE DEF g
    <3>3. Sound(g)
      BY <2>2, <2>4, <3>2 DEF Sound
    <3>4. /\ g.key = k /\ g.members = {} /\ g.task # "none"
          /\ g.task = evaluation[e].task /\ g.result = evaluation[e].result
      BY <2>2, <2>4, <2>5, <3>2
    <3>5. OthersTyped'
      BY <1>0, <2>1, <2>3, <3>1 DEF OthersTyped
    <3>6. active[k] = e
      OBVIOUS
    <3> HIDE DEF e
    <3>7. AllSound' /\ Becomes(e, g)
      BY <1>0, <2>1, <3>1, <3>3, SetSound
    <3>8. Registry'
      BY <1>0, <2>1, <3>1, <3>4, <3>6, <3>7, LingeredRegistry
    <3> QED BY <3>5, <3>7, <3>8 DEF Inv
  <2>6. CASE ~(f.members = {} /\ f.task # "none")
    <3>1. UNCHANGED registry /\ SetFields(e, f)
      BY <1>2, <2>6 DEF Softcancel
    <3> HIDE DEF f
    <3>2. Sound(f)
      BY <2>2, <2>4 DEF Sound
    <3>3. /\ f.members # {} \/ f.task = "none"
          /\ f.task = evaluation[e].task /\ f.result = evaluation[e].result
      BY <2>2, <2>4, <2>6 DEF f
    <3>4. OthersTyped'
      BY <1>0, <2>3, <3>1 DEF OthersTyped, registry
    <3>5. active[k] = e /\ f.key = k
      BY <2>2, <2>4
    <3> HIDE DEF e
    <3>6. AllSound' /\ Becomes(e, f)
      BY <1>0, <2>1, <3>1, <3>2, SetSound
    <3>7. Registry'
      BY <1>0, <2>1, <3>1, <3>3, <3>5, <3>6, LeftRegistry
    <3> QED BY <3>4, <3>6, <3>7 DEF Inv
  <2> QED BY <2>5, <2>6
<1> QED BY <1>1, <1>2

LEMMA SoftcancelExpressionInv ==
    ASSUME Inv, NEW k \in Key, NEW m \in Member, SoftcancelExpression(k, m)
    PROVE  Inv'
<1>1. call \in [Caller -> Call] /\ left' \subseteq Caller
  BY EvaluationParts DEF OthersTyped, SoftcancelExpression
<1> QED BY <1>1, SoftcancelInv DEF SoftcancelExpression

LEMMA LeaveInv ==
    ASSUME Inv, NEW c \in Caller, Leave(c)
    PROVE  Inv'
<1>0. OthersTyped /\ call[c] \in Call
  BY EvaluationParts DEF OthersTyped
<1>1. /\ call[c].key \in Key /\ call[c].request \in AnyRequest
      /\ call[c].outcome \in Outcome \union {"alone"}
      /\ ~At(c, "idle") /\ ~At(c, "ended")
  BY <1>0, CallFields DEF Leave, At
<1>2. call' \in [Caller -> Call]
  <2>1. [at |-> "alone", key |-> call[c].key, request |-> call[c].request] \in Call
    BY <1>1 DEF Call
  <2>2. CASE call[c].outcome = "alone" \/ BytesMissing(c)
    BY <1>0, <2>1, <2>2, GotoTyped DEF Leave
  <2>3. CASE ~(call[c].outcome = "alone" \/ BytesMissing(c))
    BY <1>0, <1>1, <2>3, LeaveTyped DEF Leave
  <2> QED BY <2>2, <2>3
<1>3. MemberOf[c] \in Member /\ left' \subseteq Caller
  BY <1>0 DEF Member, Leave, OthersTyped
<1> QED BY <1>1, <1>2, <1>3, SoftcancelInv DEF Leave

-----------------------------------------------------------------------------
(* What withdraws has published *)

\* An evaluation that changes keeps its result, or an unused one serves again.
ResultsKept ==
    \A e \in Evaluation : evaluation'[e].result = "pending" =>
        evaluation[e].result = "pending" \/ Unused(e)

\* A result is never taken back, but an object that nobody refers to may
\* serve again; nor does a caller come to withdraw before it has published.
LEMMA PublishedKept ==
    ASSUME OthersTyped, PublishedFirst,
           ResultsKept,
           \A c \in Caller : call'[c].at = "withdraw" => call'[c] = call[c]
    PROVE  PublishedFirst'
<1> SUFFICES ASSUME NEW c \in Caller, call'[c].at = "withdraw",
                    evaluation'[call'[c].eval].result = "pending"
             PROVE  FALSE
  BY DEF PublishedFirst, At, Pending
<1>1. call'[c] = call[c] /\ call[c].at = "withdraw" /\ call[c] \in Call
  BY DEF OthersTyped
<1>2. call[c].eval \in Evaluation /\ "eval" \in DOMAIN call[c]
  BY <1>1 DEF Call
<1>3. evaluation[call[c].eval].result # "pending"
  BY <1>1 DEF PublishedFirst, At, Pending
<1>4. ~Unused(call[c].eval)
  BY <1>2 DEF Unused
<1> QED BY <1>1, <1>2, <1>3, <1>4 DEF ResultsKept

\* Moving a caller elsewhere leaves the others where they are.
LEMMA GotoElsewhere ==
    ASSUME OthersTyped, NEW c \in Caller, NEW x, Goto(c, x), x.at # "withdraw"
    PROVE  \A d \in Caller : call'[d].at = "withdraw" => call'[d] = call[d]
BY DEF OthersTyped, Goto

LEMMA SetKeepsResults ==
    ASSUME AllSound, NEW e \in Evaluation, NEW g, SetFields(e, g),
           g.result = "pending" => evaluation[e].result = "pending" \/ Unused(e)
    PROVE  ResultsKept
BY DEF AllSound, SetFields, ResultsKept

\* The steps of tasks and callbacks.
LEMMA TasksKeepResults ==
    ASSUME Inv, NEW e \in Evaluation,
           \/ TaskStep(e) \/ ScheduleStep(e) \/ Expire(e)
           \/ \E outcome \in {"value", "error"} : Finish(e, outcome)
    PROVE  ResultsKept
<1> DEFINE f == evaluation[e]
<1>0. /\ AllSound /\ Sound(f) /\ f \in EvaluationFields
  BY EvaluationParts
<1>1. CASE Start(e)
  <2> DEFINE g == IF f.remote
              THEN [f EXCEPT !.task = "running",
                             !.dispatched = IF f.scratch THEN "scratch" ELSE "write"]
              ELSE IF results[f.key].cached /\ (~f.materialize \/ results[f.key].here)
              THEN [f EXCEPT !.task = "published", !.result = "value"]
              ELSE [f EXCEPT !.task = "running"]
  <2>1. SetFields(e, g)
    BY <1>1 DEF Start
  <2>2. g.result = "pending" => f.result = "pending"
    BY <1>0 DEF EvaluationFields
  <2> HIDE DEF g
  <2> QED BY <1>0, <2>1, <2>2, SetKeepsResults
<1>2. CASE Cancelled(e)
  <2> DEFINE g == [f EXCEPT !.task = "published", !.result = "cancelled"]
  <2>1. SetFields(e, g)
    BY <1>2 DEF Cancelled
  <2>2. g.result # "pending"
    BY <1>0 DEF EvaluationFields
  <2> HIDE DEF g
  <2> QED BY <1>0, <2>1, <2>2, SetKeepsResults
<1>3. CASE Withdraw(e)
  <2> DEFINE g == [f EXCEPT !.task = "withdrawn"]
  <2>1. SetFields(e, g)
    BY <1>3 DEF Withdraw
  <2>2. g.result = f.result
    BY <1>0 DEF EvaluationFields
  <2> HIDE DEF g
  <2> QED BY <1>0, <2>1, <2>2, SetKeepsResults
<1>4. CASE Discard(e)
  <2> DEFINE g == Discarded(f)
  <2>1. SetFields(e, g)
    BY <1>4 DEF Discard
  <2>2. g.result # "pending"
    BY <1>0, DiscardedFields
  <2> HIDE DEF g
  <2> QED BY <1>0, <2>1, <2>2, SetKeepsResults
<1>5. CASE Schedule(e)
  <2> DEFINE g == [f EXCEPT !.schedules = @ - 1, !.arming = f.members = {} /\ Pending(e)]
  <2>1. SetFields(e, g)
    BY <1>5 DEF Schedule
  <2>2. g.result = f.result
    BY <1>0 DEF EvaluationFields
  <2> HIDE DEF g
  <2> QED BY <1>0, <2>1, <2>2, SetKeepsResults
<1>6. CASE Arm(e)
  <2> DEFINE g == [f EXCEPT !.arming = FALSE, !.fresh = @ + 1, !.linger = TRUE]
  <2>1. SetFields(e, g)
    BY <1>6 DEF Arm
  <2>2. g.result = f.result
    BY <1>0 DEF EvaluationFields
  <2> HIDE DEF g
  <2> QED BY <1>0, <2>1, <2>2, SetKeepsResults
<1>7. CASE Expire(e)
  <2> DEFINE h == Fired(f)
             g == IF Expires(e) /\ f.members = {} THEN TaskCancelled(h) ELSE h
  <2>1. SetFields(e, g)
    BY <1>7 DEF Expire
  <2>2. h \in EvaluationFields /\ h.result = f.result
    BY <1>0, <1>7, FiredFields DEF Expire, Timers
  <2> HIDE DEF h
  <2>3. /\ TaskCancelled(h) \in EvaluationFields
        /\ TaskCancelled(h) = [h EXCEPT !.task = TaskCancelled(h).task]
    BY <2>2, TaskCancelledFields
  <2>4. TaskCancelled(h).result = f.result
    BY <2>2, <2>3 DEF EvaluationFields
  <2>5. g.result = f.result
    BY <2>2, <2>4
  <2> HIDE DEF g
  <2> QED BY <1>0, <2>1, <2>5, SetKeepsResults
<1>8. ASSUME NEW outcome \in {"value", "error"}, Finish(e, outcome) PROVE ResultsKept
  <2> DEFINE g == [f EXCEPT !.task = "published", !.result = outcome]
  <2>1. SetFields(e, g)
    BY <1>8 DEF Finish
  <2>2. g.result # "pending"
    BY <1>0 DEF EvaluationFields
  <2> HIDE DEF g
  <2> QED BY <1>0, <2>1, <2>2, SetKeepsResults
<1> QED BY <1>1, <1>2, <1>3, <1>4, <1>5, <1>6, <1>7, <1>8 DEF TaskStep, ScheduleStep

\* Leaving does not touch results.
LEMMA SoftcancelKeepsResults ==
    ASSUME Inv, NEW k \in Key, NEW m \in Member, NEW c, Softcancel(k, m, c)
    PROVE  ResultsKept
<1> DEFINE e == active[k]
           f == WithoutMember(evaluation[e], m)
<1>0. OthersTyped /\ AllSound
  BY EvaluationParts
<1>1. CASE ~Leaves(k, m)
  BY <1>1 DEF Softcancel, ResultsKept
<1>2. CASE Leaves(k, m)
  <2>1. e \in Evaluation
    BY <1>0, <1>2 DEF Leaves, OthersTyped
  <2>2. evaluation[e] \in EvaluationFields /\ Sound(evaluation[e])
    BY <2>1, EvaluationParts
  <2>3. /\ f \in EvaluationFields /\ f.result = evaluation[e].result
        /\ f.linger => f.fresh + f.stale > 0
    BY <2>2, WithoutMemberFields DEF Sound
  <2>4. SetFields(e, MoveToLinger(f)) \/ SetFields(e, f)
    BY <1>2 DEF Softcancel
  <2> HIDE DEF e, f
  <2>5. MoveToLinger(f).result = evaluation[e].result
    BY <2>3, MoveToLingerFields
  <2> QED BY <1>0, <2>1, <2>3, <2>4, <2>5, SetKeepsResults
<1> QED BY <1>1, <1>2

\* The steps of a call that end elsewhere than at the withdrawal.
LEMMA ProceedPublished ==
    ASSUME Inv, PublishedFirst, NEW c \in Caller,
           Ask(c) \/ Proceed(c) \/ CancelCaller(c)
    PROVE  PublishedFirst'
<1>0. OthersTyped /\ AllSound /\ call[c] \in Call
  BY EvaluationParts DEF OthersTyped
<1>1. ASSUME UNCHANGED evaluation, NEW x, Goto(c, x), x.at # "withdraw" PROVE PublishedFirst'
  <2>1. ResultsKept
    BY <1>1 DEF ResultsKept
  <2> QED BY <1>0, <1>1, <2>1, GotoElsewhere, PublishedKept
<1>2. CASE Ask(c)
  BY <1>1, <1>2 DEF Ask, Begin
<1>3. CASE Resume(c) \/ WaiterCancelled(c) \/ CancelCaller(c)
  BY <1>1, <1>3 DEF Resume, WaiterCancelled, CancelCaller, LeaveWith, Done
<1>4. CASE CloseLoop(c)
  BY <1>1, <1>4 DEF CloseLoop
<1>5. ASSUME NEW outcome \in {"value", "error"}, EvaluateAlone(c, outcome)
      PROVE  PublishedFirst'
  BY <1>1, <1>5 DEF EvaluateAlone, Done
<1>6. CASE Join(c)
  <2> DEFINE e == Found(call[c].key)
             g == Joined(evaluation[e], c)
  <2>1. call[c].key \in Key /\ call[c].request \in AnyRequest
    BY <1>0, <1>6, CallFields DEF Join, At
  <2>2. e \in Evaluation /\ SetFields(e, g)
    BY <1>0, <1>6, <2>1, FoundTyped DEF Join, Joinable, Enter, SetFields
  <2>3. Sound(evaluation[e]) /\ evaluation[e] \in EvaluationFields
    BY <2>2, EvaluationParts
  <2>4. g.result = evaluation[e].result
    BY <2>1, <2>3, JoinedFields DEF Sound
  <2>5. \E x : Goto(c, x) /\ x.at # "withdraw"
    <3> DEFINE k == call[c].key
               place == IF Calls(c, "sync") /\ LoopOf[c] # Nobody
                                /\ evaluation[e].loop = LoopOf[c]
                          THEN [at |-> "leave", key |-> k, request |-> call[c].request,
                                eval |-> e, outcome |-> "alone"]
                          ELSE [at |-> "wait", key |-> k, request |-> call[c].request,
                                eval |-> e]
    <3>1. Goto(c, place)
      BY <1>6 DEF Join
    <3>2. place.at # "withdraw"
      OBVIOUS
    <3> HIDE DEF place
    <3> QED BY <3>1, <3>2
  <2> HIDE DEF e, g
  <2>6. ResultsKept
    BY <1>0, <2>2, <2>4, SetKeepsResults
  <2> QED BY <1>0, <2>5, <2>6, GotoElsewhere, PublishedKept
<1>7. CASE Create(c)
  <2> DEFINE g == NewEvaluation(c)
  <2>1. PICK e \in Evaluation :
            /\ Unused(e) /\ SetFields(e, g)
            /\ Goto(c, [at |-> IF Async(c) THEN "wait" ELSE "own", key |-> call[c].key,
                        request |-> call[c].request, eval |-> e])
    BY <1>7 DEF Create, Enter, SetFields
  <2> DEFINE x == [at |-> IF Async(c) THEN "wait" ELSE "own", key |-> call[c].key,
                   request |-> call[c].request, eval |-> e]
  <2>3. Goto(c, x) /\ x.at # "withdraw"
    BY <2>1
  <2> HIDE DEF x
  <2> HIDE DEF g
  <2>2. ResultsKept
    BY <1>0, <2>1, SetKeepsResults
  <2> QED BY <1>0, <2>2, <2>3, GotoElsewhere, PublishedKept
<1>8. CASE Leave(c)
  <2>1. call[c].key \in Key /\ MemberOf[c] \in Member
    BY <1>0, <1>8, CallFields DEF Leave, At, Member
  <2>2. ResultsKept
    BY <1>8, <2>1, SoftcancelKeepsResults DEF Leave
  <2>3. \E x : Goto(c, x) /\ x.at # "withdraw"
    BY <1>8 DEF Leave, Done
  <2> QED BY <1>0, <2>2, <2>3, GotoElsewhere, PublishedKept
<1>9. ASSUME NEW outcome \in {"value", "error"}, SyncPublish(c, outcome)
      PROVE  PublishedFirst'
  <2> DEFINE e == call[c].eval
  <2>1. e \in Evaluation
    BY <1>0, <1>9, CallFields DEF SyncPublish, At
  <2>2. \A d \in Evaluation : evaluation'[d].result =
            IF d = e THEN outcome ELSE evaluation[d].result
    BY <1>0, <1>9, <2>1, EvaluationParts DEF SyncPublish, SetFields, AllSound, EvaluationFields
  <2>3. /\ \A d \in Caller \ {c} : call'[d] = call[d]
        /\ call'[c].eval = e
    BY <1>0, <1>9 DEF SyncPublish, Goto, OthersTyped
  <2> HIDE DEF e
  <2>4. ASSUME NEW d \in Caller, call'[d].at = "withdraw"
        PROVE  evaluation'[call'[d].eval].result # "pending"
    <3>1. CASE d = c
      BY <2>1, <2>2, <2>3, <3>1
    <3>2. CASE d # c
      <4>1. call'[d] = call[d] /\ call[d] \in Call
        BY <1>0, <2>3, <3>2 DEF OthersTyped
      <4>2. call[d].eval \in Evaluation
        BY <2>4, <4>1, CallFields
      <4>3. evaluation[call[d].eval].result # "pending"
        BY <2>4, <4>1 DEF PublishedFirst, At, Pending
      <4> QED BY <2>2, <4>1, <4>2, <4>3
    <3> QED BY <3>1, <3>2
  <2> QED BY <2>4 DEF PublishedFirst, At, Pending
<1>10. CASE SyncWithdraw(c)
  <2> DEFINE e == call[c].eval
             g == Discarded(evaluation[e])
  <2>1. e \in Evaluation /\ SetFields(e, g)
    BY <1>0, <1>10, CallFields DEF SyncWithdraw, At
  <2>2. g.result # "pending"
    BY <2>1, EvaluationParts, DiscardedFields
  <2>3. \E x : Goto(c, x) /\ x.at # "withdraw"
    BY <1>10 DEF SyncWithdraw, Done
  <2> HIDE DEF e, g
  <2>4. ResultsKept
    BY <1>0, <2>1, <2>2, SetKeepsResults
  <2> QED BY <1>0, <2>3, <2>4, GotoElsewhere, PublishedKept
<1>11. CASE Return(c)
  <2>1. ASSUME NEW e \in Evaluation, evaluation'[e].result = "pending"
        PROVE  evaluation[e].result = "pending"
    <3>1. evaluation[e] \in EvaluationFields /\ evaluation \in [Evaluation -> EvaluationFields]
      BY EvaluationParts DEF AllSound
    <3>2. /\ TaskCancelled(evaluation[e]) \in EvaluationFields
          /\ TaskCancelled(evaluation[e]) =
                [evaluation[e] EXCEPT !.task = TaskCancelled(evaluation[e]).task]
      BY <3>1, TaskCancelledFields
    <3>3. TaskCancelled(evaluation[e]).result = evaluation[e].result
      BY <3>1, <3>2 DEF EvaluationFields
    <3>4. evaluation'[e] \in {evaluation[e], TaskCancelled(evaluation[e])}
      BY <1>11, <3>1 DEF Return
    <3> QED BY <2>1, <3>3, <3>4
  <2>2. \E x : Goto(c, x) /\ x.at # "withdraw"
    BY <1>11 DEF Return
  <2>3. ResultsKept
    BY <2>1 DEF ResultsKept
  <2> QED BY <1>0, <2>2, <2>3, GotoElsewhere, PublishedKept
<1> QED BY <1>2, <1>3, <1>4, <1>5, <1>6, <1>7, <1>8, <1>9, <1>10, <1>11 DEF Proceed

-----------------------------------------------------------------------------
(* The invariant *)

\* At the start nothing is registered, running or called.
LEMMA InitInv == Init => IndInv
<1> SUFFICES ASSUME Init PROVE IndInv
  OBVIOUS
<1> DEFINE key == CHOOSE k \in Key : TRUE
           waiters == [m \in Member |-> Nobody]
           f == [key |-> key, task |-> "done", loop |-> Nobody,
                 remote |-> FALSE, materialize |-> FALSE, members |-> {},
                 waiters |-> waiters, result |-> "cancelled",
                 scratch |-> TRUE, dispatched |-> "no", claimed |-> FALSE,
                 schedules |-> 0, arming |-> FALSE, fresh |-> 0, stale |-> 0,
                 linger |-> FALSE]
<1>0. Nobody \notin Evaluation
  BY NobodyAssumption
<1>1. key \in Key /\ waiters \in [Member -> Caller \union {Nobody}]
  BY KeyAssumption
<1>2. evaluation = [e \in Evaluation |-> f]
  BY DEF Init
<1> HIDE DEF key, waiters
<1>3. /\ f \in EvaluationFields
      /\ f.task = "done" /\ f.result = "cancelled" /\ ~f.claimed /\ ~f.linger
  BY <1>1 DEF EvaluationFields, Task, Outcome
<1> HIDE DEF f
<1>4. Sound(f)
  BY <1>3 DEF Sound
<1>5. AllSound
  BY <1>2, <1>3, <1>4 DEF AllSound
<1>6. OthersTyped
  <2>1. [at |-> "idle"] \in Call
    BY DEF Call
  <2> QED BY <2>1, EarlierAssumption DEF Init, OthersTyped
<1>7. Registry
  BY <1>0, <1>2, <1>3 DEF Init, Registry, KeysMatch, SharedOnce, AbandonedLingers, Running, Pending
<1>8. PublishedFirst
  BY DEF Init, PublishedFirst, At
<1> QED BY <1>5, <1>6, <1>7, <1>8, Parts

\* Every step keeps what is true of evaluations, registry and calls.
LEMMA StepInv ==
    ASSUME Inv, PublishedFirst, Next
    PROVE  Inv' /\ PublishedFirst'
<1>0. OthersTyped
  BY DEF Inv
<1>1. ASSUME NEW c \in Caller, Ask(c) \/ Proceed(c) \/ CancelCaller(c)
      PROVE  Inv' /\ PublishedFirst'
  <2>1. ASSUME Ask(c) \/ CancelCaller(c) \/ Resume(c) \/ WaiterCancelled(c) \/ CloseLoop(c)
             \/ \E outcome \in {"value", "error"} : EvaluateAlone(c, outcome) PROVE Inv'
    BY <2>1, MovesInv DEF Ask
  <2>2. ASSUME Join(c) PROVE Inv'
    BY <2>2, JoinInv
  <2>3. ASSUME Create(c) PROVE Inv'
    BY <2>3, CreateInv
  <2>4. ASSUME Leave(c) PROVE Inv'
    BY <2>4, LeaveInv
  <2>5. ASSUME \E outcome \in {"value", "error"} : SyncPublish(c, outcome) PROVE Inv'
    BY <2>5, SyncPublishInv
  <2>6. ASSUME SyncWithdraw(c) PROVE Inv'
    BY <2>6, SyncWithdrawInv
  <2>7. ASSUME Return(c) PROVE Inv'
    BY <2>7, ReturnInv
  <2>8. Inv'
    BY <1>1, <2>1, <2>2, <2>3, <2>4, <2>5, <2>6, <2>7 DEF Proceed
  <2> QED BY <1>1, <2>8, ProceedPublished
<1>2. ASSUME NEW k \in Key, NEW m \in Member, SoftcancelExpression(k, m)
      PROVE  Inv' /\ PublishedFirst'
  <2>1. ResultsKept
    BY <1>2, SoftcancelKeepsResults DEF SoftcancelExpression
  <2>2. PublishedFirst'
    BY <1>0, <1>2, <2>1, PublishedKept DEF SoftcancelExpression
  <2> QED BY <1>2, <2>2, SoftcancelExpressionInv
<1>3. ASSUME NEW e \in Evaluation,
             \/ TaskStep(e) \/ ScheduleStep(e) \/ Expire(e)
             \/ \E outcome \in {"value", "error"} : Finish(e, outcome)
      PROVE  Inv' /\ PublishedFirst'
  <2>1. ASSUME Start(e) PROVE Inv'
    BY <2>1, StartInv
  <2>2. ASSUME Cancelled(e) \/ \E outcome \in {"value", "error"} : Finish(e, outcome) PROVE Inv'
    BY <2>2, PublishInv
  <2>3. ASSUME Withdraw(e) PROVE Inv'
    BY <2>3, WithdrawInv
  <2>4. ASSUME Discard(e) PROVE Inv'
    BY <2>4, DiscardInv
  <2>5. ASSUME ScheduleStep(e) PROVE Inv'
    BY <2>5, ScheduleInv DEF ScheduleStep
  <2>6. ASSUME Expire(e) PROVE Inv'
    BY <2>6, ExpireInv
  <2>7. Inv'
    BY <1>3, <2>1, <2>2, <2>3, <2>4, <2>5, <2>6 DEF TaskStep
  <2>8. ResultsKept
    BY <1>3, TasksKeepResults
  <2>9. UNCHANGED call
    BY <1>3 DEF TaskStep, ScheduleStep, Start, Cancelled, Withdraw, Discard, Schedule, Arm,
                Expire, Finish
  <2>10. PublishedFirst'
    BY <1>0, <2>8, <2>9, PublishedKept
  <2> QED BY <2>7, <2>10
<1> QED BY <1>1, <1>2, <1>3 DEF Next

\* Whatever callers, tasks, callbacks and timers do, in any order: evaluations,
\* registry and calls fit together.  This is the induction for the theorems
\* below.
THEOREM SpecIndInv == Spec => []IndInv
<1>1. ASSUME IndInv, [Next]_vars PROVE IndInv'
  <2>1. Inv /\ PublishedFirst
    BY <1>1, Parts DEF Inv
  <2>2. CASE Next
    <3>1. Inv' /\ PublishedFirst'
      BY <2>1, <2>2, StepInv
    <3> QED BY <3>1, Parts, PTL DEF Inv
  <2>3. CASE UNCHANGED vars
    BY <1>1, <2>3 DEF vars, registry, IndInv, TypeOK, KeysMatch, SharedOnce, AbandonedLingers,
        TimersCounted, DoneIsOver, PublishedFirst, ClaimsFollowWork, Running, Pending, Timers,
        Unused, At
  <2> QED BY <1>1, <2>2, <2>3
<1> QED BY <1>1, InitInv, PTL DEF Spec

\* The maps, the fields of every evaluation and the place of every caller
\* keep their types: no counter of timers goes below zero, and whoever waits,
\* computes or leaves refers to an evaluation.
THEOREM TypeCorrect == Spec => []TypeOK
<1>1. IndInv => TypeOK
  BY DEF IndInv
<1> QED BY <1>1, SpecIndInv, PTL

\* _join_expression, softcancel_expression, expire() and the done callbacks
\* never lose an evaluation that can still produce a result: at most one of a
\* key runs that was not cancelled, and who asks next joins it.
THEOREM SharedEvaluations == Spec => []SharedOnce
<1>1. IndInv => SharedOnce
  BY DEF IndInv
<1> QED BY <1>1, SpecIndInv, PTL

\* The linger timer is for evaluations that nobody waits for: what expire()
\* cancels has no members, and what softcancel_expression leaves without
\* members has a linger, unless a synchronous caller computes it.
THEOREM LingerIsAbandonment == Spec => []AbandonedLingers
<1>1. IndInv => AbandonedLingers
  BY DEF IndInv
<1> QED BY <1>1, SpecIndInv, PTL

\* The claims on the inputs are held while the evaluation is pending, and
\* released at its end, whether it finished, failed, was cancelled or never
\* started.
THEOREM ClaimsReleased == Spec => []ClaimsFollowWork
<1>1. IndInv => ClaimsFollowWork
  BY DEF IndInv
<1> QED BY <1>1, SpecIndInv, PTL

-----------------------------------------------------------------------------
(* What steps leave of an evaluation *)

\* What an evaluation is for stays.
Alike(f, g) ==
    /\ g.key = f.key /\ g.remote = f.remote /\ g.materialize = f.materialize
    /\ g.loop = f.loop /\ g.dispatched = f.dispatched

\* So does everything but callbacks and timers.
SameWork(f, g) ==
    /\ Alike(f, g)
    /\ g.task = f.task /\ g.result = f.result
    /\ g.members = f.members /\ g.waiters = f.waiters

LEMMA LingerCancelledSame ==
    ASSUME NEW f \in EvaluationFields
    PROVE  SameWork(f, LingerCancelled(f))
BY DEF EvaluationFields, LingerCancelled, SameWork, Alike

LEMMA JoinedSame ==
    ASSUME NEW f \in EvaluationFields, f.linger => f.fresh + f.stale > 0,
           NEW c \in Caller, NEW g, g = Joined(f, c)
    PROVE  /\ Alike(f, g) /\ g.task = f.task /\ g.result = f.result
           /\ g.members = f.members \union {MemberOf[c]}
           /\ g.waiters = IF Async(c) THEN [f.waiters EXCEPT ![MemberOf[c]] = c] ELSE f.waiters
<1> DEFINE h == IF Async(c) THEN LingerCancelled(f) ELSE f
           scratch == h.scratch /\ (Calls(c, "remote") => call[c].request.scratch)
           waiters == IF Async(c) THEN [h.waiters EXCEPT ![MemberOf[c]] = c] ELSE h.waiters
<1>1. h \in EvaluationFields /\ SameWork(f, h)
  BY LingerCancelledSame, LingerCancelledFields DEF SameWork, Alike
<1>2. g = [h EXCEPT !.members = @ \union {MemberOf[c]}, !.waiters = waiters, !.scratch = scratch]
  BY DEF Joined
<1>3. waiters = IF Async(c) THEN [f.waiters EXCEPT ![MemberOf[c]] = c] ELSE f.waiters
  BY <1>1 DEF SameWork
<1> HIDE DEF h, scratch, waiters
<1>4. /\ Alike(h, g) /\ g.task = h.task /\ g.result = h.result
      /\ g.members = h.members \union {MemberOf[c]} /\ g.waiters = waiters
  BY <1>1, <1>2 DEF EvaluationFields, Alike
<1> QED BY <1>1, <1>3, <1>4 DEF SameWork, Alike

LEMMA WithoutMemberSame ==
    ASSUME NEW f \in EvaluationFields, NEW m \in Member
    PROVE  LET g == WithoutMember(f, m)
           IN  /\ Alike(f, g) /\ g.task = f.task /\ g.result = f.result
               /\ g.members = f.members \ {m}
               /\ g.waiters = [f.waiters EXCEPT ![m] = Nobody]
BY DEF EvaluationFields, WithoutMember, Alike

LEMMA MoveToLingerSame ==
    ASSUME NEW f \in EvaluationFields
    PROVE  SameWork(f, MoveToLinger(f))
BY DEF EvaluationFields, MoveToLinger, SameWork, Alike

LEMMA FiredSame ==
    ASSUME NEW f \in EvaluationFields
    PROVE  SameWork(f, Fired(f))
BY DEF EvaluationFields, Fired, SameWork, Alike

LEMMA TaskCancelledSame ==
    ASSUME NEW f \in EvaluationFields
    PROVE  LET g == TaskCancelled(f)
           IN  /\ Alike(f, g) /\ g.result = f.result
               /\ g.members = f.members /\ g.waiters = f.waiters
               /\ f.task = "created" => g.task = "withdrawn"
               /\ f.task = "running" => g.task = "cancelling"
               /\ f.task \notin {"created", "running"} => g.task = f.task
<1> DEFINE task == CASE f.task = "created" -> "withdrawn"
                     [] f.task = "running" -> "cancelling"
                     [] OTHER -> f.task
<1>1. TaskCancelled(f) = [f EXCEPT !.task = task]
  BY DEF TaskCancelled
<1>2. /\ f.task = "created" => task = "withdrawn"
      /\ f.task = "running" => task = "cancelling"
      /\ f.task \notin {"created", "running"} => task = f.task
  OBVIOUS
<1> HIDE DEF task
<1> QED BY <1>1, <1>2 DEF EvaluationFields, Alike

LEMMA DiscardedSame ==
    ASSUME NEW f \in EvaluationFields
    PROVE  LET g == Discarded(f)
           IN  /\ Alike(f, g) /\ g.task = "done" /\ g.members = {}
               /\ g.result = IF f.result = "pending" THEN "cancelled" ELSE f.result
               /\ \A m \in Member : g.waiters[m] = Nobody
<1> DEFINE h == Dropped(f)
           waiters == [m \in Member |-> Nobody]
           result == IF f.result = "pending" THEN "cancelled" ELSE f.result
<1>1. h = [f EXCEPT !.task = "done", !.members = {}, !.waiters = waiters,
                    !.schedules = 0, !.fresh = 0, !.stale = 0, !.linger = FALSE]
  BY DEF Dropped
<1>2. Discarded(f) = [h EXCEPT !.claimed = FALSE,
                               !.result = IF @ = "pending" THEN "cancelled" ELSE @]
  BY DEF Discarded
<1>3. \A m \in Member : waiters[m] = Nobody
  OBVIOUS
<1> HIDE DEF h, waiters
<1>4. /\ Alike(f, h) /\ h.task = "done" /\ h.members = {} /\ h.waiters = waiters
      /\ h.result = f.result
      /\ DOMAIN h = DOMAIN f
  BY <1>1 DEF EvaluationFields, Alike
<1>5. Discarded(f) = [h EXCEPT !.claimed = FALSE, !.result = result]
  BY <1>1, <1>2, <1>4 DEF EvaluationFields
<1> HIDE DEF result
<1>6. LET g == Discarded(f)
      IN  /\ Alike(h, g) /\ g.task = h.task /\ g.members = h.members
          /\ g.waiters = h.waiters /\ g.result = result
  BY <1>1, <1>4, <1>5 DEF EvaluationFields, Alike
<1> QED BY <1>3, <1>4, <1>6 DEF Alike, result

-----------------------------------------------------------------------------
(* Who asks for bytes gets them *)

ResultsGrow ==
    \A k \in Key : /\ results[k].here => results'[k].here
                   /\ results[k].written => results'[k].written

\* How an evaluation may change under the callers that refer to it.
CarriesOn(f, g) ==
    /\ g.key = f.key
    /\ g.remote = f.remote /\ g.materialize = f.materialize
    /\ f.dispatched = "scratch" => g.dispatched = "scratch"
    /\ f.task \in {"none", "done"} =>
        /\ g.task \in {"none", "done"}
        /\ g.result = "value" => f.result = "value" \/ results'[f.key].here

\* What a step has to keep: a caller relies on what it did, and is answered as
\* MaterializedAnswered says.
AnswersWell(c) ==
    /\ AnswerBacked(c)'
    /\ ~At(c, "done") /\ Answered(c)' => HasBytes(c)' \/ JoinedChecksumOnly(c)
BytesKept ==
    /\ \A e \in Evaluation : ValueBacked(e)'
    /\ \A c \in Caller : AnswersWell(c)

\* How most steps change it: no value, dispatch or start is new.
NothingNew(f, g) ==
    /\ Alike(f, g)
    /\ g.result = "value" => f.result = "value"
    /\ g.task \in {"created", "running"} => g.task = f.task
    /\ f.task \in {"none", "done"} => g.task \in {"none", "done"}

LEMMA SameIsNothingNew ==
    ASSUME NEW f, NEW g, SameWork(f, g)
    PROVE  NothingNew(f, g)
BY DEF SameWork, NothingNew

LEMMA NothingNewCarriesOn ==
    ASSUME NEW f, NEW g, NothingNew(f, g)
    PROVE  CarriesOn(f, g)
BY DEF NothingNew, CarriesOn, Alike

LEMMA NothingNewBacked ==
    ASSUME NEW e \in Evaluation, evaluation[e].key \in Key, ValueBacked(e), ResultsGrow,
           NothingNew(evaluation[e], evaluation'[e])
    PROVE  ValueBacked(e)'
BY DEF ValueBacked, Backed, ChecksumOnly, ResultsGrow, NothingNew, Alike

\* A caller that stays where it is keeps what it relies on.
LEMMA CallKept ==
    ASSUME OthersTyped, NEW c \in Caller, AnswerBacked(c), call'[c] = call[c], ResultsGrow,
           \A e \in Evaluation :
                "eval" \in DOMAIN call[c] /\ call[c].eval = e =>
                    CarriesOn(evaluation[e], evaluation'[e])
    PROVE  AnswersWell(c)
<1>1. call[c] \in Call
  BY DEF OthersTyped
<1>2. ASSUME call[c].at \in {"wait", "own", "withdraw", "leave"}
      PROVE  /\ call[c].eval \in Evaluation /\ call[c].key \in Key
             /\ CarriesOn(evaluation[call[c].eval], evaluation'[call[c].eval])
  BY <1>1, <1>2 DEF Call
<1>3. CallMatches(c)'
  BY <1>2 DEF AnswerBacked, CallMatches, CarriesOn
<1>4. At(c, "leave")' /\ call'[c].outcome = "value" => Backed(call[c].key, call[c].eval)'
  BY <1>2 DEF AnswerBacked, At, Backed, ChecksumOnly, CarriesOn, ResultsGrow
<1>5. At(c, "withdraw")' /\ evaluation'[call'[c].eval].result = "value" =>
        results'[call'[c].key].here
  <2> SUFFICES ASSUME call[c].at = "withdraw", evaluation'[call[c].eval].result = "value"
               PROVE  results'[call[c].key].here
    BY DEF At
  <2>1. evaluation[call[c].eval].task \in {"none", "done"}
        /\ evaluation[call[c].eval].key = call[c].key
    BY DEF AnswerBacked, CallMatches
  <2> QED BY <1>2, <2>1 DEF AnswerBacked, At, CarriesOn, ResultsGrow
<1> QED BY <1>3, <1>4, <1>5 DEF AnswerBacked, AnswersWell, Answered, At

\* A step is good for the bytes if it is for every evaluation and every call.
LEMMA BytesStep ==
    ASSUME Inv, BytesFollow, ResultsGrow,
           \A e \in Evaluation : ValueBacked(e)',
           \A e \in Evaluation : ~Unused(e) => CarriesOn(evaluation[e], evaluation'[e]),
           \A c \in Caller : call'[c] = call[c] \/ AnswersWell(c)
    PROVE  BytesKept
<1> SUFFICES ASSUME NEW c \in Caller, call'[c] = call[c] PROVE AnswersWell(c)
  BY DEF BytesKept
<1>1. \A e \in Evaluation :
        "eval" \in DOMAIN call[c] /\ call[c].eval = e => CarriesOn(evaluation[e], evaluation'[e])
  BY DEF Unused
<1> QED BY <1>1, CallKept DEF Inv, BytesFollow

\* Most steps are good for every evaluation.
LEMMA NothingNewStep ==
    ASSUME Inv, BytesFollow, ResultsGrow,
           \A e \in Evaluation : NothingNew(evaluation[e], evaluation'[e]),
           \A c \in Caller : call'[c] = call[c] \/ AnswersWell(c)
    PROVE  BytesKept
<1>1. \A e \in Evaluation : ValueBacked(e)'
  BY NothingNewBacked, EvaluationParts DEF BytesFollow
<1>2. \A e \in Evaluation : CarriesOn(evaluation[e], evaluation'[e])
  BY NothingNewCarriesOn
<1> QED BY <1>1, <1>2, BytesStep

\* Of the evaluation e only.
LEMMA OneChanges ==
    ASSUME Inv, NEW e \in Evaluation, NEW g, SetFields(e, g)
    PROVE  /\ evaluation'[e] = g
           /\ \A d \in Evaluation \ {e} : evaluation'[d] = evaluation[d]
BY EvaluationParts DEF SetFields, AllSound

LEMMA OneNothingNew ==
    ASSUME Inv, NEW e \in Evaluation, NEW g, SetFields(e, g), NothingNew(evaluation[e], g)
    PROVE  \A d \in Evaluation : NothingNew(evaluation[d], evaluation'[d])
BY OneChanges DEF NothingNew, Alike

\* Of the call of c only.
LEMMA OneMoves ==
    ASSUME OthersTyped, NEW c \in Caller, NEW x, Goto(c, x)
    PROVE  call'[c] = x /\ \A d \in Caller \ {c} : call'[d] = call[d]
BY DEF OthersTyped, Goto

LEMMA RecordGrows ==
    ASSUME OthersTyped, NEW k \in Key, NEW here \in BOOLEAN, NEW written \in BOOLEAN,
           RecordValue(k, here, written)
    PROVE  /\ ResultsGrow
           /\ here => results'[k].here
           /\ written => results'[k].written
BY DEF OthersTyped, RecordValue, AnyResult, ResultsGrow

\* Calls at their various places.
LEMMA AtRest ==
    ASSUME NEW c \in Caller, NEW x, call'[c] = x,
           \/ x.at \in {"idle", "ended"}
           \/ x.at \in {"join", "alone"} /\ x.request \in Request[c]
    PROVE  AnswersWell(c)
BY DEF AnswersWell, AnswerBacked, Answered, HasBytes, CallMatches, At

LEMMA AtWait ==
    ASSUME NEW c \in Caller, NEW k \in Key, NEW r \in Request[c], NEW e \in Evaluation,
           call'[c] = [at |-> "wait", key |-> k, request |-> r, eval |-> e],
           evaluation'[e].key = k
    PROVE  AnswersWell(c)
BY DEF AnswersWell, AnswerBacked, Answered, HasBytes, CallMatches, At

LEMMA AtLeave ==
    ASSUME NEW c \in Caller, NEW k \in Key, NEW r \in Request[c], NEW e \in Evaluation,
           NEW outcome,
           call'[c] = [at |-> "leave", key |-> k, request |-> r, eval |-> e,
                       outcome |-> outcome],
           evaluation'[e].key = k, outcome = "value" => Backed(k, e)'
    PROVE  AnswersWell(c)
BY DEF AnswersWell, AnswerBacked, Answered, HasBytes, CallMatches, At

LEMMA AtDone ==
    ASSUME NEW c \in Caller, NEW k \in Key, NEW r \in Request[c], NEW outcome,
           call'[c] = [at |-> "done", key |-> k, request |-> r, outcome |-> outcome],
           outcome = "value" /\ r.materialize => Reachable(k, r)' \/ JoinedChecksumOnly(c)
    PROVE  AnswersWell(c)
BY DEF AnswersWell, AnswerBacked, Answered, HasBytes, CallMatches, At

LEMMA MovedStep ==
    ASSUME Inv, BytesFollow, ResultsGrow,
           \A e \in Evaluation : NothingNew(evaluation[e], evaluation'[e]),
           NEW c \in Caller, NEW x, Goto(c, x), AnswersWell(c)
    PROVE  BytesKept
<1>1. \A d \in Caller \ {c} : call'[d] = call[d]
  BY OneMoves DEF Inv
<1> QED BY <1>1, NothingNewStep

\* What a caller has in hand.
LEMMA InHand ==
    ASSUME Inv, BytesFollow, NEW c \in Caller
    PROVE  /\ call[c] \in Call /\ CallMatches(c) /\ AnswerBacked(c)
           /\ call[c].at \notin {"idle", "ended"} =>
                call[c].key \in Key /\ call[c].request \in Request[c]
           /\ call[c].at \in {"wait", "own", "withdraw", "leave"} =>
                /\ call[c].eval \in Evaluation
                /\ evaluation[call[c].eval].key = call[c].key
BY CallFields DEF Inv, OthersTyped, BytesFollow, AnswerBacked, CallMatches

\* Evaluations and results stay, but what is computed alone.
LEMMA MovesBytes ==
    ASSUME Inv, BytesFollow, NEW c \in Caller,
           \/ \E k \in Key, r \in Request[c] : Begin(c, k, r)
           \/ Resume(c) \/ WaiterCancelled(c) \/ CancelCaller(c) \/ CloseLoop(c)
           \/ \E outcome \in {"value", "error"} : EvaluateAlone(c, outcome)
    PROVE  BytesKept
<1> PICK k, r, e : k = call[c].key /\ r = call[c].request /\ e = call[c].eval
  OBVIOUS
<1>0. /\ OthersTyped /\ call[c] \in Call /\ CallMatches(c) /\ AnswerBacked(c)
      /\ call[c].at \notin {"idle", "ended"} => k \in Key /\ r \in Request[c]
      /\ call[c].at \in {"wait", "own", "withdraw", "leave"} =>
            e \in Evaluation /\ evaluation[e].key = k
  BY InHand DEF Inv
<1>1. UNCHANGED evaluation
  BY DEF Begin, Resume, WaiterCancelled, CancelCaller, CloseLoop, EvaluateAlone
<1>2. \A d \in Evaluation : NothingNew(evaluation[d], evaluation'[d])
  BY <1>1 DEF NothingNew, Alike
<1>3. ASSUME NEW j \in Key, NEW q \in Request[c], Begin(c, j, q) PROVE BytesKept
  <2>1. UNCHANGED results /\ ResultsGrow
    BY <1>3 DEF Begin, ResultsGrow
  <2>2. CASE q.form = "peek"
    <3>1. Found(j) \in Evaluation /\ evaluation'[Found(j)].key = j
      BY <1>0, <1>1, <1>3, <2>2, FoundTyped, EvaluationParts DEF Begin, Registry, KeysMatch, Found
    <3>2. Goto(c, [at |-> "wait", key |-> j, request |-> q, eval |-> Found(j)])
      BY <1>3, <2>2 DEF Begin
    <3>3. AnswersWell(c)
      BY <1>0, <3>1, <3>2, OneMoves, AtWait
    <3> QED BY <1>0, <1>2, <2>1, <3>2, <3>3, MovedStep
  <2>3. CASE q.form # "peek" /\ Recorded(j, q)
    <3>1. Goto(c, [at |-> "done", key |-> j, request |-> q, outcome |-> "value"])
      BY <1>3, <2>3 DEF Begin
    <3>2. q.materialize => Reachable(j, q)'
      BY <2>1, <2>3 DEF Recorded, Reachable
    <3>3. AnswersWell(c)
      BY <1>0, <3>1, <3>2, OneMoves, AtDone
    <3> QED BY <1>0, <1>2, <2>1, <3>1, <3>3, MovedStep
  <2>4. CASE q.form # "peek" /\ ~Recorded(j, q)
    <3>1. Goto(c, [at |-> "join", key |-> j, request |-> q])
      BY <1>3, <2>4 DEF Begin
    <3>2. AnswersWell(c)
      BY <1>0, <3>1, OneMoves, AtRest
    <3> QED BY <1>0, <1>2, <2>1, <3>1, <3>2, MovedStep
  <2> QED BY <2>2, <2>3, <2>4
<1>4. CASE Resume(c)
  <2>1. UNCHANGED results /\ ResultsGrow /\ call[c].at = "wait"
    BY <1>4 DEF Resume, ResultsGrow, At
  <2>2. evaluation[e].result = "value" => Backed(k, e)'
    BY <1>0, <1>1, <2>1 DEF BytesFollow, ValueBacked, Backed, ChecksumOnly
  <2>3. CASE Calls(c, "peek")
    <3>1. Goto(c, [at |-> "done", key |-> k, request |-> r,
                   outcome |-> evaluation[e].result])
      BY <1>4, <2>3 DEF Resume, Done
    <3>2. ~r.materialize
      BY <1>0, <2>1, <2>3, RequestAssumption DEF Calls
    <3>3. AnswersWell(c)
      BY <1>0, <2>1, <3>1, <3>2, OneMoves, AtDone
    <3> QED BY <1>0, <1>2, <2>1, <3>1, <3>3, MovedStep
  <2>4. CASE ~Calls(c, "peek")
    <3>1. Goto(c, [at |-> "leave", key |-> k, request |-> r, eval |-> e,
                   outcome |-> evaluation[e].result])
      BY <1>4, <2>4 DEF Resume, LeaveWith
    <3>2. AnswersWell(c)
      BY <1>0, <1>1, <2>1, <2>2, <3>1, OneMoves, AtLeave
    <3> QED BY <1>0, <1>2, <2>1, <3>1, <3>2, MovedStep
  <2> QED BY <2>3, <2>4
<1>5. CASE WaiterCancelled(c) \/ CancelCaller(c)
  <2>1. UNCHANGED results /\ ResultsGrow /\ call[c].at = "wait"
    BY <1>5 DEF WaiterCancelled, CancelCaller, ResultsGrow, At
  <2>2. Goto(c, [at |-> "leave", key |-> k, request |-> r, eval |-> e,
                 outcome |-> "cancelled"])
    BY <1>5 DEF WaiterCancelled, CancelCaller, LeaveWith
  <2>3. AnswersWell(c)
    BY <1>0, <1>1, <2>1, <2>2, OneMoves, AtLeave
  <2> QED BY <1>0, <1>2, <2>1, <2>2, <2>3, MovedStep
<1>6. CASE CloseLoop(c)
  <2>1. UNCHANGED results /\ ResultsGrow /\ Goto(c, [at |-> "idle"])
    BY <1>6 DEF CloseLoop, ResultsGrow
  <2>2. AnswersWell(c)
    BY <1>0, <2>1, OneMoves, AtRest
  <2> QED BY <1>0, <1>2, <2>1, <2>2, MovedStep
<1>7. ASSUME NEW outcome \in {"value", "error"}, EvaluateAlone(c, outcome) PROVE BytesKept
  <2>1. call[c].at = "alone"
        /\ Goto(c, [at |-> "done", key |-> k, request |-> r, outcome |-> outcome])
    BY <1>7 DEF EvaluateAlone, At, Done
  <2>2. ASSUME outcome = "value"
        PROVE  /\ ResultsGrow
               /\ ~Calls(c, "remote") => results'[k].here
               /\ Calls(c, "remote") => results'[k].written
    <3>1. RecordValue(k, ~Calls(c, "remote"), Calls(c, "remote"))
      BY <1>7, <2>2 DEF EvaluateAlone
    <3>2. Calls(c, "remote") \in BOOLEAN
      BY DEF Calls
    <3> QED BY <1>0, <2>1, <3>1, <3>2, RecordGrows
  <2>3. outcome # "value" => ResultsGrow
    BY <1>7 DEF EvaluateAlone, ResultsGrow
  <2>4. outcome = "value" => Reachable(k, r)'
    BY <2>2 DEF Reachable, Calls
  <2>5. AnswersWell(c)
    BY <1>0, <2>1, <2>4, OneMoves, AtDone
  <2> QED BY <1>0, <1>2, <2>1, <2>2, <2>3, <2>5, MovedStep
<1> QED BY <1>3, <1>4, <1>5, <1>6, <1>7

\* Joining adds a member, and a waiter.
LEMMA JoinedNothingNew ==
    ASSUME Inv, NEW c \in Caller, NEW e \in Evaluation
    PROVE  NothingNew(evaluation[e], Joined(evaluation[e], c))
<1>1. /\ evaluation[e] \in EvaluationFields
      /\ evaluation[e].linger => evaluation[e].fresh + evaluation[e].stale > 0
  BY EvaluationParts DEF Sound
<1>2. ASSUME NEW f \in EvaluationFields, f.linger => f.fresh + f.stale > 0
      PROVE  NothingNew(f, Joined(f, c))
  BY <1>2, JoinedSame DEF NothingNew
<1> QED BY <1>1, <1>2

LEMMA JoinBytes ==
    ASSUME Inv, BytesFollow, NEW c \in Caller, Join(c)
    PROVE  BytesKept
<1> PICK k, r, e : k = call[c].key /\ r = call[c].request /\ e = Found(call[c].key)
  OBVIOUS
<1>1. /\ OthersTyped /\ k \in Key /\ r \in Request[c] /\ r \in AnyRequest
      /\ e \in Evaluation /\ evaluation[e].key = k
  <2>1. OthersTyped /\ k \in Key /\ r \in Request[c]
    BY InHand DEF Inv, Join, At
  <2>2. e \in Evaluation
    BY <2>1, FoundTyped DEF Join, Joinable
  <2> QED BY <2>1, <2>2, EvaluationParts, RequestAssumption DEF Registry, KeysMatch, Found
<1>2. SetFields(e, Joined(evaluation[e], c)) /\ UNCHANGED results /\ ResultsGrow
  BY DEF Join, Enter, SetFields, ResultsGrow
<1>3. NothingNew(evaluation[e], Joined(evaluation[e], c))
  BY <1>1, JoinedNothingNew
<1>4. \A d \in Evaluation : NothingNew(evaluation[d], evaluation'[d])
  BY <1>1, <1>2, <1>3, OneNothingNew
<1>5. evaluation'[e].key = k
  BY <1>1, <1>4 DEF NothingNew, Alike
<1>6. CASE Goto(c, [at |-> "leave", key |-> k, request |-> r, eval |-> e,
                    outcome |-> "alone"])
  <2>1. AnswersWell(c)
    BY <1>1, <1>5, <1>6, OneMoves, AtLeave
  <2> QED BY <1>2, <1>4, <1>6, <2>1, MovedStep
<1>7. CASE Goto(c, [at |-> "wait", key |-> k, request |-> r, eval |-> e])
  <2>1. AnswersWell(c)
    BY <1>1, <1>5, <1>7, OneMoves, AtWait
  <2> QED BY <1>2, <1>4, <1>7, <2>1, MovedStep
<1> QED BY <1>6, <1>7 DEF Join

\* A new evaluation has not been dispatched.
LEMMA CreateBytes ==
    ASSUME Inv, BytesFollow, NEW c \in Caller, Create(c)
    PROVE  BytesKept
<1> PICK k, r : k = call[c].key /\ r = call[c].request
  OBVIOUS
<1>1. /\ OthersTyped /\ k \in Key /\ r \in Request[c] /\ r \in AnyRequest
      /\ call[c].at = "join" /\ call[c] \in Call
  BY InHand, RequestAssumption DEF Inv, Create, At
<1> DEFINE g == NewEvaluation(c)
<1>2. PICK e \in Evaluation :
        /\ Unused(e)
        /\ Enter(c, e, g)
        /\ Goto(c, [at |-> IF Async(c) THEN "wait" ELSE "own", key |-> k,
                    request |-> r, eval |-> e])
  BY DEF Create
<1>3. /\ g.key = k /\ g.result = "pending" /\ g.dispatched = "no"
      /\ g.task = IF Async(c) THEN "created" ELSE "none"
      /\ g.remote = (r.form = "remote") /\ g.materialize = r.materialize
  BY DEF NewEvaluation
<1>4. SetFields(e, g) /\ UNCHANGED results /\ ResultsGrow
  BY <1>2 DEF Enter, SetFields, ResultsGrow
<1> HIDE DEF g
<1>5. evaluation'[e] = g /\ \A d \in Evaluation \ {e} : evaluation'[d] = evaluation[d]
  BY <1>4, OneChanges
<1>6. Async(c) => r.form \in {"local", "remote"}
  BY DEF Async, Calls
<1>7. ValueBacked(e)'
  BY <1>1, <1>3, <1>5, <1>6 DEF ValueBacked
<1>8. \A d \in Evaluation \ {e} : ValueBacked(d)'
  BY <1>4, <1>5 DEF BytesFollow, ValueBacked, Backed, ChecksumOnly
<1>9. \A d \in Evaluation : ~Unused(d) => CarriesOn(evaluation[d], evaluation'[d])
  BY <1>2, <1>5 DEF CarriesOn
<1>10. call'[c] = [at |-> IF Async(c) THEN "wait" ELSE "own", key |-> k,
                   request |-> r, eval |-> e]
       /\ \A d \in Caller \ {c} : call'[d] = call[d]
  BY <1>1, <1>2, OneMoves
<1>11. AnswersWell(c)
  BY <1>1, <1>3, <1>5, <1>10 DEF AnswersWell, AnswerBacked, Answered, CallMatches, At
<1> QED BY <1>4, <1>7, <1>8, <1>9, <1>10, <1>11, BytesStep

\* A member goes.
LEMMA SoftcancelBytes ==
    ASSUME Inv, NEW k \in Key, NEW m \in Member, NEW c, Softcancel(k, m, c)
    PROVE  \A d \in Evaluation : NothingNew(evaluation[d], evaluation'[d])
<1> PICK e, f : e = active[k] /\ f = WithoutMember(evaluation[e], m)
  OBVIOUS
<1>1. CASE ~Leaves(k, m)
  BY <1>1 DEF Softcancel, NothingNew, Alike
<1>2. CASE Leaves(k, m)
  <2>1. e \in Evaluation /\ evaluation[e] \in EvaluationFields
    BY <1>2, EvaluationParts DEF Leaves, OthersTyped
  <2>2. NothingNew(evaluation[e], f) /\ f \in EvaluationFields
    BY <2>1, WithoutMemberSame, WithoutMemberFields DEF NothingNew
  <2>3. NothingNew(evaluation[e], MoveToLinger(f))
    BY <2>2, MoveToLingerSame DEF NothingNew, SameWork, Alike
  <2>4. SetFields(e, f) \/ SetFields(e, MoveToLinger(f))
    BY <1>2 DEF Softcancel
  <2> QED BY <2>1, <2>2, <2>3, <2>4, OneNothingNew
<1> QED BY <1>1, <1>2

\* A caller that leaves goes on alone if it lacks the bytes.
LEMMA LeaveBytes ==
    ASSUME Inv, BytesFollow, NEW c \in Caller, Leave(c)
    PROVE  BytesKept
<1> PICK k, r, e, outcome : k = call[c].key /\ r = call[c].request /\ e = call[c].eval
                            /\ outcome = call[c].outcome
  OBVIOUS
<1>1. /\ OthersTyped /\ k \in Key /\ r \in Request[c] /\ r \in AnyRequest
      /\ e \in Evaluation /\ AnswerBacked(c) /\ call[c] \in Call /\ call[c].at = "leave"
  BY InHand, RequestAssumption DEF Inv, Leave, At
<1>2. UNCHANGED results /\ ResultsGrow
  BY DEF Leave, ResultsGrow
<1>3. \A d \in Evaluation : NothingNew(evaluation[d], evaluation'[d])
  BY <1>1, SoftcancelBytes DEF Leave, Member
<1>4. CASE outcome = "alone" \/ BytesMissing(c)
  <2>1. Goto(c, [at |-> "alone", key |-> k, request |-> r])
    BY <1>4 DEF Leave
  <2>2. AnswersWell(c)
    BY <1>1, <2>1, OneMoves, AtRest
  <2> QED BY <1>2, <1>3, <2>1, <2>2, MovedStep
<1>5. CASE ~(outcome = "alone" \/ BytesMissing(c))
  <2>1. Goto(c, [at |-> "done", key |-> k, request |-> r, outcome |-> outcome])
    BY <1>5 DEF Leave, Done
  <2>2. ASSUME outcome = "value", r.materialize
        PROVE  Reachable(k, r) \/ JoinedChecksumOnly(c)
    <3>1. Reachable(k, r) \/ (r.form = "remote" /\ evaluation[e].dispatched # "scratch")
      BY <1>5, <2>2 DEF BytesMissing
    <3>2. Backed(k, e)
      BY <1>1, <2>2 DEF AnswerBacked, At
    <3>3. r.form = "remote" => Calls(c, "remote")
      BY <1>1 DEF Call, Calls
    <3> QED BY <1>1, <3>1, <3>2, <3>3 DEF Backed, Reachable, JoinedChecksumOnly, At
  <2>3. outcome = "value" /\ r.materialize => Reachable(k, r)' \/ JoinedChecksumOnly(c)
    BY <1>2, <2>2 DEF Reachable
  <2>4. AnswersWell(c)
    BY <1>1, <2>1, <2>3, OneMoves, AtDone
  <2> QED BY <1>2, <1>3, <2>1, <2>4, MovedStep
<1> QED BY <1>4, <1>5

\* A synchronous caller publishes what it has here.
LEMMA SyncPublishBytes ==
    ASSUME Inv, BytesFollow, NEW c \in Caller, NEW outcome \in {"value", "error"},
           SyncPublish(c, outcome)
    PROVE  BytesKept
<1> PICK k, r, e : k = call[c].key /\ r = call[c].request /\ e = call[c].eval
  OBVIOUS
<1> DEFINE g == [evaluation[e] EXCEPT !.result = outcome]
<1>1. /\ OthersTyped /\ k \in Key /\ r \in Request[c]
      /\ e \in Evaluation /\ evaluation[e].key = k
      /\ evaluation[e] \in EvaluationFields /\ evaluation[e].task \in {"none", "done"}
  BY InHand, EvaluationParts DEF Inv, SyncPublish, At, CallMatches
<1>2. SetFields(e, g)
      /\ Goto(c, [at |-> "withdraw", key |-> k, request |-> r, eval |-> e])
  BY DEF SyncPublish
<1>3. Alike(evaluation[e], g) /\ g.result = outcome /\ g.task = evaluation[e].task
  BY <1>1 DEF EvaluationFields, Alike
<1> HIDE DEF g
<1>4. evaluation'[e] = g /\ \A d \in Evaluation \ {e} : evaluation'[d] = evaluation[d]
  BY <1>1, <1>2, OneChanges
<1>5. ResultsGrow /\ (outcome = "value" => results'[k].here)
  BY <1>1, RecordGrows DEF SyncPublish, ResultsGrow
<1>6. ValueBacked(e)'
  BY <1>1, <1>3, <1>4, <1>5 DEF ValueBacked, Backed, Alike
<1>7. \A d \in Evaluation \ {e} : NothingNew(evaluation[d], evaluation'[d])
  BY <1>4 DEF NothingNew, Alike
<1>8. \A d \in Evaluation : ValueBacked(d)'
  BY <1>5, <1>6, <1>7, NothingNewBacked, EvaluationParts DEF BytesFollow
<1>9. CarriesOn(evaluation[e], evaluation'[e])
  BY <1>1, <1>3, <1>4, <1>5 DEF CarriesOn, Alike
<1>10. \A d \in Evaluation : CarriesOn(evaluation[d], evaluation'[d])
  BY <1>7, <1>9, NothingNewCarriesOn
<1>11. call'[c] = [at |-> "withdraw", key |-> k, request |-> r, eval |-> e]
       /\ \A d \in Caller \ {c} : call'[d] = call[d]
  BY <1>1, <1>2, OneMoves
<1>12. AnswersWell(c)
  BY <1>1, <1>3, <1>4, <1>5, <1>11 DEF AnswersWell, AnswerBacked, Answered, CallMatches, At, Alike
<1> QED BY <1>5, <1>8, <1>10, <1>11, <1>12, BytesStep

LEMMA SyncWithdrawBytes ==
    ASSUME Inv, BytesFollow, NEW c \in Caller, SyncWithdraw(c)
    PROVE  BytesKept
<1> PICK k, r, e, outcome : k = call[c].key /\ r = call[c].request /\ e = call[c].eval
                            /\ outcome = evaluation[e].result
  OBVIOUS
<1>1. /\ OthersTyped /\ k \in Key /\ r \in Request[c] /\ e \in Evaluation
      /\ evaluation[e] \in EvaluationFields
      /\ outcome = "value" => results[k].here
  BY InHand, EvaluationParts DEF Inv, SyncWithdraw, At, AnswerBacked
<1>2. /\ SetFields(e, Discarded(evaluation[e])) /\ UNCHANGED results /\ ResultsGrow
      /\ Goto(c, [at |-> "done", key |-> k, request |-> r, outcome |-> outcome])
  BY DEF SyncWithdraw, Done, ResultsGrow
<1>3. NothingNew(evaluation[e], Discarded(evaluation[e]))
  BY <1>1, DiscardedSame DEF NothingNew
<1>4. \A d \in Evaluation : NothingNew(evaluation[d], evaluation'[d])
  BY <1>1, <1>2, <1>3, OneNothingNew
<1>5. outcome = "value" => Reachable(k, r)'
  BY <1>1, <1>2 DEF Reachable
<1>6. AnswersWell(c)
  BY <1>1, <1>2, <1>5, OneMoves, AtDone
<1> QED BY <1>2, <1>4, <1>6, MovedStep

LEMMA ReturnBytes ==
    ASSUME Inv, BytesFollow, NEW c \in Caller, Return(c)
    PROVE  BytesKept
<1>1. UNCHANGED results /\ ResultsGrow /\ OthersTyped
  BY DEF Return, ResultsGrow, Inv
<1>2. \A d \in Evaluation : NothingNew(evaluation[d], evaluation'[d])
  <2> SUFFICES ASSUME NEW d \in Evaluation PROVE NothingNew(evaluation[d], evaluation'[d])
    OBVIOUS
  <2>1. evaluation'[d] \in {evaluation[d], TaskCancelled(evaluation[d])}
    BY DEF Return
  <2>2. NothingNew(evaluation[d], TaskCancelled(evaluation[d]))
    BY EvaluationParts, TaskCancelledSame DEF NothingNew
  <2> QED BY <2>1, <2>2 DEF NothingNew, Alike
<1>3. PICK x : Goto(c, x) /\ x.at \in {"idle", "ended"}
  BY DEF Return
<1>4. AnswersWell(c)
  BY <1>1, <1>3, OneMoves, AtRest
<1> QED BY <1>1, <1>2, <1>3, <1>4, MovedStep

\* Steps of tasks and callbacks that bring no value.
LEMMA TaskBytes ==
    ASSUME Inv, BytesFollow, NEW e \in Evaluation,
           Cancelled(e) \/ Withdraw(e) \/ Discard(e) \/ ScheduleStep(e) \/ Expire(e)
    PROVE  BytesKept
<1> PICK f : f = evaluation[e]
  OBVIOUS
<1>1. f \in EvaluationFields
  BY EvaluationParts
<1>2. UNCHANGED <<results, call>> /\ ResultsGrow
  BY DEF Cancelled, Withdraw, Discard, ScheduleStep, Schedule, Arm, Expire, ResultsGrow
<1>3. ASSUME NEW g, SetFields(e, g), NothingNew(f, g) PROVE BytesKept
  BY <1>2, <1>3, OneNothingNew, NothingNewStep
<1>4. CASE Cancelled(e)
  <2> DEFINE g == [f EXCEPT !.task = "published", !.result = "cancelled"]
  <2>1. NothingNew(f, g)
    BY <1>1, <1>4 DEF Cancelled, EvaluationFields, NothingNew, Alike
  <2> QED BY <1>3, <1>4, <2>1 DEF Cancelled
<1>5. CASE Withdraw(e)
  <2> DEFINE g == [f EXCEPT !.task = "withdrawn"]
  <2>1. NothingNew(f, g)
    BY <1>1, <1>5 DEF Withdraw, EvaluationFields, NothingNew, Alike
  <2> QED BY <1>3, <1>5, <2>1 DEF Withdraw
<1>6. CASE Discard(e)
  <2>1. NothingNew(f, Discarded(f))
    BY <1>1, DiscardedSame DEF NothingNew
  <2> QED BY <1>3, <1>6, <2>1 DEF Discard
<1>7. CASE Schedule(e)
  <2> DEFINE g == [f EXCEPT !.schedules = @ - 1, !.arming = f.members = {} /\ Pending(e)]
  <2>1. NothingNew(f, g)
    BY <1>1 DEF EvaluationFields, NothingNew, Alike
  <2> QED BY <1>3, <1>7, <2>1 DEF Schedule
<1>8. CASE Arm(e)
  <2> DEFINE g == [f EXCEPT !.arming = FALSE, !.fresh = @ + 1, !.linger = TRUE]
  <2>1. NothingNew(f, g)
    BY <1>1 DEF EvaluationFields, NothingNew, Alike
  <2> QED BY <1>3, <1>8, <2>1 DEF Arm
<1>9. CASE Expire(e)
  <2>1. NothingNew(f, Fired(f)) /\ Fired(f) \in EvaluationFields
    BY <1>1, <1>9, EvaluationParts, FiredSame, FiredFields, SameIsNothingNew DEF Expire, Timers
  <2>2. NothingNew(f, TaskCancelled(Fired(f)))
    <3> PICK h : h = Fired(f)
      OBVIOUS
    <3> QED BY <2>1, TaskCancelledSame DEF NothingNew, Alike
  <2>3. SetFields(e, Fired(f)) \/ SetFields(e, TaskCancelled(Fired(f)))
    BY <1>9 DEF Expire
  <2> QED BY <1>3, <2>1, <2>2, <2>3
<1> QED BY <1>4, <1>5, <1>6, <1>7, <1>8, <1>9 DEF ScheduleStep

\* A task that starts decides whether the bytes will be written, or finds them.
LEMMA StartBytes ==
    ASSUME Inv, BytesFollow, NEW e \in Evaluation, Start(e)
    PROVE  BytesKept
<1> PICK f : f = evaluation[e]
  OBVIOUS
<1>1. /\ f \in EvaluationFields /\ f.key \in Key /\ f.task = "created"
      /\ f.dispatched = "no"
      /\ f.result = "value" => Backed(f.key, e)
  BY EvaluationParts DEF Start, BytesFollow, ValueBacked
<1>2. UNCHANGED <<results, call>> /\ ResultsGrow
  BY DEF Start, ResultsGrow
<1>3. PICK g :
        /\ SetFields(e, g)
        /\ g.key = f.key /\ g.remote = f.remote /\ g.materialize = f.materialize
        /\ \/ /\ f.remote /\ g.task = "running" /\ g.result = f.result
              /\ g.dispatched \in {"scratch", "write"}
           \/ /\ ~f.remote /\ g.task = "running" /\ g.result = f.result
              /\ g.dispatched = f.dispatched
           \/ /\ ~f.remote /\ g.task = "published"
              /\ ~f.materialize \/ results[f.key].here
  <2>1. CASE f.remote
    <3> DEFINE g == [f EXCEPT !.task = "running",
                              !.dispatched = IF f.scratch THEN "scratch" ELSE "write"]
    <3>1. SetFields(e, g)
      BY <2>1 DEF Start
    <3>2. /\ g.key = f.key /\ g.remote = f.remote /\ g.materialize = f.materialize
          /\ g.task = "running" /\ g.result = f.result
          /\ g.dispatched \in {"scratch", "write"}
      BY <1>1 DEF EvaluationFields
    <3> HIDE DEF g
    <3> QED BY <2>1, <3>1, <3>2
  <2>2. CASE ~f.remote /\ results[f.key].cached /\ (~f.materialize \/ results[f.key].here)
    <3> DEFINE g == [f EXCEPT !.task = "published", !.result = "value"]
    <3>1. SetFields(e, g)
      BY <2>2 DEF Start
    <3>2. /\ g.key = f.key /\ g.remote = f.remote /\ g.materialize = f.materialize
          /\ g.task = "published"
      BY <1>1 DEF EvaluationFields
    <3> HIDE DEF g
    <3> QED BY <2>2, <3>1, <3>2
  <2>3. CASE ~f.remote /\ ~(results[f.key].cached /\ (~f.materialize \/ results[f.key].here))
    <3> DEFINE g == [f EXCEPT !.task = "running"]
    <3>1. SetFields(e, g)
      BY <1>1, <2>3 DEF Start
    <3>2. /\ g.key = f.key /\ g.remote = f.remote /\ g.materialize = f.materialize
          /\ g.task = "running" /\ g.result = f.result /\ g.dispatched = f.dispatched
      BY <1>1 DEF EvaluationFields
    <3> HIDE DEF g
    <3> QED BY <2>3, <3>1, <3>2
  <2> QED BY <2>1, <2>2, <2>3
<1>4. evaluation'[e] = g /\ \A d \in Evaluation \ {e} : evaluation'[d] = evaluation[d]
  BY <1>3, OneChanges
<1>5. ValueBacked(e)'
  BY <1>1, <1>2, <1>3, <1>4 DEF ValueBacked, Backed, ChecksumOnly
<1>6. \A d \in Evaluation \ {e} : ValueBacked(d)'
  BY <1>2, <1>4 DEF BytesFollow, ValueBacked, Backed, ChecksumOnly
<1>7. \A d \in Evaluation : CarriesOn(evaluation[d], evaluation'[d])
  BY <1>1, <1>3, <1>4 DEF CarriesOn
<1> QED BY <1>2, <1>5, <1>6, <1>7, BytesStep

\* The value of a task is here, or was written, or was dispatched as scratch.
LEMMA FinishBytes ==
    ASSUME Inv, BytesFollow, NEW e \in Evaluation, NEW outcome \in {"value", "error"},
           Finish(e, outcome)
    PROVE  BytesKept
<1> PICK f : f = evaluation[e]
  OBVIOUS
<1>1. /\ f \in EvaluationFields /\ f.key \in Key /\ f.task = "running"
      /\ f.remote => f.dispatched # "no"
      /\ OthersTyped
  BY EvaluationParts DEF Finish, BytesFollow, ValueBacked
<1> DEFINE g == [f EXCEPT !.task = "published", !.result = outcome]
<1>2. SetFields(e, g) /\ UNCHANGED call
  BY DEF Finish
<1>3. Alike(f, g) /\ g.task = "published" /\ g.result = outcome
  BY <1>1 DEF EvaluationFields, Alike
<1> HIDE DEF g
<1>4. evaluation'[e] = g /\ \A d \in Evaluation \ {e} : evaluation'[d] = evaluation[d]
  BY <1>2, OneChanges
<1>5. ASSUME outcome = "value"
      PROVE  /\ ResultsGrow
             /\ ~f.remote => results'[f.key].here
             /\ f.dispatched = "write" => results'[f.key].written
  <2>1. RecordValue(f.key, ~f.remote, f.dispatched = "write")
    BY <1>5 DEF Finish
  <2> QED BY <1>1, <2>1, RecordGrows
<1>6. ResultsGrow
  BY <1>5 DEF Finish, ResultsGrow
<1>7. f.dispatched \in {"no", "scratch", "write"}
  BY <1>1 DEF EvaluationFields
<1>8. ValueBacked(e)'
  BY <1>1, <1>3, <1>4, <1>5, <1>7 DEF ValueBacked, Backed, Alike
<1>9. \A d \in Evaluation \ {e} : NothingNew(evaluation[d], evaluation'[d])
  BY <1>4 DEF NothingNew, Alike
<1>10. \A d \in Evaluation : ValueBacked(d)'
  BY <1>6, <1>8, <1>9, NothingNewBacked, EvaluationParts DEF BytesFollow
<1>11. CarriesOn(evaluation[e], evaluation'[e])
  BY <1>1, <1>3, <1>4 DEF CarriesOn, Alike
<1>12. \A d \in Evaluation : CarriesOn(evaluation[d], evaluation'[d])
  BY <1>9, <1>11, NothingNewCarriesOn
<1> QED BY <1>2, <1>6, <1>10, <1>12, BytesStep

\* Nothing is computed and nobody has asked.
LEMMA InitBytes ==
    ASSUME Init
    PROVE  BytesFollow
BY DEF Init, BytesFollow, ValueBacked, AnswerBacked, CallMatches, At

LEMMA NextBytes ==
    ASSUME Inv, BytesFollow, Next
    PROVE  BytesKept
<1>1. ASSUME NEW c \in Caller, Ask(c) \/ Proceed(c) \/ CancelCaller(c)
      PROVE  BytesKept
  BY <1>1, MovesBytes, JoinBytes, CreateBytes, LeaveBytes, SyncPublishBytes,
     SyncWithdrawBytes, ReturnBytes DEF Ask, Proceed
<1>2. ASSUME NEW k \in Key, NEW m \in Member, SoftcancelExpression(k, m)
      PROVE  BytesKept
  <2>1. UNCHANGED <<results, call>> /\ ResultsGrow
    BY <1>2 DEF SoftcancelExpression, ResultsGrow
  <2>2. \A d \in Evaluation : NothingNew(evaluation[d], evaluation'[d])
    BY <1>2, SoftcancelBytes DEF SoftcancelExpression
  <2> QED BY <2>1, <2>2, NothingNewStep
<1>3. ASSUME NEW e \in Evaluation,
             \/ TaskStep(e) \/ ScheduleStep(e) \/ Expire(e)
             \/ \E outcome \in {"value", "error"} : Finish(e, outcome)
      PROVE  BytesKept
  BY <1>3, TaskBytes, StartBytes, FinishBytes DEF TaskStep
<1> QED BY <1>1, <1>2, <1>3 DEF Next

LEMMA IdleBytes ==
    ASSUME BytesFollow, UNCHANGED vars
    PROVE  BytesFollow'
BY DEF vars, registry, BytesFollow, ValueBacked, AnswerBacked, CallMatches, Backed, ChecksumOnly, At

\* Whoever asks for the bytes and is answered with a value finds them then, in
\* this process or, for a remote caller, on the hashserver, whatever evaluation
\* it joined and however that was dispatched.  Only a remote caller that joined
\* a local evaluation of the checksum alone may not (expression.py:599).
THEOREM BytesAnswered == Spec => MaterializedAnswered
<1>1. Init => BytesFollow
  BY InitBytes
<1>2. IndInv /\ BytesFollow /\ [Next]_vars => BytesFollow'
  BY NextBytes, IdleBytes, Parts DEF Inv, BytesKept, BytesFollow, AnswersWell
<1>3. IndInv /\ BytesFollow /\ [Next]_vars =>
        [\A c \in Caller :
            ~At(c, "done") /\ Answered(c)' => HasBytes(c)' \/ JoinedChecksumOnly(c)]_vars
  BY NextBytes, Parts DEF Inv, BytesKept, AnswersWell
<1> QED BY <1>1, <1>2, <1>3, SpecIndInv, PTL DEF Spec, MaterializedAnswered

-----------------------------------------------------------------------------
(* Only who leaves is cancelled *)

\* How an evaluation may change under a caller c that refers to it: a result
\* is never taken back, a cancellation only comes when nobody is a member or the
\* loop ends, and the membership of c ends when c is asked to leave.
KeepsFor(f, g, c) ==
    /\ g.key = f.key /\ g.loop = f.loop
    /\ f.task \in {"none", "done"} =>
        /\ g.task \in {"none", "done"}
        /\ f.result \in {"value", "error"} => g.result \in {"value", "error"}
    /\ g.result = "pending" =>
        /\ f.result = "pending"
        /\ At(c, "wait") /\ ~Calls(c, "peek") /\ MemberOf[c] \in f.members =>
            MemberOf[c] \in g.members \/ c \in left' \/ ~Lone(c)
    /\ g.result = "cancelled" =>
        f.result = "cancelled" \/ f.loop \in Brief \/ (f.result = "pending" /\ f.members = {})

\* What may happen to the waiter of c meanwhile.
WaiterKept(c) ==
    /\ c \in cancels' => c \in cancels \/ /\ LoopOf[c] # Nobody /\ At(c, "wait")
                                          /\ c \in left' \/ ~Lone(c)
    /\ c \in left => c \in left'

LEMMA StaysUndisturbed ==
    ASSUME OthersTyped, NEW c \in Caller, CallUndisturbed(c), call'[c] = call[c],
           WaiterKept(c),
           \A e \in Evaluation :
                "eval" \in DOMAIN call[c] /\ call[c].eval = e =>
                    KeepsFor(evaluation[e], evaluation'[e], c)
    PROVE  CallUndisturbed(c)'
<1>1. call[c] \in Call
  BY DEF OthersTyped
<1>2. ASSUME call[c].at \in {"wait", "own", "withdraw", "leave"}
      PROVE  KeepsFor(evaluation[call[c].eval], evaluation'[call[c].eval], c)
  BY <1>1, <1>2 DEF Call
<1>3. CallMatches(c)'
  BY <1>2 DEF CallUndisturbed, CallMatches, KeepsFor
<1>4. /\ c \in cancels' => LoopOf[c] # Nobody /\ call'[c].at \in {"wait", "leave"}
      /\ Lone(c) /\ c \notin left' => c \notin cancels'
  BY DEF CallUndisturbed, WaiterKept, At
<1>5. (At(c, "withdraw") => evaluation[call[c].eval].result \in {"value", "error"})'
  BY <1>2 DEF CallUndisturbed, CallMatches, At, KeepsFor
<1>6. (Lone(c) /\ c \notin left /\ At(c, "wait") /\ ~Calls(c, "peek") =>
        /\ Pending(call[c].eval) => MemberOf[c] \in evaluation[call[c].eval].members
        /\ evaluation[call[c].eval].result # "cancelled" \/ OnBriefLoop(c))'
  BY <1>2 DEF CallUndisturbed, WaiterKept, At, Calls, Pending, KeepsFor, Lone, OnBriefLoop
<1> QED BY <1>3, <1>4, <1>5, <1>6 DEF CallUndisturbed, Lone

\* A step disturbs nobody if it disturbs no evaluation and no call.
LEMMA UndisturbedStep ==
    ASSUME Inv, Undisturbed,
           \A e \in Evaluation : WorkUndisturbed(e)',
           \A c \in Caller :
              \/ CallUndisturbed(c)'
              \/ /\ call'[c] = call[c] /\ WaiterKept(c)
                 /\ \A e \in Evaluation : "eval" \in DOMAIN call[c] /\ call[c].eval = e =>
                        KeepsFor(evaluation[e], evaluation'[e], c)
    PROVE  Undisturbed'
BY StaysUndisturbed DEF Inv, Undisturbed

\* What does not enter the registry.
NotEntered(e) ==
    e \in {active'[evaluation[e].key], lingering'[evaluation[e].key]} =>
        e \in {active[evaluation[e].key], lingering[evaluation[e].key]}

LEMMA SameWorkUndisturbed ==
    ASSUME NEW e \in Evaluation, WorkUndisturbed(e), NotEntered(e),
           SameWork(evaluation[e], evaluation'[e])
    PROVE  WorkUndisturbed(e)' /\ \A c \in Caller : KeepsFor(evaluation[e], evaluation'[e], c)
<1>1. WorkUndisturbed(e)'
  BY DEF WorkUndisturbed, Doomed, Pending, NotEntered, SameWork, Alike
<1>2. \A c \in Caller : KeepsFor(evaluation[e], evaluation'[e], c)
  BY DEF KeepsFor, SameWork, Alike
<1> QED BY <1>1, <1>2

\* Calls at their various places.
LEMMA RestUndisturbed ==
    ASSUME NEW c \in Caller, NEW x, call'[c] = x, c \notin cancels',
           \/ x.at \in {"idle", "ended"}
           \/ x.at \in {"join", "alone"} /\ x.request \in Request[c]
    PROVE  CallUndisturbed(c)'
BY DEF CallUndisturbed, CallMatches, At

LEMMA WaitUndisturbed ==
    ASSUME NEW c \in Caller, NEW k \in Key, NEW r \in Request[c], NEW e \in Evaluation,
           call'[c] = [at |-> "wait", key |-> k, request |-> r, eval |-> e],
           evaluation'[e].key = k, c \notin cancels',
           r.form # "peek" => /\ MemberOf[c] \in evaluation'[e].members
                              /\ evaluation'[e].result # "cancelled"
    PROVE  CallUndisturbed(c)'
BY DEF CallUndisturbed, CallMatches, At, Calls

LEMMA LeaveUndisturbed ==
    ASSUME NEW c \in Caller, NEW k \in Key, NEW r \in Request[c], NEW e \in Evaluation,
           NEW outcome,
           call'[c] = [at |-> "leave", key |-> k, request |-> r, eval |-> e,
                       outcome |-> outcome],
           evaluation'[e].key = k,
           c \in cancels' => LoopOf[c] # Nobody /\ (Lone(c) => c \in left')
    PROVE  CallUndisturbed(c)'
BY DEF CallUndisturbed, CallMatches, At

LEMMA DoneUndisturbed ==
    ASSUME NEW c \in Caller, NEW k \in Key, NEW r \in Request[c], NEW outcome,
           call'[c] = [at |-> "done", key |-> k, request |-> r, outcome |-> outcome],
           c \notin cancels'
    PROVE  CallUndisturbed(c)'
BY DEF CallUndisturbed, CallMatches, At, Calls

\* The rest stays.
LEMMA MovedUndisturbed ==
    ASSUME Inv, Undisturbed, NEW c \in Caller, NEW x, Goto(c, x), CallUndisturbed(c)',
           \A d \in Caller \ {c} : WaiterKept(d),
           \A e \in Evaluation : SameWork(evaluation[e], evaluation'[e]) /\ NotEntered(e)
    PROVE  Undisturbed'
<1>1. \A d \in Caller \ {c} : call'[d] = call[d]
  BY OneMoves DEF Inv
<1>2. \A e \in Evaluation : /\ WorkUndisturbed(e)'
                            /\ \A d \in Caller : KeepsFor(evaluation[e], evaluation'[e], d)
  BY SameWorkUndisturbed DEF Undisturbed
<1> QED BY <1>1, <1>2, UndisturbedStep

\* What a caller has in hand.
LEMMA InHandUndisturbed ==
    ASSUME Inv, Undisturbed, NEW c \in Caller
    PROVE  /\ call[c] \in Call /\ CallMatches(c) /\ CallUndisturbed(c)
           /\ call[c].at \notin {"idle", "ended"} =>
                call[c].key \in Key /\ call[c].request \in Request[c]
           /\ call[c].at \in {"wait", "own", "withdraw", "leave"} =>
                /\ call[c].eval \in Evaluation
                /\ evaluation[call[c].eval].key = call[c].key
           /\ c \in cancels => /\ LoopOf[c] # Nobody /\ call[c].at \in {"wait", "leave"}
                               /\ Lone(c) => c \in left
BY CallFields DEF Inv, OthersTyped, Undisturbed, CallUndisturbed, CallMatches

\* Evaluations and registry stay.
LEMMA MovesUndisturbed ==
    ASSUME Inv, Undisturbed, NEW c \in Caller,
           \/ \E k \in Key, r \in Request[c] : Begin(c, k, r)
           \/ Resume(c) \/ WaiterCancelled(c) \/ CancelCaller(c) \/ CloseLoop(c)
           \/ \E outcome \in {"value", "error"} : EvaluateAlone(c, outcome)
    PROVE  Undisturbed'
<1> PICK k, r, e : k = call[c].key /\ r = call[c].request /\ e = call[c].eval
  OBVIOUS
<1>0. /\ OthersTyped /\ call[c] \in Call /\ CallUndisturbed(c)
      /\ call[c].at \notin {"idle", "ended"} => k \in Key /\ r \in Request[c]
      /\ call[c].at \in {"wait", "own", "withdraw", "leave"} =>
            e \in Evaluation /\ evaluation[e].key = k
      /\ c \in cancels => /\ LoopOf[c] # Nobody /\ call[c].at \in {"wait", "leave"}
                          /\ Lone(c) => c \in left
  BY InHandUndisturbed DEF Inv
<1>1. /\ UNCHANGED <<evaluation, registry, cancels>>
      /\ left' = left \/ (left' = left \union {c})
  BY DEF Begin, Resume, WaiterCancelled, CancelCaller, CloseLoop, EvaluateAlone
<1>2. \A d \in Evaluation : SameWork(evaluation[d], evaluation'[d]) /\ NotEntered(d)
  BY <1>1 DEF SameWork, Alike, NotEntered, registry
<1>3. \A d \in Caller : WaiterKept(d)
  BY <1>1 DEF WaiterKept
<1>4. ASSUME NEW x, Goto(c, x), CallUndisturbed(c)'
      PROVE  Undisturbed'
  BY <1>2, <1>3, <1>4, MovedUndisturbed
<1>5. ASSUME NEW j \in Key, NEW q \in Request[c], Begin(c, j, q) PROVE Undisturbed'
  <2>1. c \notin cancels'
    BY <1>0, <1>1, <1>5 DEF Begin, At
  <2>2. CASE q.form = "peek"
    <3>1. Found(j) \in Evaluation /\ evaluation'[Found(j)].key = j
      BY <1>0, <1>1, <1>5, <2>2, FoundTyped, EvaluationParts DEF Begin, Registry, KeysMatch, Found
    <3>2. Goto(c, [at |-> "wait", key |-> j, request |-> q, eval |-> Found(j)])
      BY <1>5, <2>2 DEF Begin
    <3>3. CallUndisturbed(c)'
      BY <1>0, <2>1, <2>2, <3>1, <3>2, OneMoves, WaitUndisturbed
    <3> QED BY <1>4, <3>2, <3>3
  <2>3. CASE q.form # "peek" /\ Recorded(j, q)
    <3>1. Goto(c, [at |-> "done", key |-> j, request |-> q, outcome |-> "value"])
      BY <1>5, <2>3 DEF Begin
    <3>2. CallUndisturbed(c)'
      BY <1>0, <2>1, <3>1, OneMoves, DoneUndisturbed
    <3> QED BY <1>4, <3>1, <3>2
  <2>4. CASE q.form # "peek" /\ ~Recorded(j, q)
    <3>1. Goto(c, [at |-> "join", key |-> j, request |-> q])
      BY <1>5, <2>4 DEF Begin
    <3>2. CallUndisturbed(c)'
      BY <1>0, <2>1, <3>1, OneMoves, RestUndisturbed
    <3> QED BY <1>4, <3>1, <3>2
  <2> QED BY <2>2, <2>3, <2>4
<1>6. CASE Resume(c)
  <2>1. UNCHANGED left /\ call[c].at = "wait" /\ evaluation[e].result # "pending"
    BY <1>6 DEF Resume, At, Pending
  <2>2. CASE Calls(c, "peek")
    <3>1. Goto(c, [at |-> "done", key |-> k, request |-> r,
                   outcome |-> evaluation[e].result])
      BY <1>6, <2>2 DEF Resume, Done
    <3>2. r.form = "peek" /\ LoopOf[c] = Nobody
      BY <1>0, <2>1, <2>2, RequestAssumption DEF Calls
    <3>3. CallUndisturbed(c)'
      BY <1>0, <1>1, <2>1, <3>1, <3>2, OneMoves, DoneUndisturbed
    <3> QED BY <1>4, <3>1, <3>3
  <2>3. CASE ~Calls(c, "peek")
    <3>1. Goto(c, [at |-> "leave", key |-> k, request |-> r, eval |-> e,
                   outcome |-> evaluation[e].result])
      BY <1>6, <2>3 DEF Resume, LeaveWith
    <3>2. CallUndisturbed(c)'
      BY <1>0, <1>1, <2>1, <3>1, OneMoves, LeaveUndisturbed
    <3> QED BY <1>4, <3>1, <3>2
  <2> QED BY <2>2, <2>3
<1>7. CASE WaiterCancelled(c) \/ CancelCaller(c)
  <2>1. call[c].at = "wait"
    BY <1>0, <1>7 DEF WaiterCancelled, CancelCaller, At
  <2>2. Goto(c, [at |-> "leave", key |-> k, request |-> r, eval |-> e,
                 outcome |-> "cancelled"])
    BY <1>7 DEF WaiterCancelled, CancelCaller, LeaveWith
  <2>3. CallUndisturbed(c)'
    BY <1>0, <1>1, <2>1, <2>2, OneMoves, LeaveUndisturbed
  <2> QED BY <1>4, <2>2, <2>3
<1>8. CASE CloseLoop(c)
  <2>1. Goto(c, [at |-> "idle"]) /\ c \notin cancels'
    BY <1>0, <1>1, <1>8 DEF CloseLoop, At
  <2>2. CallUndisturbed(c)'
    BY <1>0, <2>1, OneMoves, RestUndisturbed
  <2> QED BY <1>4, <2>1, <2>2
<1>9. ASSUME NEW outcome \in {"value", "error"}, EvaluateAlone(c, outcome) PROVE Undisturbed'
  <2>1. /\ call[c].at = "alone" /\ c \notin cancels'
        /\ Goto(c, [at |-> "done", key |-> k, request |-> r, outcome |-> outcome])
    BY <1>0, <1>1, <1>9 DEF EvaluateAlone, At, Done
  <2>2. CallUndisturbed(c)'
    BY <1>0, <2>1, OneMoves, DoneUndisturbed
  <2> QED BY <1>4, <2>1, <2>2
<1> QED BY <1>5, <1>6, <1>7, <1>8, <1>9

\* One evaluation changes.
LEMMA OneUndisturbed ==
    ASSUME Inv, Undisturbed, NEW e \in Evaluation, NEW g, SetFields(e, g),
           WorkUndisturbed(e)',
           \A d \in Evaluation \ {e} : NotEntered(d),
           \A c \in Caller :
              \/ CallUndisturbed(c)'
              \/ /\ call'[c] = call[c] /\ WaiterKept(c)
                 /\ "eval" \in DOMAIN call[c] /\ call[c].eval = e => KeepsFor(evaluation[e], g, c)
    PROVE  Undisturbed'
<1>1. evaluation'[e] = g /\ \A d \in Evaluation \ {e} : evaluation'[d] = evaluation[d]
  BY OneChanges
<1>2. \A d \in Evaluation \ {e} : SameWork(evaluation[d], evaluation'[d])
  BY <1>1 DEF SameWork, Alike
<1>3. \A d \in Evaluation \ {e} :
        WorkUndisturbed(d)' /\ \A c \in Caller : KeepsFor(evaluation[d], evaluation'[d], c)
  BY <1>2, SameWorkUndisturbed DEF Undisturbed
<1> QED BY <1>1, <1>3, UndisturbedStep

\* And nobody moves.
LEMMA TaskStepUndisturbed ==
    ASSUME Inv, Undisturbed, NEW e \in Evaluation, NEW g, SetFields(e, g),
           UNCHANGED <<call, cancels, left>>,
           WorkUndisturbed(e)',
           \A d \in Evaluation \ {e} : NotEntered(d),
           \A c \in Caller : KeepsFor(evaluation[e], g, c)
    PROVE  Undisturbed'
<1>1. \A c \in Caller : call'[c] = call[c] /\ WaiterKept(c)
  BY DEF WaiterKept
<1> QED BY <1>1, OneUndisturbed

\* A task that is joined is not being cancelled; its new waiter is the caller.
LEMMA JoinUndisturbed ==
    ASSUME Inv, Undisturbed, NEW c \in Caller, Join(c)
    PROVE  Undisturbed'
<1> PICK k, r, e, f : k = call[c].key /\ r = call[c].request /\ e = Found(call[c].key)
                      /\ f = evaluation[e]
  OBVIOUS
<1>1. /\ OthersTyped /\ k \in Key /\ r \in Request[c] /\ r \in AnyRequest
      /\ e \in Evaluation /\ f.key = k /\ e \in {active[k], lingering[k]}
      /\ c \notin cancels /\ f \in EvaluationFields /\ call[c].at = "join"
      /\ f.linger => f.fresh + f.stale > 0
  <2>1. OthersTyped /\ k \in Key /\ r \in Request[c] /\ c \notin cancels /\ call[c].at = "join"
    BY InHandUndisturbed DEF Inv, Join, At
  <2>2. e \in Evaluation /\ e \in {active[k], lingering[k]}
    BY <2>1, FoundTyped DEF Join, Joinable, Found
  <2> QED BY <2>1, <2>2, EvaluationParts, RequestAssumption DEF Registry, KeysMatch, Sound
<1>2. PICK g : g = Joined(f, c)
  OBVIOUS
<1>3. /\ SetFields(e, g) /\ UNCHANGED <<cancels, left>>
      /\ active' = [active EXCEPT ![k] = e]
      /\ lingering' = [lingering EXCEPT ![k] = IF active[k] = Nobody THEN Nobody ELSE @]
  BY <1>2 DEF Join, Enter, SetFields
<1>4. /\ g.key = k /\ g.loop = f.loop /\ g.task = f.task /\ g.result = f.result
      /\ g.members = f.members \union {MemberOf[c]}
      /\ g.waiters = IF Async(c) THEN [f.waiters EXCEPT ![MemberOf[c]] = c] ELSE f.waiters
  BY <1>1, <1>2, JoinedSame DEF Alike
<1>5. f.result = "pending" /\ WorkUndisturbed(e) /\ (~Doomed(e) \/ f.loop \in Brief)
  BY <1>1 DEF Join, Joinable, Pending, Undisturbed, WorkUndisturbed
<1>6. evaluation'[e] = g
  BY <1>1, <1>3, OneChanges
<1>7. \A m \in Member : g.waiters[m] # Nobody =>
        MemberOf[g.waiters[m]] = m /\ LoopOf[g.waiters[m]] # Nobody
  <2>1. Async(c) => LoopOf[c] # Nobody
    BY <1>1, RequestAssumption DEF Async, Calls
  <2>2. f.waiters \in [Member -> Caller \union {Nobody}] /\ MemberOf[c] \in Member
    BY <1>1, FieldsOf DEF Member
  <2> QED BY <1>4, <1>5, <2>1, <2>2 DEF WorkUndisturbed
<1>8. WorkUndisturbed(e)'
  BY <1>4, <1>5, <1>6, <1>7, Zenon DEF WorkUndisturbed, Doomed, Pending
<1>9. \A d \in Evaluation \ {e} : NotEntered(d)
  BY <1>1, <1>3, NobodyAssumption, EvaluationParts DEF NotEntered, OthersTyped
<1>10. \A d \in Caller : KeepsFor(f, g, d) /\ WaiterKept(d)
  BY <1>1, <1>3, <1>4, <1>5 DEF KeepsFor, WaiterKept
<1>11. ASSUME NEW x, Goto(c, x), CallUndisturbed(c)' PROVE Undisturbed'
  <2>1. \A d \in Caller \ {c} : call'[d] = call[d]
    BY <1>1, <1>11, OneMoves
  <2> QED BY <1>1, <1>3, <1>8, <1>9, <1>10, <1>11, <2>1, OneUndisturbed
<1>12. CASE Goto(c, [at |-> "leave", key |-> k, request |-> r, eval |-> e,
                    outcome |-> "alone"])
  <2>1. CallUndisturbed(c)'
    BY <1>1, <1>3, <1>4, <1>6, <1>12, OneMoves, LeaveUndisturbed
  <2> QED BY <1>11, <1>12, <2>1
<1>13. CASE Goto(c, [at |-> "wait", key |-> k, request |-> r, eval |-> e])
  <2>1. MemberOf[c] \in g.members /\ g.result # "cancelled"
    BY <1>4, <1>5
  <2>2. CallUndisturbed(c)'
    BY <1>1, <1>3, <1>4, <1>6, <1>13, <2>1, OneMoves, WaitUndisturbed
  <2> QED BY <1>11, <1>13, <2>2
<1> QED BY <1>12, <1>13 DEF Join

\* Nobody refers to the object of a new evaluation; its creator is a member.
LEMMA CreateUndisturbed ==
    ASSUME Inv, Undisturbed, NEW c \in Caller, Create(c)
    PROVE  Undisturbed'
<1> PICK k, r : k = call[c].key /\ r = call[c].request
  OBVIOUS
<1>1. /\ OthersTyped /\ k \in Key /\ r \in Request[c] /\ r \in AnyRequest
      /\ call[c].at = "join" /\ c \notin cancels
  BY InHandUndisturbed, RequestAssumption DEF Inv, Create, At
<1> DEFINE g == NewEvaluation(c)
<1>2. PICK e \in Evaluation :
        /\ Unused(e)
        /\ Enter(c, e, g)
        /\ Goto(c, [at |-> IF Async(c) THEN "wait" ELSE "own", key |-> k,
                    request |-> r, eval |-> e])
  BY DEF Create
<1>3. /\ g.key = k /\ g.result = "pending" /\ g.members = {MemberOf[c]}
      /\ g.task = IF Async(c) THEN "created" ELSE "none"
      /\ \A m \in Member :
            g.waiters[m] = IF Async(c) /\ m = MemberOf[c] THEN c ELSE Nobody
  BY DEF NewEvaluation
<1>4. /\ SetFields(e, g) /\ UNCHANGED <<cancels, left>>
      /\ active' = [active EXCEPT ![k] = e]
      /\ lingering' = [lingering EXCEPT ![k] = IF active[k] = Nobody THEN Nobody ELSE @]
  BY <1>2 DEF Enter, SetFields
<1> HIDE DEF g
<1>5. evaluation'[e] = g
  BY <1>4, OneChanges
<1>6. Async(c) => LoopOf[c] # Nobody /\ r.form # "peek"
  BY <1>1, RequestAssumption DEF Async, Calls
<1>7. WorkUndisturbed(e)'
  BY <1>3, <1>5, <1>6 DEF WorkUndisturbed, Doomed, Pending
<1>8. \A d \in Evaluation \ {e} : NotEntered(d)
  BY <1>1, <1>4, NobodyAssumption, EvaluationParts DEF NotEntered, OthersTyped
<1>9. \A d \in Caller \ {c} : /\ call'[d] = call[d] /\ WaiterKept(d)
                              /\ ~("eval" \in DOMAIN call[d] /\ call[d].eval = e)
  BY <1>1, <1>2, <1>4, OneMoves DEF Unused, WaiterKept
<1>10. CASE Async(c)
  <2>1. call'[c] = [at |-> "wait", key |-> k, request |-> r, eval |-> e]
    BY <1>1, <1>2, <1>10, OneMoves
  <2>2. CallUndisturbed(c)'
    BY <1>1, <1>3, <1>4, <1>5, <2>1, WaitUndisturbed
  <2> QED BY <1>4, <1>7, <1>8, <1>9, <2>2, OneUndisturbed
<1>11. CASE ~Async(c)
  <2>1. call'[c] = [at |-> "own", key |-> k, request |-> r, eval |-> e]
    BY <1>1, <1>2, <1>11, OneMoves
  <2>2. CallUndisturbed(c)'
    BY <1>1, <1>3, <1>4, <1>5, <1>11, <2>1 DEF CallUndisturbed, CallMatches, At
  <2> QED BY <1>4, <1>7, <1>8, <1>9, <2>2, OneUndisturbed
<1> QED BY <1>10, <1>11

\* The evaluation e goes on as g, without the member m.
LeftBy(e, m, g) ==
    /\ SetFields(e, g)
    /\ g.key = evaluation[e].key /\ g.loop = evaluation[e].loop
    /\ g.task = evaluation[e].task
    /\ g.result = "pending" /\ evaluation[e].result = "pending"
    /\ g.members = evaluation[e].members \ {m}

\* What c does to the evaluation e when the member m goes, whose waiter is w.
Departs(e, m, w, c) ==
    /\ e \in Evaluation
    /\ \E g : LeftBy(e, m, g)
    /\ WorkUndisturbed(e)'
    /\ \A d \in Evaluation \ {e} : NotEntered(d)
    /\ w # Nobody => MemberOf[w] = m /\ LoopOf[w] # Nobody /\ w \in Caller
    /\ cancels' = (IF w # Nobody /\ At(w, "wait") /\ call[w].eval = e
                     THEN cancels \union {w} ELSE cancels) \ {c}

\* What goes when a member m goes, asked by c or from outside: the member, and
\* then perhaps the evaluation to the lingering ones.
LEMMA SoftcancelUndisturbed ==
    ASSUME Inv, Undisturbed, NEW k \in Key, NEW m \in Member, NEW c, Softcancel(k, m, c),
           Leaves(k, m), NEW e, e = active[k], NEW w, w = evaluation[e].waiters[m]
    PROVE  Departs(e, m, w, c)
<1> PICK f : f = evaluation[e]
  OBVIOUS
<1>1. /\ OthersTyped /\ e \in Evaluation /\ f \in EvaluationFields /\ f.key = k
      /\ f.result = "pending" /\ m \in f.members
  <2>1. OthersTyped /\ e \in Evaluation
    BY EvaluationParts DEF Leaves, OthersTyped
  <2> QED BY <2>1, EvaluationParts DEF Leaves, Pending, Registry, KeysMatch
<1>2. WorkUndisturbed(e) /\ (~Doomed(e) \/ f.loop \in Brief)
  BY <1>1 DEF Undisturbed, WorkUndisturbed
<1>3. PICK h : h = WithoutMember(f, m)
  OBVIOUS
<1>4. /\ h \in EvaluationFields
      /\ h.key = k /\ h.loop = f.loop /\ h.task = f.task /\ h.result = "pending"
      /\ h.members = f.members \ {m} /\ h.waiters = [f.waiters EXCEPT ![m] = Nobody]
  <2>1. h \in EvaluationFields
    BY <1>1, <1>3, WithoutMemberFields
  <2> QED BY <1>1, <1>3, <2>1, WithoutMemberSame DEF Alike
<1>5. PICK g :
        /\ SetFields(e, g)
        /\ g.key = k /\ g.loop = f.loop /\ g.task = f.task /\ g.result = "pending"
        /\ g.members = f.members \ {m} /\ g.waiters = [f.waiters EXCEPT ![m] = Nobody]
  <2>1. SetFields(e, h) \/ SetFields(e, MoveToLinger(h))
    BY <1>3 DEF Softcancel
  <2>2. SameWork(h, MoveToLinger(h))
    BY <1>4, MoveToLingerSame
  <2> QED BY <1>4, <2>1, <2>2 DEF SameWork, Alike
<1>6. evaluation'[e] = g
  BY <1>1, <1>5, OneChanges
<1>7. f.waiters \in [Member -> Caller \union {Nobody}]
  BY <1>1, FieldsOf
<1>8. WorkUndisturbed(e)'
  BY <1>1, <1>2, <1>5, <1>6, <1>7 DEF WorkUndisturbed, Doomed, Pending
<1>9. /\ active' = active \/ active' = [active EXCEPT ![k] = Nobody]
      /\ lingering' = lingering \/ lingering' = [lingering EXCEPT ![k] = e]
  BY DEF Softcancel, registry
<1>10. \A d \in Evaluation \ {e} : NotEntered(d)
  BY <1>1, <1>9, NobodyAssumption, EvaluationParts DEF NotEntered, OthersTyped
<1>11. w # Nobody => MemberOf[w] = m /\ LoopOf[w] # Nobody /\ w \in Caller
  BY <1>2, <1>7 DEF WorkUndisturbed
<1>12. cancels' = (IF w # Nobody /\ At(w, "wait") /\ call[w].eval = e
                     THEN cancels \union {w} ELSE cancels) \ {c}
  BY DEF Softcancel
<1>13. LeftBy(e, m, g)
  BY <1>1, <1>5 DEF LeftBy
<1> QED BY <1>1, <1>8, <1>10, <1>11, <1>12, <1>13 DEF Departs

\* A caller that leaves takes out its own member, and so no other's waiter,
\* unless that has the same member id.
LEMMA LeaveKeeps ==
    ASSUME Inv, Undisturbed, NEW c \in Caller, Leave(c),
           NEW x, Goto(c, x), CallUndisturbed(c)'
    PROVE  Undisturbed'
<1>0. PICK k, m, e : k = call[c].key /\ m = MemberOf[c] /\ e = active[call[c].key]
  OBVIOUS
<1>1. /\ OthersTyped /\ k \in Key /\ call[c].at = "leave"
      /\ m \in Member /\ Softcancel(k, m, c) /\ UNCHANGED left /\ e = active[k]
  BY <1>0, InHandUndisturbed DEF Inv, Leave, At, Member
<1>2. \A d \in Caller \ {c} : call'[d] = call[d]
  BY <1>1, OneMoves
<1>3. CASE ~Leaves(k, m)
  <2>1. UNCHANGED <<registry, evaluation>> /\ cancels' = cancels \ {c}
    BY <1>1, <1>3 DEF Softcancel
  <2>2. \A d \in Evaluation : SameWork(evaluation[d], evaluation'[d]) /\ NotEntered(d)
    BY <2>1 DEF SameWork, Alike, NotEntered, registry
  <2>3. \A d \in Caller : WaiterKept(d)
    BY <1>1, <2>1 DEF WaiterKept
  <2> QED BY <2>2, <2>3, MovedUndisturbed
<1>4. CASE Leaves(k, m)
  <2>0. PICK w : w = evaluation[e].waiters[m]
    OBVIOUS
  <2>1. Departs(e, m, w, c)
    BY <1>1, <1>4, <2>0, SoftcancelUndisturbed
  <2>2. PICK g : LeftBy(e, m, g)
    BY <2>1 DEF Departs
  <2>3. w # Nobody => w = c \/ ~Lone(w)
    BY <1>0, <2>1 DEF Departs, Lone
  <2>4. \A d \in Caller : WaiterKept(d)
    BY <1>1, <2>1, <2>3 DEF Departs, WaiterKept
  <2>5. \A d \in Caller \ {c} : KeepsFor(evaluation[e], g, d)
    <3> SUFFICES ASSUME NEW d \in Caller, d # c
                 PROVE  KeepsFor(evaluation[e], g, d)
      OBVIOUS
    <3>1. MemberOf[d] # m \/ ~Lone(d)
      BY <1>0 DEF Lone
    <3> QED BY <2>2, <3>1 DEF KeepsFor, LeftBy
  <2>6. \A d \in Caller :
            \/ CallUndisturbed(d)'
            \/ /\ call'[d] = call[d] /\ WaiterKept(d)
               /\ "eval" \in DOMAIN call[d] /\ call[d].eval = e => KeepsFor(evaluation[e], g, d)
    BY <1>2, <2>4, <2>5
  <2>7. SetFields(e, g)
    BY <2>2 DEF LeftBy
  <2>8. WorkUndisturbed(e)' /\ e \in Evaluation /\ \A d \in Evaluation \ {e} : NotEntered(d)
    BY <2>1 DEF Departs
  <2> QED BY <2>6, <2>7, <2>8, OneUndisturbed
<1> QED BY <1>3, <1>4

LEMMA LeavesUndisturbed ==
    ASSUME Inv, Undisturbed, NEW c \in Caller, Leave(c)
    PROVE  Undisturbed'
<1> PICK k, r, outcome : k = call[c].key /\ r = call[c].request /\ outcome = call[c].outcome
  OBVIOUS
<1>1. /\ OthersTyped /\ k \in Key /\ r \in Request[c] /\ CallUndisturbed(c)
      /\ call[c].at = "leave"
  BY InHandUndisturbed DEF Inv, Leave, At
<1>2. c \notin cancels' /\ UNCHANGED left
  BY Zenon DEF Leave, Softcancel
<1>3. CASE outcome = "alone" \/ BytesMissing(c)
  <2>1. Goto(c, [at |-> "alone", key |-> k, request |-> r])
    BY <1>3 DEF Leave
  <2>2. CallUndisturbed(c)'
    BY <1>1, <1>2, <2>1, OneMoves, RestUndisturbed
  <2> QED BY <2>1, <2>2, LeaveKeeps
<1>4. CASE ~(outcome = "alone" \/ BytesMissing(c))
  <2>1. Goto(c, [at |-> "done", key |-> k, request |-> r, outcome |-> outcome])
    BY <1>4 DEF Leave, Done
  <2>2. CallUndisturbed(c)'
    BY <1>1, <1>2, <2>1, OneMoves, DoneUndisturbed
  <2> QED BY <2>1, <2>2, LeaveKeeps
<1> QED BY <1>3, <1>4

\* Who waits for the member that is taken out was asked to leave.
LEMMA SoftcancelExpressionUndisturbed ==
    ASSUME Inv, Undisturbed, NEW k \in Key, NEW m \in Member, SoftcancelExpression(k, m)
    PROVE  Undisturbed'
<1> PICK e : e = active[k]
  OBVIOUS
<1>1. /\ Softcancel(k, m, Nobody) /\ Leaves(k, m) /\ UNCHANGED call
      /\ left' = left \union {c \in Caller : /\ MemberOf[c] = m /\ At(c, "wait")
                                             /\ ~Calls(c, "peek")
                                             /\ call[c].eval = e}
  BY DEF SoftcancelExpression
<1> PICK w : w = evaluation[e].waiters[m]
  OBVIOUS
<1>2. Departs(e, m, w, Nobody)
  BY <1>1, SoftcancelUndisturbed
<1>3. PICK g : LeftBy(e, m, g)
  BY <1>2 DEF Departs
<1>4. ASSUME w # Nobody, At(w, "wait") PROVE ~Calls(w, "peek")
  <2>1. w \in Caller /\ LoopOf[w] # Nobody /\ call[w].request \in Request[w]
    BY <1>2, <1>4, InHandUndisturbed DEF Departs, At
  <2> QED BY <2>1, RequestAssumption DEF Calls
<1>5. \A c \in Caller : WaiterKept(c)
  BY <1>1, <1>2, <1>4 DEF Departs, WaiterKept
<1>6. \A c \in Caller : "eval" \in DOMAIN call[c] /\ call[c].eval = e =>
        KeepsFor(evaluation[e], g, c)
  BY <1>1, <1>3 DEF KeepsFor, LeftBy
<1>7. SetFields(e, g)
  BY <1>3 DEF LeftBy
<1>8. WorkUndisturbed(e)' /\ e \in Evaluation /\ \A d \in Evaluation \ {e} : NotEntered(d)
  BY <1>2 DEF Departs
<1> QED BY <1>1, <1>5, <1>6, <1>7, <1>8, OneUndisturbed

\* A synchronous caller publishes a value or an error ...
LEMMA SyncPublishUndisturbed ==
    ASSUME Inv, Undisturbed, NEW c \in Caller, NEW outcome \in {"value", "error"},
           SyncPublish(c, outcome)
    PROVE  Undisturbed'
<1> PICK k, r, e : k = call[c].key /\ r = call[c].request /\ e = call[c].eval
  OBVIOUS
<1> DEFINE g == [evaluation[e] EXCEPT !.result = outcome]
<1>1. /\ OthersTyped /\ k \in Key /\ r \in Request[c] /\ c \notin cancels
      /\ e \in Evaluation /\ evaluation[e].key = k
      /\ evaluation[e] \in EvaluationFields /\ evaluation[e].task \in {"none", "done"}
      /\ WorkUndisturbed(e)
  BY InHandUndisturbed, EvaluationParts DEF Inv, SyncPublish, At, CallMatches, Undisturbed
<1>2. /\ SetFields(e, g) /\ UNCHANGED <<registry, cancels, left>>
      /\ Goto(c, [at |-> "withdraw", key |-> k, request |-> r, eval |-> e])
  BY DEF SyncPublish
<1>3. /\ g.key = k /\ g.loop = evaluation[e].loop
      /\ g.result = outcome /\ g.task = evaluation[e].task
      /\ g.members = evaluation[e].members /\ g.waiters = evaluation[e].waiters
  BY <1>1 DEF EvaluationFields
<1> HIDE DEF g
<1>4. evaluation'[e] = g
  BY <1>1, <1>2, OneChanges
<1>5. WorkUndisturbed(e)'
  BY <1>1, <1>3, <1>4 DEF WorkUndisturbed, Doomed, Pending
<1>6. \A d \in Evaluation \ {e} : NotEntered(d)
  BY <1>2 DEF NotEntered, registry
<1>7. \A d \in Caller : KeepsFor(evaluation[e], g, d) /\ WaiterKept(d)
  BY <1>1, <1>2, <1>3 DEF KeepsFor, WaiterKept
<1>8. call'[c] = [at |-> "withdraw", key |-> k, request |-> r, eval |-> e]
      /\ \A d \in Caller \ {c} : call'[d] = call[d]
  BY <1>1, <1>2, OneMoves
<1>9. CallUndisturbed(c)'
  BY <1>1, <1>2, <1>3, <1>4, <1>8 DEF CallUndisturbed, CallMatches, At
<1> QED BY <1>1, <1>2, <1>5, <1>6, <1>7, <1>8, <1>9, OneUndisturbed

\* ... and comes back with it.
LEMMA SyncWithdrawUndisturbed ==
    ASSUME Inv, Undisturbed, NEW c \in Caller, SyncWithdraw(c)
    PROVE  Undisturbed'
<1> PICK k, r, e, f : k = call[c].key /\ r = call[c].request /\ e = call[c].eval
                      /\ f = evaluation[e]
  OBVIOUS
<1>1. /\ OthersTyped /\ k \in Key /\ r \in Request[c] /\ c \notin cancels
      /\ e \in Evaluation /\ f \in EvaluationFields /\ f.key = k
      /\ f.result \in {"value", "error"} /\ f.task \in {"none", "done"}
  BY InHandUndisturbed, EvaluationParts
     DEF Inv, SyncWithdraw, At, CallMatches, CallUndisturbed
<1>2. PICK g : g = Discarded(f)
  OBVIOUS
<1>3. /\ SetFields(e, g) /\ UNCHANGED <<cancels, left>> /\ Unregister(k, e)
      /\ Goto(c, [at |-> "done", key |-> k, request |-> r, outcome |-> f.result])
  BY <1>2 DEF SyncWithdraw, Done
<1>4. /\ g.key = k /\ g.loop = f.loop
      /\ g.task = "done" /\ g.members = {} /\ g.result = f.result
      /\ \A m \in Member : g.waiters[m] = Nobody
  BY <1>1, <1>2, DiscardedSame DEF Alike
<1>5. evaluation'[e] = g
  BY <1>1, <1>3, OneChanges
<1>6. WorkUndisturbed(e)'
  BY <1>4, <1>5 DEF WorkUndisturbed, Doomed
<1>7. \A d \in Evaluation \ {e} : NotEntered(d)
  BY <1>1, <1>3, NobodyAssumption, EvaluationParts DEF NotEntered, Unregister, OthersTyped
<1>8. \A d \in Caller : KeepsFor(f, g, d) /\ WaiterKept(d)
  BY <1>1, <1>3, <1>4 DEF KeepsFor, WaiterKept
<1>9. CallUndisturbed(c)'
  BY <1>1, <1>3, OneMoves, DoneUndisturbed
<1>10. \A d \in Caller \ {c} : call'[d] = call[d]
  BY <1>1, <1>3, OneMoves
<1> QED BY <1>1, <1>3, <1>6, <1>7, <1>8, <1>9, <1>10, OneUndisturbed

\* Who comes back is no leaver any more; the tasks on a loop that ends with the
\* call are cancelled, whoever waits for them.
LEMMA ReturnUndisturbed ==
    ASSUME Inv, Undisturbed, NEW c \in Caller, Return(c)
    PROVE  Undisturbed'
<1>1. /\ OthersTyped /\ call[c].at = "done" /\ c \notin cancels
      /\ UNCHANGED <<registry, cancels>> /\ left' = left \ {c}
      /\ Goto(c, [at |-> "ended"]) \/ Goto(c, [at |-> "idle"])
  BY InHandUndisturbed DEF Inv, Return, At
<1>2. CallUndisturbed(c)'
  BY <1>1, OneMoves, RestUndisturbed
<1>3. \A d \in Caller \ {c} : call'[d] = call[d] /\ WaiterKept(d)
  BY <1>1, OneMoves DEF WaiterKept
<1>4. \A e \in Evaluation :
        \/ evaluation'[e] = evaluation[e]
        \/ /\ evaluation[e].loop \in Brief
           /\ evaluation'[e] = TaskCancelled(evaluation[e])
  BY DEF Return
<1>5. \A e \in Evaluation :
        WorkUndisturbed(e)' /\ \A d \in Caller : KeepsFor(evaluation[e], evaluation'[e], d)
  <2> SUFFICES ASSUME NEW e \in Evaluation
               PROVE  /\ WorkUndisturbed(e)'
                      /\ \A d \in Caller : KeepsFor(evaluation[e], evaluation'[e], d)
    OBVIOUS
  <2>1. WorkUndisturbed(e) /\ evaluation[e] \in EvaluationFields /\ NotEntered(e)
    BY <1>1, EvaluationParts DEF Undisturbed, NotEntered, registry
  <2>2. CASE evaluation'[e] = evaluation[e]
    BY <2>1, <2>2, SameWorkUndisturbed DEF SameWork, Alike
  <2>3. CASE /\ evaluation[e].loop \in Brief
             /\ evaluation'[e] = TaskCancelled(evaluation[e])
    <3>1. PICK f, g : f = evaluation[e] /\ g = evaluation'[e]
      OBVIOUS
    <3>2. /\ Alike(f, g) /\ g.result = f.result
          /\ g.members = f.members /\ g.waiters = f.waiters
          /\ f.task = "created" => g.task = "withdrawn"
          /\ f.task = "running" => g.task = "cancelling"
          /\ f.task \notin {"created", "running"} => g.task = f.task
      BY <2>1, <2>3, <3>1, TaskCancelledSame DEF SameWork
    <3>3. WorkUndisturbed(e)'
      BY <2>1, <2>3, <3>1, <3>2 DEF WorkUndisturbed, Pending, Alike
    <3>4. \A d \in Caller : KeepsFor(f, g, d)
      BY <3>2 DEF KeepsFor, Alike
    <3> QED BY <3>1, <3>3, <3>4
  <2> QED BY <1>4, <2>2, <2>3
<1> QED BY <1>2, <1>3, <1>5, UndisturbedStep

\* The steps of tasks, of schedule() and of timers.
LEMMA TaskUndisturbed ==
    ASSUME Inv, Undisturbed, NEW e \in Evaluation,
           TaskStep(e) \/ \E outcome \in {"value", "error"} : Finish(e, outcome)
    PROVE  Undisturbed'
<1> PICK f : f = evaluation[e]
  OBVIOUS
<1>1. /\ OthersTyped /\ f \in EvaluationFields /\ f.key \in Key /\ WorkUndisturbed(e)
      /\ UNCHANGED <<call, cancels, left>>
  BY EvaluationParts DEF Undisturbed, TaskStep, Start, Cancelled, Withdraw, Discard, Finish
<1>2. ASSUME NEW g, SetFields(e, g),
             g.key = f.key /\ g.loop = f.loop /\ g.waiters = f.waiters /\ g.members = f.members,
             \A d \in Evaluation \ {e} : NotEntered(d),
             f.task \in {"created", "running", "cancelling", "published"},
             \/ g.task = "running" /\ f.task = "created" /\ g.result = f.result
             \/ g.task = "published" /\ g.result \in {"value", "error"}
             \/ g.task = "published" /\ f.task = "cancelling" /\ g.result = "cancelled"
             \/ g.task = "withdrawn" /\ f.task = "published" /\ g.result = f.result
      PROVE  Undisturbed'
  <2>1. evaluation'[e] = g
    BY <1>2, OneChanges
  <2>2. WorkUndisturbed(e)'
    BY <1>1, <1>2, <2>1 DEF WorkUndisturbed, Doomed, Pending
  <2>3. \A c \in Caller : KeepsFor(f, g, c)
    BY <1>1, <1>2 DEF WorkUndisturbed, Doomed, Pending, KeepsFor
  <2> QED BY <1>1, <1>2, <2>2, <2>3, TaskStepUndisturbed
<1>3. CASE Start(e)
  <2>1. f.task = "created" /\ \A d \in Evaluation : NotEntered(d)
    BY <1>3 DEF Start, NotEntered, registry
  <2>2. CASE f.remote
    <3> DEFINE g == [f EXCEPT !.task = "running",
                              !.dispatched = IF f.scratch THEN "scratch" ELSE "write"]
    <3>1. SetFields(e, g)
      BY <1>3, <2>2 DEF Start
    <3>2. /\ g.key = f.key /\ g.loop = f.loop
          /\ g.waiters = f.waiters /\ g.members = f.members
          /\ g.task = "running" /\ g.result = f.result
      BY <1>1 DEF EvaluationFields
    <3> HIDE DEF g
    <3> QED BY <1>2, <2>1, <3>1, <3>2
  <2>3. CASE ~f.remote /\ results[f.key].cached /\ (~f.materialize \/ results[f.key].here)
    <3> DEFINE g == [f EXCEPT !.task = "published", !.result = "value"]
    <3>1. SetFields(e, g)
      BY <1>3, <2>3 DEF Start
    <3>2. /\ g.key = f.key /\ g.loop = f.loop
          /\ g.waiters = f.waiters /\ g.members = f.members
          /\ g.task = "published" /\ g.result = "value"
      BY <1>1 DEF EvaluationFields
    <3> HIDE DEF g
    <3> QED BY <1>2, <2>1, <3>1, <3>2
  <2>4. CASE ~f.remote /\ ~(results[f.key].cached /\ (~f.materialize \/ results[f.key].here))
    <3> DEFINE g == [f EXCEPT !.task = "running"]
    <3>1. SetFields(e, g)
      BY <1>3, <2>4 DEF Start
    <3>2. /\ g.key = f.key /\ g.loop = f.loop
          /\ g.waiters = f.waiters /\ g.members = f.members
          /\ g.task = "running" /\ g.result = f.result
      BY <1>1 DEF EvaluationFields
    <3> HIDE DEF g
    <3> QED BY <1>2, <2>1, <3>1, <3>2
  <2> QED BY <2>2, <2>3, <2>4
<1>4. ASSUME NEW outcome \in {"value", "error"}, Finish(e, outcome) PROVE Undisturbed'
  <2> DEFINE g == [f EXCEPT !.task = "published", !.result = outcome]
  <2>1. SetFields(e, g) /\ f.task = "running" /\ \A d \in Evaluation : NotEntered(d)
    BY <1>4 DEF Finish, NotEntered, registry
  <2>2. /\ g.key = f.key /\ g.loop = f.loop
        /\ g.waiters = f.waiters /\ g.members = f.members
        /\ g.task = "published" /\ g.result = outcome
    BY <1>1 DEF EvaluationFields
  <2> HIDE DEF g
  <2> QED BY <1>2, <2>1, <2>2
<1>5. CASE Cancelled(e)
  <2> DEFINE g == [f EXCEPT !.task = "published", !.result = "cancelled"]
  <2>1. SetFields(e, g) /\ f.task = "cancelling" /\ \A d \in Evaluation : NotEntered(d)
    BY <1>5 DEF Cancelled, NotEntered, registry
  <2>2. /\ g.key = f.key /\ g.loop = f.loop
        /\ g.waiters = f.waiters /\ g.members = f.members
        /\ g.task = "published" /\ g.result = "cancelled"
    BY <1>1 DEF EvaluationFields
  <2> HIDE DEF g
  <2> QED BY <1>2, <2>1, <2>2
<1>6. CASE Withdraw(e)
  <2> DEFINE g == [f EXCEPT !.task = "withdrawn"]
  <2>1. /\ SetFields(e, g) /\ f.task = "published" /\ UNCHANGED lingering
        /\ active' = [active EXCEPT ![f.key] = IF @ = e THEN Nobody ELSE @]
    BY <1>6 DEF Withdraw
  <2>2. /\ g.key = f.key /\ g.loop = f.loop
        /\ g.waiters = f.waiters /\ g.members = f.members
        /\ g.task = "withdrawn" /\ g.result = f.result
    BY <1>1 DEF EvaluationFields
  <2>3. \A d \in Evaluation \ {e} : NotEntered(d)
    BY <1>1, <2>1, NobodyAssumption, EvaluationParts DEF NotEntered, OthersTyped
  <2> HIDE DEF g
  <2> QED BY <1>2, <2>1, <2>2, <2>3
<1>7. CASE Discard(e)
  <2>1. PICK g : g = Discarded(f)
    OBVIOUS
  <2>2. SetFields(e, g) /\ f.task \in {"published", "withdrawn"} /\ Unregister(f.key, e)
    BY <1>7, <2>1 DEF Discard
  <2>3. /\ g.key = f.key /\ g.loop = f.loop /\ g.task = "done" /\ g.members = {}
        /\ g.result = IF f.result = "pending" THEN "cancelled" ELSE f.result
        /\ \A m \in Member : g.waiters[m] = Nobody
    BY <1>1, <2>1, DiscardedSame DEF Alike
  <2>4. evaluation'[e] = g
    BY <2>2, OneChanges
  <2>5. WorkUndisturbed(e)'
    BY <2>3, <2>4 DEF WorkUndisturbed, Doomed
  <2>6. \A d \in Evaluation \ {e} : NotEntered(d)
    BY <1>1, <2>2, NobodyAssumption, EvaluationParts DEF NotEntered, Unregister, OthersTyped
  <2>7. \A c \in Caller : KeepsFor(f, g, c)
    BY <1>1, <2>2, <2>3 DEF WorkUndisturbed, Doomed, Pending, KeepsFor
  <2> QED BY <1>1, <2>2, <2>5, <2>6, <2>7, TaskStepUndisturbed
<1> QED BY <1>3, <1>4, <1>5, <1>6, <1>7 DEF TaskStep

\* A timer only cancels what nobody is a member of.
LEMMA TimerUndisturbed ==
    ASSUME Inv, Undisturbed, NEW e \in Evaluation, ScheduleStep(e) \/ Expire(e)
    PROVE  Undisturbed'
<1> PICK f : f = evaluation[e]
  OBVIOUS
<1>1. /\ OthersTyped /\ f \in EvaluationFields /\ f.key \in Key /\ WorkUndisturbed(e)
      /\ UNCHANGED <<call, cancels, left>>
  BY EvaluationParts DEF Undisturbed, ScheduleStep, Schedule, Arm, Expire
<1>2. ASSUME NEW g, SetFields(e, g), SameWork(f, g), \A d \in Evaluation : NotEntered(d)
      PROVE  Undisturbed'
  <2>1. evaluation'[e] = g
    BY <1>2, OneChanges
  <2>2. WorkUndisturbed(e)' /\ \A c \in Caller : KeepsFor(f, g, c)
    BY <1>1, <1>2, <2>1, SameWorkUndisturbed
  <2> QED BY <1>1, <1>2, <2>2, TaskStepUndisturbed
<1>3. CASE Schedule(e)
  <2> DEFINE g == [f EXCEPT !.schedules = @ - 1, !.arming = f.members = {} /\ Pending(e)]
  <2>1. SetFields(e, g) /\ \A d \in Evaluation : NotEntered(d)
    BY <1>3 DEF Schedule, NotEntered, registry
  <2>2. SameWork(f, g)
    BY <1>1 DEF EvaluationFields, SameWork, Alike
  <2> HIDE DEF g
  <2> QED BY <1>2, <2>1, <2>2
<1>4. CASE Arm(e)
  <2> DEFINE g == [f EXCEPT !.arming = FALSE, !.fresh = @ + 1, !.linger = TRUE]
  <2>1. SetFields(e, g) /\ \A d \in Evaluation : NotEntered(d)
    BY <1>4 DEF Arm, NotEntered, registry
  <2>2. SameWork(f, g)
    BY <1>1 DEF EvaluationFields, SameWork, Alike
  <2> HIDE DEF g
  <2> QED BY <1>2, <2>1, <2>2
<1>5. CASE Expire(e)
  <2>1. PICK h : h = Fired(f)
    OBVIOUS
  <2>2. SameWork(f, h) /\ h \in EvaluationFields
    BY <1>1, <1>5, <2>1, FiredSame, FiredFields DEF Expire, Timers
  <2>3. \A d \in Evaluation : NotEntered(d)
    BY <1>1, <1>5, NobodyAssumption, EvaluationParts DEF Expire, NotEntered, OthersTyped
  <2>4. CASE SetFields(e, h)
    BY <1>2, <2>2, <2>3, <2>4
  <2>5. CASE ~SetFields(e, h)
    <3>1. /\ SetFields(e, TaskCancelled(h)) /\ f.members = {} /\ lingering[f.key] = e
          /\ lingering' = [lingering EXCEPT ![f.key] = Nobody] /\ UNCHANGED active
      BY <1>5, <2>1, <2>5 DEF Expire, Expires
    <3>2. PICK g : g = TaskCancelled(h)
      OBVIOUS
    <3>3. /\ g.key = f.key /\ g.loop = f.loop /\ g.result = f.result
          /\ g.members = f.members /\ g.waiters = f.waiters
          /\ f.task = "created" => g.task = "withdrawn"
          /\ f.task = "running" => g.task = "cancelling"
          /\ f.task \notin {"created", "running"} => g.task = f.task
      BY <2>2, <3>2, TaskCancelledSame DEF SameWork, Alike
    <3>4. SetFields(e, g) /\ evaluation'[e] = g
      BY <3>1, <3>2, OneChanges
    <3>5. e \notin {active'[f.key], lingering'[f.key]}
      BY <1>1, <3>1, NobodyAssumption, EvaluationParts DEF Registry, SharedOnce, OthersTyped
    <3>6. WorkUndisturbed(e)'
      BY <1>1, <3>1, <3>3, <3>4, <3>5 DEF WorkUndisturbed, Doomed, Pending
    <3>7. \A c \in Caller : KeepsFor(f, g, c)
      BY <3>3 DEF KeepsFor
    <3> QED BY <1>1, <2>3, <3>4, <3>6, <3>7, TaskStepUndisturbed
  <2> QED BY <2>4, <2>5
<1> QED BY <1>3, <1>4, <1>5 DEF ScheduleStep

\* Nothing runs and nobody waits.
LEMMA InitUndisturbed ==
    ASSUME Init
    PROVE  Undisturbed
<1>1. \A e \in Evaluation :
        /\ evaluation[e].task = "done" /\ evaluation[e].result = "cancelled"
        /\ \A m \in Member : evaluation[e].waiters[m] = Nobody
  BY DEF Init
<1>2. \A c \in Caller : call[c] = [at |-> "idle"] /\ c \notin cancels
  BY DEF Init
<1>3. \A e \in Evaluation : WorkUndisturbed(e)
  BY <1>1 DEF WorkUndisturbed, Doomed
<1>4. \A c \in Caller : CallUndisturbed(c)
  BY <1>2 DEF CallUndisturbed, CallMatches, At
<1> QED BY <1>3, <1>4 DEF Undisturbed

LEMMA NextUndisturbed ==
    ASSUME Inv, Undisturbed, [Next]_vars
    PROVE  Undisturbed'
<1>1. CASE UNCHANGED vars
  BY <1>1 DEF vars, registry, Undisturbed, WorkUndisturbed, CallUndisturbed, CallMatches,
              Doomed, Pending, At, Calls, Lone, OnBriefLoop
<1>2. ASSUME NEW c \in Caller, Ask(c) \/ Proceed(c) \/ CancelCaller(c)
      PROVE  Undisturbed'
  BY <1>2, MovesUndisturbed, JoinUndisturbed, CreateUndisturbed, LeavesUndisturbed,
     SyncPublishUndisturbed, SyncWithdrawUndisturbed, ReturnUndisturbed DEF Ask, Proceed
<1>3. ASSUME NEW k \in Key, NEW m \in Member, SoftcancelExpression(k, m)
      PROVE  Undisturbed'
  BY <1>3, SoftcancelExpressionUndisturbed
<1>4. ASSUME NEW e \in Evaluation,
             \/ TaskStep(e) \/ ScheduleStep(e) \/ Expire(e)
             \/ \E outcome \in {"value", "error"} : Finish(e, outcome)
      PROVE  Undisturbed'
  <2>1. CASE TaskStep(e) \/ \E outcome \in {"value", "error"} : Finish(e, outcome)
    BY <2>1, TaskUndisturbed
  <2>2. CASE ScheduleStep(e) \/ Expire(e)
    BY <2>2, TimerUndisturbed, ZenonT(40)
  <2> QED BY <1>4, <2>1, <2>2
<1> QED BY <1>1, <1>2, <1>3, <1>4 DEF Next

\* What Undisturbed says of the one whose wait ends, by the result or otherwise.
LEMMA WaitEndsWell ==
    ASSUME Inv, Undisturbed, Next, NEW c \in Caller, WaitCancelled(c)
    PROVE  c \in left' \/ OnBriefLoop(c) \/ ~Lone(c)
<1>1. OthersTyped /\ CallUndisturbed(c)
  BY DEF Inv, Undisturbed
<1>2. call[c].at = "wait" /\ call'[c].at = "leave" /\ call'[c].outcome = "cancelled"
  BY DEF WaitCancelled, At
<1>3. CASE Resume(c)
  <2>1. UNCHANGED left /\ ~Calls(c, "peek") /\ evaluation[call[c].eval].result = "cancelled"
    BY <1>1, <1>2, <1>3, OneMoves DEF Resume, LeaveWith, Done
  <2> QED BY <1>1, <1>2, <2>1 DEF CallUndisturbed, At
<1>4. CASE WaiterCancelled(c)
  BY <1>1, <1>4 DEF WaiterCancelled, CallUndisturbed
<1>5. CASE CancelCaller(c)
  BY <1>5 DEF CancelCaller
<1>6. ASSUME NEW d \in Caller, Ask(d) \/ Proceed(d) \/ CancelCaller(d)
      PROVE  Resume(c) \/ WaiterCancelled(c) \/ CancelCaller(c)
  <2>1. d = c
    <3>1. \E x : Goto(d, x)
      BY <1>6 DEF Ask, Begin, Proceed, Join, Create, Resume, WaiterCancelled, CancelCaller,
                  Leave, EvaluateAlone, SyncPublish, SyncWithdraw, Return, CloseLoop,
                  LeaveWith, Done
    <3> QED BY <1>1, <1>2, <3>1, OneMoves
  <2> QED BY <1>2, <1>6, <2>1
          DEF Ask, Begin, Proceed, Join, Create, Leave, EvaluateAlone, SyncPublish,
              SyncWithdraw, Return, CloseLoop, At
<1>7. ASSUME UNCHANGED call PROVE FALSE
  BY <1>2, <1>7
<1> QED BY <1>3, <1>4, <1>5, <1>6, <1>7
        DEF Next, SoftcancelExpression, TaskStep, Start, Cancelled, Withdraw, Discard,
            ScheduleStep, Schedule, Arm, Expire, Finish

\* Whoever shares an evaluation, joins late, leaves, is late to leave or lets a
\* linger expire: nobody else's wait ends with a cancellation, but that of a caller
\* whose evaluation runs on the loop of an asyncio.run (expression_class.py:272)
\* or whose member id is that of another caller (expression_class.py:440).
THEOREM LeaversOnly == Spec => OnlyLeaversCancelled
<1>1. Init => Undisturbed
  BY InitUndisturbed
<1>2. IndInv /\ Undisturbed /\ [Next]_vars => Undisturbed'
  BY NextUndisturbed, Parts DEF Inv
<1>3. IndInv /\ Undisturbed /\ [Next]_vars =>
        [\A c \in Caller :
            WaitCancelled(c) => c \in left' \/ OnBriefLoop(c) \/ ~Lone(c)]_vars
  BY WaitEndsWell, Parts DEF Inv
<1> QED BY <1>1, <1>2, <1>3, SpecIndInv, PTL DEF Spec, OnlyLeaversCancelled

=============================================================================
