------------------------ MODULE MCActiveExpression ------------------------
(* Instances of ActiveExpression for TLC. *)
EXTENDS ActiveExpression, TLC

CONSTANTS e1, e2, c1, c2, c3, l1, l2

Ask3(form, scratch, materialize) ==
    [form |-> form, scratch |-> scratch, materialize |-> materialize]

Checksum == {Ask3("local", TRUE, FALSE)}
Sync == {Ask3("sync", TRUE, FALSE), Ask3("peek", TRUE, FALSE)}

OfCallers(f) == [c \in Caller |-> f[c]]

\* Two coroutines on loops of their own, or on one, and a thread without a loop.
OwnLoops == OfCallers((c1 :> l1) @@ (c2 :> l2) @@ (c3 :> Nobody))
OneLoop == OfCallers((c1 :> l1) @@ (c2 :> l1) @@ (c3 :> Nobody))
OwnMembers == OfCallers((c1 :> "m1") @@ (c2 :> "m2") @@ (c3 :> "m3"))
SharedMember == OfCallers((c1 :> "m") @@ (c2 :> "m") @@ (c3 :> "m3"))

LocalRequest == OfCallers((c1 :> Checksum) @@ (c2 :> Checksum) @@ (c3 :> Sync))

\* One coroutine dispatches, and may ask for a result that is written; the
\* other asks for the checksum alone, or for the bytes by a synchronous call,
\* which blocks its loop.
BytesRequest == OfCallers(
    (c1 :> {Ask3("remote", TRUE, FALSE), Ask3("remote", FALSE, TRUE)}) @@
    (c2 :> {Ask3("local", TRUE, FALSE), Ask3("sync", TRUE, TRUE)}) @@
    (c3 :> Sync))

\* All requests of coroutines.
Mixed == {Ask3("local", TRUE, FALSE), Ask3("local", TRUE, TRUE),
          Ask3("remote", TRUE, FALSE), Ask3("remote", FALSE, TRUE)}
MixedRequest == OfCallers((c1 :> Mixed) @@ (c2 :> Mixed) @@ (c3 :> Sync))

\* Nothing is recorded at first.
Fresh == {[cached |-> FALSE, here |-> FALSE, written |-> FALSE]}

Symmetry == Permutations(Evaluation)

\* What no step reads any more is left out: the fields of an unused
\* evaluation, and those of a finished one that only its members would need.
Needed(e) ==
    IF Unused(e) THEN <<>>
    ELSE IF Pending(e) THEN <<evaluation[e]>>
    ELSE <<evaluation[e].key, evaluation[e].task, evaluation[e].loop,
           evaluation[e].remote, evaluation[e].materialize, evaluation[e].arming,
           evaluation[e].result,
           evaluation[e].dispatched, evaluation[e].claimed>>
View == <<registry, [e \in Evaluation |-> Needed(e)], results, call, cancels, left>>
===========================================================================
