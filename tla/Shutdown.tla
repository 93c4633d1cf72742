------------------------------- MODULE Shutdown -------------------------------
(***************************************************************************)
(* seamless.close, src/seamless/shutdown.py, with the holders it releases. *)
(*                                                                         *)
(* close runs in the main thread, once; a step that fails is reported and  *)
(* the next one is attempted.  Computations on other loops and finalizers  *)
(* go on meanwhile.  Workers, the flush of the buffer writer, remote       *)
(* clients, shared memory and the resource tracker have no part in the     *)
(* accounting: of those steps only the order remains.                      *)
(***************************************************************************)
EXTENDS RefHolders

CONSTANT MaxUses   \* bound: calls of the program

ASSUME BoundAssumption == MaxUses \in Nat

VARIABLES
    uses,       \* number of calls so far
    phase,      \* how far close is
    holders,    \* the snapshot of registered holders, not yet released
    straggler   \* history: a Cell got a result after it was released

shutVars == <<uses, phase, holders, straggler>>
vars == <<holderVars, shutVars>>

-----------------------------------------------------------------------------
\* settled: workers are shut down.  release: the first audit and the flush are
\* over.  closed: accounting is cleared.
Phase == {"open", "settled", "release", "closed"}

TypeOK ==
    /\ HolderTypeOK /\ uses \in 0 .. MaxUses
    /\ phase \in Phase /\ holders \subseteq Cell \union Expr
    /\ straggler \in BOOLEAN

Init == HolderInit /\ uses = 0 /\ phase = "open" /\ holders = {} /\ straggler = FALSE

Registered == {c \in Cell : cell[c].born} \union {e \in Expr : expr[e].born}

\* The program uses Seamless until it calls close.
Use ==
    /\ phase = "open" /\ uses < MaxUses
    /\ (\E c \in Cell : UseCell(c)) \/ (\E e \in Expr : UseExpression(e))
    /\ uses' = uses + 1
    /\ UNCHANGED <<phase, holders, straggler>>

\* A holder in the snapshot is alive until it is released.
KeptBySnapshot == \A h \in holders : IF h \in Cell THEN cell'[h].born ELSE expr'[h].born

GoOn ==
    /\ Background /\ KeptBySnapshot
    /\ straggler' = (straggler \/ \E c \in Cell : cell'[c].released /\ cell'[c].result # Nothing)
    /\ UNCHANGED <<uses, phase, holders>>

\* close: marked as closing and closed, so that it does not run again; hooks;
\* _wait_workers_ready, _quiet_workers and shutdown_workers.
CloseWorkers ==
    /\ phase = "open"
    /\ phase' = "settled"
    /\ UNCHANGED <<holderVars, uses, holders, straggler>>

\* The snapshot for the first audit; _flush_buffers_short_then_long.
CloseAudit ==
    /\ phase = "settled"
    /\ holders' = Registered
    /\ phase' = "release"
    /\ UNCHANGED <<holderVars, uses, straggler>>

\* One holder of the snapshot after the other.
CloseRelease(h) ==
    /\ phase = "release" /\ h \in holders
    /\ \/ h \in Cell /\ ReleaseCell(h)
       \/ h \in Expr /\ ReleaseExpression(h)
    /\ holders' = holders \ {h}
    /\ UNCHANGED <<uses, phase, straggler>>

\* The second audit and force_clear_reference_accounting; remote clients,
\* shared memory, finalizers, the resource tracker, the summary.
CloseClear ==
    /\ phase = "release" /\ holders = {}
    /\ count' = [d \in Data |-> 0]
    /\ phase' = "closed"
    /\ UNCHANGED <<cell, expr, flight, uses, holders, straggler>>

Close ==
    \/ CloseWorkers \/ CloseAudit \/ CloseClear
    \/ \E h \in Cell \union Expr : CloseRelease(h)

Next == Use \/ GoOn \/ Close

Spec == Init /\ [][Next]_vars

-----------------------------------------------------------------------------
(* Properties *)

\* Until holders are released every claim is accounted for, and nothing else
\* is: the first audit of close has nothing to warn about.
AccountingMatches ==
    phase \in {"open", "settled"} => \A d \in Data : count[d] = Claims(d)

\* No holder gives back what another one claims, during close too, when
\* finalizers meet holders that are released: a live claim is backed by the
\* accounting until that is cleared.
ClaimsBacked ==
    phase # "closed" => \A d \in Data : count[d] >= Claims(d)

\* The releases do the whole work: while they go on, what is accounted is what
\* the holders not yet released claim, whatever computations end and finalizers
\* run in between.  After the last one nothing is accounted and the forced
\* clean-up has nothing to clear, unless a compute_async gave a Cell that was
\* released already a result, which nobody will give back.
ReleasesSuffice ==
    phase = "release" /\ ~straggler => \A d \in Data : count[d] = Claims(d)

\* The inductive invariant.  A released Cell may get a result from a straggler
\* and owe it: Owned counts the results of all Cells.  Until it is cleared the
\* accounting is enough, and exact if there was no straggler.
Owned(d) ==
    Cardinality(InputHolders(d)) + Cardinality({c \in Cell : cell[c].result = d})
    + Cardinality(ExprHolders(d))

NoneReleased ==
    phase \in {"open", "settled"} =>
        /\ ~straggler
        /\ \A c \in Cell : ~cell[c].released
        /\ \A e \in Expr : ~expr[e].released

\* Without a straggler a released Cell has no result.
ReleasedEmpty == \A c \in Cell : cell[c].released => cell[c].result = Nothing

Accounted ==
    phase # "closed" =>
        \A d \in Data :
            /\ ~straggler => count[d] = Owned(d)
            /\ count[d] >= Owned(d)

IndInv ==
    /\ TypeOK /\ HoldersSound /\ NoneReleased /\ (~straggler => ReleasedEmpty) /\ Accounted
=============================================================================
