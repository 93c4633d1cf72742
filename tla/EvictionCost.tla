---------------------------- MODULE EvictionCost ----------------------------
(***************************************************************************)
(* Eviction costs: src/seamless/caching/eviction_cost.py.                  *)
(*                                                                         *)
(* The cost of a checksum is computed from its length, its download and    *)
(* CPU terms and the costs of its dependencies, and is cached until        *)
(* something it depends on is marked dirty.  Costs and dependencies are    *)
(* kept only while a checksum is of interest: it is in the strong cache,   *)
(* or an interesting checksum depends on it.                               *)
(*                                                                         *)
(* A call is one action where it holds CostModule._lock throughout.  Three *)
(* kinds are longer: register_buffer_length takes no lock of this module,  *)
(* the setters change a term first and take the lock for mark_dirty only,  *)
(* and get_cost stores what it computed in a later step.  In the program   *)
(* register_buffer_length, get_cost and the interest calls are made by     *)
(* BufferCache, under its own lock; the others may come from any thread.   *)
(*                                                                         *)
(* Costs are numbers or Inf; the constants 1 GB, 0.1 units per second and  *)
(* so on are scaled to small integers.                                     *)
(***************************************************************************)
EXTENDS Integers, FiniteSets, SequencesExt

CONSTANTS
    Checksum,
    Thread,
    Lengths,     \* buffer lengths
    Settings,    \* <<field, value>>: the terms that the setters are called with
    MaxDeps,     \* bound: dependencies of one checksum
    MaxInterest, \* bound: direct interest in one checksum
    None,
    Inf          \* float("inf")

\* The profiles: units per GB and the least cost.
Profile == [read |-> [units |-> 1, least |-> 0], remote |-> [units |-> 2, least |-> 1]]

ASSUME CostAssumption ==
    /\ IsFiniteSet(Checksum)
    /\ Lengths \subseteq Nat
    /\ Settings \subseteq ({"profile"} \X DOMAIN Profile) \union ({"manual", "cpu"} \X Nat)
    /\ MaxDeps \in Nat /\ MaxInterest \in Nat
    /\ None \notin Nat /\ Inf \notin Nat /\ Inf # None

VARIABLES
    length,    \* buffer_lengths._lengths
    terms,     \* download._checksum_profiles, download._manual_costs, transformations._cpu_seconds
    deps,      \* _dependencies
    rev,       \* _reverse_dependencies
    depended,  \* _dependency_interest
    direct,    \* _direct_interest
    cost,      \* _cost_cache
    call       \* the call that each thread is in

inputs == <<length, terms>>
graph == <<deps, rev, depended, direct>>
vars == <<inputs, graph, cost, call>>

-----------------------------------------------------------------------------
(* State *)

Costs == Nat \union {Inf}

Terms == [profile : DOMAIN Profile, manual : Nat \union {None}, cpu : Nat]

\* measured: the length is stored, mark_dirty is still to come.  dirty: a term
\* is set, mark_dirty is still to come.  asked, costing: get_cost has the lock;
\* the costs in found are computed and not yet stored.
Call ==
    [at : {"idle"}]
    \union [at : {"measured", "dirty", "asked"}, of : Checksum]
    \union [at : {"costing"}, found : [Checksum -> Costs \union {None}]]

Idle == [at |-> "idle"]
Goto(t, c) == call' = [call EXCEPT ![t] = c]

TypeOK ==
    /\ length \in [Checksum -> Nat \union {None}]
    /\ terms \in [Checksum -> Terms]
    /\ deps \in [Checksum -> Seq(Checksum)]
    /\ rev \in [Checksum -> SUBSET Checksum]
    /\ depended \in [Checksum -> Nat] /\ direct \in [Checksum -> Nat]
    /\ cost \in [Checksum -> Costs \union {None}]
    /\ call \in [Thread -> Call]

Init ==
    /\ length = [c \in Checksum |-> None]
    /\ terms = [c \in Checksum |-> [profile |-> "read", manual |-> None, cpu |-> 0]]
    /\ deps = [c \in Checksum |-> <<>>]
    /\ rev = [c \in Checksum |-> {}]
    /\ depended = [c \in Checksum |-> 0] /\ direct = [c \in Checksum |-> 0]
    /\ cost = [c \in Checksum |-> None]
    /\ call = [t \in Thread |-> Idle]

\* CostModule._lock, and the lock of BufferCache around the calls it makes.
LockFree == \A t \in Thread : call[t].at \notin {"asked", "costing"}
CacheLockFree == LockFree /\ \A t \in Thread : call[t].at # "measured"

-----------------------------------------------------------------------------
(* Costs *)

Download(c) ==
    IF terms[c].manual # None THEN terms[c].manual
    ELSE LET p == Profile[terms[c].profile] IN
         IF length[c] * p.units > p.least THEN length[c] * p.units ELSE p.least

\* _compute_cost, once the costs of the dependencies are known.
OwnCost(c, depCost) ==
    LET sum == FoldLeft(LAMBDA total, d : total + depCost[d], 0, deps[c])
        base == IF deps[c] # <<>> /\ sum > Download(c) THEN sum ELSE Download(c)
    IN  IF length[c] = None \/ \E d \in Range(deps[c]) : depCost[d] = Inf THEN Inf
        ELSE base + terms[c].cpu

\* _ensure_cost of every checksum with the given costs cached.  A checksum
\* that is being computed further out (_computing) costs Inf.
CostsWith(cached) ==
    LET Ensure[x \in Checksum \X SUBSET Checksum] ==
            LET c == x[1] computing == x[2] IN
            IF cached[c] # None THEN cached[c]
            ELSE IF c \in computing THEN Inf
            ELSE OwnCost(c, [d \in Range(deps[c]) |-> Ensure[<<d, computing \union {c}>>]])
    IN  [c \in Checksum |-> Ensure[<<c, {}>>]]

\* The costs that a computation from nothing gives.
TrueCost == CostsWith([c \in Checksum |-> None])

\* The dependencies of c that _compute_cost asks for: it stops at an infinite one.
Asked(c, costs) ==
    IF length[c] = None THEN {}
    ELSE {deps[c][i] : i \in {j \in DOMAIN deps[c] :
                                \A k \in 1 .. j - 1 : costs[deps[c][k]] # Inf}}

\* The checksums that _ensure_cost(c) computes on the way, and so caches.
Computed(c, costs) ==
    LET Reached[n \in 0 .. Cardinality(Checksum)] ==
            IF n = 0 THEN {c} \ {d \in Checksum : cost[d] # None}
            ELSE LET reached == Reached[n - 1] IN
                 reached \union {d \in UNION {Asked(b, costs) : b \in reached} : cost[d] = None}
    IN  Reached[Cardinality(Checksum)]

-----------------------------------------------------------------------------
(* Interest and dependencies *)

Interesting(c) == direct[c] + depended[c] > 0

\* The edges from the checksums in S to c, and how often these depend on c.
EdgesTo(ds, S, c) ==
    {edge \in S \X (1 .. MaxDeps) : edge[2] \in DOMAIN ds[edge[1]] /\ ds[edge[1]][edge[2]] = c}
Edges(ds, S, c) == Cardinality(EdgesTo(ds, S, c))

\* What is of interest as a dependency only, and what of it would not be
\* without the dependencies of those in R.
FaultyIndirect == {c \in Checksum : depended[c] > 0}
Indirect == {c \in Checksum : direct[c] = 0 /\ depended[c] > 0}
Orphans(R) == {c \in Indirect : depended[c] = Edges(deps, R, c)}

\* The checksums released when the dependencies of those in S are detached:
\* _decrement_dependency_interest releases what nobody is interested in any
\* more, which detaches its dependencies in turn.  They are the least set
\* that this adds nothing to: no such set is without any of them.
Released(S) ==
    {c \in Indirect :
        \A gone \in SUBSET (Indirect \ {c}) : ~(Orphans(S \union gone) \subseteq gone)}

\* What is left when the dependencies of the checksums in R are detached.
FaultyDetached(R) ==
    [deps |-> [c \in Checksum |-> IF c \in R THEN <<>> ELSE deps[c]],
     rev |-> rev,
     depended |-> [c \in Checksum |-> depended[c] - Edges(deps, R, c)]]
Detached(R) ==
    [deps |-> [c \in Checksum |-> IF c \in R THEN <<>> ELSE deps[c]],
     rev |-> [c \in Checksum |-> rev[c] \ R],
     depended |-> [c \in Checksum |-> depended[c] - Edges(deps, R, c)]]

\* _mark_dirty: c and everything that depends on it, however indirectly.
Dependents(reverse, c) ==
    LET Up[n \in 0 .. Cardinality(Checksum)] ==
            IF n = 0 THEN {c}
            ELSE LET up == Up[n - 1] IN up \union UNION {reverse[d] : d \in up}
    IN  Up[Cardinality(Checksum)]

Without(costs, reverse, c) ==
    LET dirty == Dependents(reverse, c) IN
    [d \in Checksum |-> IF d \in dirty THEN None ELSE costs[d]]

AddInterest(c) ==
    /\ CacheLockFree /\ direct[c] < MaxInterest
    /\ direct' = [direct EXCEPT ![c] = @ + 1]
    /\ UNCHANGED <<inputs, deps, rev, depended, cost, call>>

\* remove_interest and _maybe_release.
FaultyRemoveInterest(c) ==
    /\ CacheLockFree /\ direct[c] > 0
    /\ direct' = [direct EXCEPT ![c] = @ - 1]
    /\ UNCHANGED <<inputs, deps, rev, depended, cost, call>>
RemoveInterest(c) ==
    /\ CacheLockFree /\ direct[c] > 0
    /\ direct' = [direct EXCEPT ![c] = @ - 1]
    /\ IF direct[c] + depended[c] > 1 THEN UNCHANGED <<deps, rev, depended, cost>>
       ELSE LET gone == {c} \union Released({c})
                left == Detached(gone)
            IN  /\ deps' = left.deps /\ rev' = left.rev /\ depended' = left.depended
                /\ cost' = [d \in Checksum |-> IF d \in gone THEN None ELSE cost[d]]
    /\ UNCHANGED <<inputs, call>>

\* register_dependencies: the old ones are detached before the new ones count.
RegisterDependencies(c, ds) ==
    LET gone == Released({c})
        left == Detached({c} \union gone)
        reverse == [d \in Checksum |-> left.rev[d] \union (IF d \in Range(ds) THEN {c} ELSE {})]
        kept == [d \in Checksum |-> IF d \in gone THEN None ELSE cost[d]]
    IN  /\ LockFree
        /\ deps' = [left.deps EXCEPT ![c] = ds]
        /\ rev' = reverse
        /\ depended' = [d \in Checksum |-> left.depended[d] + Edges(deps', {c}, d)]
        /\ cost' = IF direct[c] + depended'[c] > 0 THEN Without(kept, reverse, c) ELSE kept
        /\ UNCHANGED <<inputs, direct, call>>

-----------------------------------------------------------------------------
(* Lengths and terms *)

\* register_buffer_length, the part before _mark_dirty; it holds no lock of
\* this module, but its callers hold the lock of BufferCache.
FaultyNotifyLength(t, c, n) ==
    /\ call[t] = Idle
    /\ length' = [length EXCEPT ![c] = n]
    /\ Goto(t, IF length[c] # n /\ Interesting(c) THEN [at |-> "measured", of |-> c] ELSE Idle)
    /\ UNCHANGED <<terms, graph, cost>>
NotifyLength(t, c, n) ==
    /\ call[t] = Idle /\ CacheLockFree
    /\ length' = [length EXCEPT ![c] = n]
    /\ Goto(t, IF length[c] # n /\ Interesting(c) THEN [at |-> "measured", of |-> c] ELSE Idle)
    /\ UNCHANGED <<terms, graph, cost>>

MarkMeasured(t) ==
    /\ call[t].at = "measured"
    /\ cost' = Without(cost, rev, call[t].of)
    /\ Goto(t, Idle)
    /\ UNCHANGED <<inputs, graph>>

\* set_download_profile, override_download_cost and record_transformation_cost
\* set a term without a lock and call mark_dirty after that.
SetTerms(t, c) ==
    /\ call[t] = Idle
    /\ \E s \in Settings : terms' = [terms EXCEPT ![c][s[1]] = s[2]]
    /\ Goto(t, [at |-> "dirty", of |-> c])
    /\ UNCHANGED <<length, graph, cost>>

MarkDirty(t) ==
    /\ call[t].at = "dirty" /\ LockFree
    /\ cost' = Without(cost, rev, call[t].of)
    /\ Goto(t, Idle)
    /\ UNCHANGED <<inputs, graph>>

\* get_cost with the buffer's length, as run_eviction_once calls it.  Of a
\* checksum that is not interesting it only stores the length.
GetCost(t, c, n) ==
    /\ call[t] = Idle /\ CacheLockFree /\ Interesting(c)
    /\ length' = [length EXCEPT ![c] = n]
    /\ cost' = IF length[c] # n THEN Without(cost, rev, c) ELSE cost
    /\ Goto(t, [at |-> "asked", of |-> c])
    /\ UNCHANGED <<terms, graph>>

ComputeCost(t) ==
    /\ call[t].at = "asked"
    /\ LET costs == CostsWith(cost)
           computed == Computed(call[t].of, costs)
       IN  Goto(t, [at |-> "costing",
                    found |-> [c \in Checksum |-> IF c \in computed THEN costs[c] ELSE None]])
    /\ UNCHANGED <<inputs, graph, cost>>

StoreCost(t) ==
    /\ call[t].at = "costing"
    /\ cost' = [c \in Checksum |->
                  IF call[t].found[c] # None THEN call[t].found[c] ELSE cost[c]]
    /\ Goto(t, Idle)
    /\ UNCHANGED <<inputs, graph>>

-----------------------------------------------------------------------------
Dependencies == UNION {[1 .. n -> Checksum] : n \in 0 .. MaxDeps}

Next ==
    \/ \E c \in Checksum :
        \/ AddInterest(c) \/ RemoveInterest(c)
        \/ \E ds \in Dependencies : RegisterDependencies(c, ds)
        \/ \E t \in Thread :
            \/ SetTerms(t, c)
            \/ \E n \in Lengths : NotifyLength(t, c, n) \/ GetCost(t, c, n)
    \/ \E t \in Thread : MarkMeasured(t) \/ MarkDirty(t) \/ ComputeCost(t) \/ StoreCost(t)

Spec == Init /\ [][Next]_vars

-----------------------------------------------------------------------------
(* Properties *)

\* The reverse table and the interest counts mirror the registered
\* dependencies (register_dependencies, _detach_dependencies).  A count that
\* is too low forgets costs that are in use, one that is too high keeps them
\* for ever, and a missing reverse edge leaves stale costs behind.
InterestCounted ==
    \A c \in Checksum :
        /\ depended[c] = Edges(deps, Checksum, c)
        /\ rev[c] = {b \in Checksum : c \in Range(deps[b])}

\* The inductive invariant of the graph.
GraphTyped ==
    /\ deps \in [Checksum -> Dependencies]
    /\ rev \in [Checksum -> SUBSET Checksum]
    /\ depended \in [Checksum -> Nat] /\ direct \in [Checksum -> Nat]
IndInv == GraphTyped /\ InterestCounted

\* Costs are cached only while somebody is interested (_maybe_release), so
\* the cache does not outgrow the strong cache and its dependencies.
CachedIsInteresting == \A c \in Checksum : cost[c] # None => Interesting(c)

\* A call that has changed an input of c's cost and still owes the mark.
MarkOwed(c) ==
    \E t \in Thread : /\ call[t].at \in {"measured", "dirty"}
                      /\ c \in Dependents(rev, call[t].of)

\* A cached cost is the cost that a computation from nothing gives, unless a
\* call that changed one of its inputs has still to mark it dirty: no order
\* of registrations, releases and concurrent computations leaves a stale cost.
CostsCurrent ==
    LET true == TrueCost IN
    \A c \in Checksum : cost[c] = None \/ cost[c] = true[c] \/ MarkOwed(c)

\* The inductive invariant of the costs: one thread at a time is between the
\* steps of a call that holds a lock, and what it has computed and not yet
\* stored is of interest and as current as what is cached.
OneInside ==
    \A t, u \in Thread : {call[t].at, call[u].at} \subseteq {"measured", "asked", "costing"} => t = u
CallsSound ==
    LET true == TrueCost IN
    \A t \in Thread :
        /\ call[t].at = "asked" => Interesting(call[t].of)
        /\ call[t].at = "costing" => \A c \in Checksum :
               \/ call[t].found[c] = None
               \/ Interesting(c) /\ (call[t].found[c] = true[c] \/ MarkOwed(c))
CostInv ==
    IndInv /\ TypeOK /\ OneInside /\ CallsSound /\ CachedIsInteresting /\ CostsCurrent

\* The dependencies of a checksum in the strong cache go only when it leaves
\* the cache or registers others: releases elsewhere in the graph, which
\* _detach_dependencies passes on, leave them alone.
DirectKeepsDependencies ==
    [][LET lost == {c \in Checksum : direct[c] > 0 /\ deps'[c] # deps[c]} IN
       lost # {} => \E c \in Checksum : lost = {c} /\ (direct' = direct \/ direct'[c] = 0)]_vars

\* The same for every interesting checksum, which the code does not keep:
\* register_dependencies detaches the old dependencies before it counts the
\* new ones, so one that is in both is released and loses its own.
DependenciesKept ==
    [][\A c \in Checksum :
        Interesting(c) /\ Interesting(c)' /\ deps'[c] # deps[c] =>
            \E ds \in Dependencies : RegisterDependencies(c, ds)]_vars
=============================================================================
