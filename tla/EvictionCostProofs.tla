------------------------- MODULE EvictionCostProofs -------------------------
(***************************************************************************)
(* Proofs about EvictionCost, for any checksums and dependencies, cycles   *)
(* included: counts and reverse edges mirror the registered dependencies,  *)
(* a release elsewhere leaves those of a checksum in the strong cache      *)
(* alone, and a cached cost is the one that a computation from nothing     *)
(* gives unless a mark is owed.                                            *)
(*                                                                         *)
(* The costs are defined by recursion.  What a recursive definition gives  *)
(* is proved by induction over a set: see Induction.  _ensure_cost passes  *)
(* along what it is computing, so that one checksum may be evaluated in    *)
(* several ways; Settled says, without recursion, what all of them give:   *)
(* the costs of what is Grounded, and Inf for the rest.                    *)
(***************************************************************************)
EXTENDS EvictionCost, FiniteSetTheorems, WellFoundedInduction, TLAPS

-----------------------------------------------------------------------------
(* Counting edges *)

LEMMA EdgesFinite ==
    ASSUME NEW ds, NEW S \in SUBSET Checksum, NEW c
    PROVE  IsFiniteSet(EdgesTo(ds, S, c)) /\ Edges(ds, S, c) \in Nat
<1>1. IsFiniteSet(S)
  BY CostAssumption, FS_Subset
<1>a. IsFiniteSet(1 .. MaxDeps)
  <2>1. 1 \in Int /\ MaxDeps \in Int
    BY CostAssumption
  <2> QED BY <2>1, FS_Interval
<1>2. IsFiniteSet(S \X (1 .. MaxDeps))
  BY <1>1, <1>a, FS_Product
<1>3. EdgesTo(ds, S, c) \in SUBSET (S \X (1 .. MaxDeps))
  BY DEF EdgesTo
<1> QED BY <1>2, <1>3, FS_Subset, FS_CardinalityType DEF Edges

\* An edge comes from R or from the rest.
LEMMA EdgesSplit ==
    ASSUME NEW ds, NEW R \in SUBSET Checksum, NEW c
    PROVE  Edges(ds, Checksum, c) = Edges(ds, R, c) + Edges(ds, Checksum \ R, c)
<1> DEFINE A == EdgesTo(ds, R, c)
           B == EdgesTo(ds, Checksum \ R, c)
<1>1. EdgesTo(ds, Checksum, c) = A \union B /\ A \intersect B = {}
  BY DEF EdgesTo
<1>2. IsFiniteSet(A) /\ IsFiniteSet(B) /\ Cardinality(A) \in Nat /\ Cardinality(B) \in Nat
  BY EdgesFinite DEF Edges
<1> HIDE DEF A, B
<1>3. Cardinality(A \union B) = Cardinality(A) + Cardinality(B) - Cardinality(A \intersect B)
  BY <1>2, FS_Union
<1>4. Cardinality(A \intersect B) = 0
  BY <1>1, FS_EmptySet
<1>5. Cardinality(EdgesTo(ds, Checksum, c)) = Cardinality(A) + Cardinality(B)
  BY <1>1, <1>2, <1>3, <1>4
<1> QED BY <1>5 DEF Edges, A, B

AgreeOn(ds, es, S) == S \subseteq Checksum /\ \A b \in S : ds[b] = es[b]

LEMMA EdgesSame ==
    ASSUME NEW ds, NEW es, NEW S, NEW c, AgreeOn(ds, es, S)
    PROVE  Edges(ds, S, c) = Edges(es, S, c)
<1>1. \A edge \in S \X (1 .. MaxDeps) : ds[edge[1]] = es[edge[1]]
  BY DEF AgreeOn
<1>2. EdgesTo(ds, S, c) = EdgesTo(es, S, c)
  BY <1>1 DEF EdgesTo
<1> QED BY <1>2 DEF Edges

LEMMA EdgesNone ==
    ASSUME NEW ds, NEW S \in SUBSET Checksum, NEW c,
           \A b \in S : ds[b] = <<>>
    PROVE  Edges(ds, S, c) = 0
<1>1. EdgesTo(ds, S, c) = {}
  BY DEF EdgesTo
<1> QED BY <1>1, FS_EmptySet DEF Edges

-----------------------------------------------------------------------------
(* Tables that mirror dependencies *)

Mirrors(ds, reverse, counts) ==
    /\ ds \in [Checksum -> Dependencies]
    /\ reverse \in [Checksum -> SUBSET Checksum]
    /\ counts \in [Checksum -> Nat]
    /\ \A c \in Checksum :
        /\ counts[c] = Edges(ds, Checksum, c)
        /\ reverse[c] = {b \in Checksum : c \in Range(ds[b])}

LEMMA Nobody == <<>> \in Dependencies /\ Range(<<>>) = {}
<1>1. <<>> \in [1 .. 0 -> Checksum]
  OBVIOUS
<1>2. 0 \in 0 .. MaxDeps
  BY CostAssumption
<1> QED BY <1>1, <1>2 DEF Dependencies, Range

\* _detach_dependencies of several checksums.
LEMMA DetachedMirrors ==
    ASSUME Mirrors(deps, rev, depended), NEW R \in SUBSET Checksum
    PROVE  /\ Mirrors(Detached(R).deps, Detached(R).rev, Detached(R).depended)
           /\ \A c \in R : Detached(R).deps[c] = <<>>
           /\ \A c \in Checksum \ R : Detached(R).deps[c] = deps[c]
<1> DEFINE ds == [c \in Checksum |-> IF c \in R THEN <<>> ELSE deps[c]]
           reverse == [c \in Checksum |-> rev[c] \ R]
           counts == [c \in Checksum |-> depended[c] - Edges(deps, R, c)]
<1>1. Detached(R).deps = ds /\ Detached(R).rev = reverse /\ Detached(R).depended = counts
  BY DEF Detached
<1>2. /\ \A c \in R : ds[c] = <<>>
      /\ \A c \in Checksum \ R : ds[c] = deps[c]
  OBVIOUS
<1>3. ds \in [Checksum -> Dependencies]
  BY Nobody DEF Mirrors
<1>4. reverse \in [Checksum -> SUBSET Checksum]
  BY DEF Mirrors
<1>5. ASSUME NEW c \in Checksum
      PROVE  counts[c] \in Nat /\ counts[c] = Edges(ds, Checksum, c)
  <2> HIDE DEF ds, reverse
  <2>0. AgreeOn(ds, deps, Checksum \ R)
    BY <1>2 DEF AgreeOn
  <2>1. /\ Edges(ds, R, c) = 0
        /\ Edges(ds, Checksum \ R, c) = Edges(deps, Checksum \ R, c)
    BY <1>2, <2>0, EdgesNone, EdgesSame
  <2>2. /\ Edges(ds, Checksum, c) = Edges(ds, R, c) + Edges(ds, Checksum \ R, c)
        /\ Edges(deps, Checksum, c) = Edges(deps, R, c) + Edges(deps, Checksum \ R, c)
    BY EdgesSplit
  <2>3. Edges(deps, R, c) \in Nat /\ Edges(deps, Checksum \ R, c) \in Nat
    BY EdgesFinite
  <2>4. depended[c] = Edges(deps, Checksum, c)
    BY DEF Mirrors
  <2>5. counts[c] = depended[c] - Edges(deps, R, c)
    OBVIOUS
  <2> HIDE DEF counts
  <2> QED BY <2>1, <2>2, <2>3, <2>4, <2>5
<1>6. counts \in [Checksum -> Nat]
  BY <1>5
<1>7. ASSUME NEW c \in Checksum
      PROVE  reverse[c] = {b \in Checksum : c \in Range(ds[b])}
  <2>1. rev[c] = {b \in Checksum : c \in Range(deps[b])}
    BY DEF Mirrors
  <2>2. \A b \in Checksum : c \in Range(ds[b]) <=> b \notin R /\ c \in Range(deps[b])
    BY Nobody
  <2> QED BY <2>1, <2>2
<1> HIDE DEF ds, reverse, counts
<1> QED BY <1>1, <1>2, <1>3, <1>4, <1>5, <1>6, <1>7 DEF Mirrors

\* The dependencies of a checksum that has none are set.
Attached(ds, reverse, counts, c, new, es, er, en) ==
    /\ Mirrors(ds, reverse, counts)
    /\ c \in Checksum /\ ds[c] = <<>> /\ new \in Dependencies
    /\ es = [ds EXCEPT ![c] = new]
    /\ er = [d \in Checksum |-> reverse[d] \union (IF d \in Range(new) THEN {c} ELSE {})]
    /\ en = [d \in Checksum |-> counts[d] + Edges(es, {c}, d)]

LEMMA AttachedMirrors ==
    ASSUME NEW ds, NEW reverse, NEW counts, NEW c, NEW new, NEW es, NEW er, NEW en,
           Attached(ds, reverse, counts, c, new, es, er, en)
    PROVE  Mirrors(es, er, en)
<1>1. /\ Mirrors(ds, reverse, counts)
      /\ c \in Checksum /\ ds[c] = <<>> /\ new \in Dependencies
      /\ er = [d \in Checksum |-> reverse[d] \union (IF d \in Range(new) THEN {c} ELSE {})]
      /\ en = [d \in Checksum |-> counts[d] + Edges(es, {c}, d)]
  BY DEF Attached
<1>2. /\ es \in [Checksum -> Dependencies] /\ es[c] = new
      /\ AgreeOn(es, ds, Checksum \ {c})
  BY DEF Attached, Mirrors, AgreeOn
<1>3. ASSUME NEW d \in Checksum
      PROVE  en[d] = Edges(es, Checksum, d) /\ en[d] \in Nat
  <2>1. /\ Edges(es, Checksum, d) = Edges(es, {c}, d) + Edges(es, Checksum \ {c}, d)
        /\ Edges(ds, Checksum, d) = Edges(ds, {c}, d) + Edges(ds, Checksum \ {c}, d)
    BY <1>1, EdgesSplit
  <2>2. Edges(ds, {c}, d) = 0
    BY <1>1, EdgesNone
  <2>3. Edges(es, Checksum \ {c}, d) = Edges(ds, Checksum \ {c}, d)
    BY <1>2, EdgesSame
  <2>4. /\ Edges(es, {c}, d) \in Nat /\ Edges(ds, Checksum \ {c}, d) \in Nat
        /\ Edges(es, Checksum, d) \in Nat
    BY <1>1, EdgesFinite
  <2>5. counts[d] = Edges(ds, Checksum, d) /\ en[d] = counts[d] + Edges(es, {c}, d)
    BY <1>1 DEF Mirrors
  <2> QED BY <2>1, <2>2, <2>3, <2>4, <2>5
<1>4. ASSUME NEW d \in Checksum
      PROVE  er[d] = {b \in Checksum : d \in Range(es[b])}
  <2>1. reverse[d] = {b \in Checksum : d \in Range(ds[b])}
    BY <1>1 DEF Mirrors
  <2>2. c \notin reverse[d]
    BY <1>1, <2>1, Nobody
  <2>3. er[d] = reverse[d] \union (IF d \in Range(new) THEN {c} ELSE {})
    BY <1>1
  <2>4. \A b \in Checksum \ {c} : Range(es[b]) = Range(ds[b])
    BY <1>2 DEF AgreeOn
  <2> QED BY <1>1, <1>2, <2>1, <2>2, <2>3, <2>4
<1>5. er \in [Checksum -> SUBSET Checksum] /\ en \in [Checksum -> Nat]
  BY <1>1, <1>3 DEF Mirrors
<1> QED BY <1>2, <1>3, <1>4, <1>5 DEF Mirrors

LEMMA InvMirrors == IndInv <=> Mirrors(deps, rev, depended) /\ direct \in [Checksum -> Nat]
BY DEF IndInv, GraphTyped, InterestCounted, Mirrors

-----------------------------------------------------------------------------
(* The steps *)

\* What is released is of interest as a dependency only.
LEMMA ReleasedIndirect ==
    ASSUME NEW S
    PROVE  Released(S) \subseteq {c \in Checksum : direct[c] = 0}
BY DEF Released, Indirect

LEMMA InitInv == Init => IndInv
<1> SUFFICES ASSUME Init PROVE IndInv
  OBVIOUS
<1>1. \A b \in Checksum : deps[b] = <<>>
  BY DEF Init
<1>2. \A c \in Checksum : Edges(deps, Checksum, c) = 0
  BY <1>1, EdgesNone
<1>3. \A c \in Checksum : {b \in Checksum : c \in Range(deps[b])} = {}
  BY <1>1, Nobody
<1> QED BY <1>2, <1>3, Nobody DEF Init, IndInv, GraphTyped, InterestCounted

\* remove_interest: either the counts alone change, or what it releases loses
\* its dependencies.
LEMMA RemoveInterestStep ==
    ASSUME IndInv, NEW c \in Checksum, RemoveInterest(c)
    PROVE  /\ IndInv'
           /\ \A b \in Checksum \ {c} : direct[b] > 0 => deps'[b] = deps[b]
           /\ deps' = deps \/ direct'[c] = 0
<1>1. direct' \in [Checksum -> Nat]
  BY DEF RemoveInterest, IndInv, GraphTyped
<1>2. CASE direct[c] + depended[c] > 1
  BY <1>1, <1>2, InvMirrors DEF RemoveInterest, IndInv, GraphTyped, InterestCounted
<1>3. CASE ~(direct[c] + depended[c] > 1)
  <2> DEFINE gone == {c} \union Released({c})
  <2>1. gone \in SUBSET Checksum /\ \A b \in gone \ {c} : ~(direct[b] > 0)
    BY ReleasedIndirect
  <2>2. /\ deps' = Detached(gone).deps /\ rev' = Detached(gone).rev
        /\ depended' = Detached(gone).depended
    BY <1>3 DEF RemoveInterest
  <2> HIDE DEF gone
  <2>3. /\ Mirrors(deps', rev', depended')
        /\ \A b \in Checksum \ gone : deps'[b] = deps[b]
    BY <2>1, <2>2, InvMirrors, DetachedMirrors
  <2>4. IndInv'
    BY <1>1, <2>3 DEF IndInv, GraphTyped, InterestCounted, Mirrors
  <2>5. direct'[c] = 0
    BY <1>3 DEF RemoveInterest, IndInv, GraphTyped
  <2> QED BY <2>1, <2>3, <2>4, <2>5
<1> QED BY <1>2, <1>3

\* register_dependencies: the old dependencies go, with what that releases,
\* and the new ones count.
LEMMA RegisterStep ==
    ASSUME IndInv, NEW c \in Checksum, NEW ds \in Dependencies, RegisterDependencies(c, ds)
    PROVE  /\ IndInv'
           /\ \A b \in Checksum \ {c} : direct[b] > 0 => deps'[b] = deps[b]
           /\ direct' = direct
<1> DEFINE gone == {c} \union Released({c})
           left == Detached(gone)
<1>1. gone \in SUBSET Checksum /\ c \in gone /\ \A b \in gone \ {c} : ~(direct[b] > 0)
  BY ReleasedIndirect
<1>2. /\ deps' = [left.deps EXCEPT ![c] = ds]
      /\ rev' = [d \in Checksum |-> left.rev[d] \union (IF d \in Range(ds) THEN {c} ELSE {})]
      /\ depended' = [d \in Checksum |-> left.depended[d] + Edges(deps', {c}, d)]
      /\ direct' = direct
  BY DEF RegisterDependencies
<1> HIDE DEF gone
<1>3. /\ Mirrors(left.deps, left.rev, left.depended)
      /\ left.deps[c] = <<>>
      /\ \A b \in Checksum \ gone : left.deps[b] = deps[b]
  BY <1>1, InvMirrors, DetachedMirrors
<1> HIDE DEF left
<1>4. Mirrors(deps', rev', depended')
  <2>1. PICK old, reverse, counts, es, er, en :
               /\ old = left.deps /\ reverse = left.rev /\ counts = left.depended
               /\ es = deps' /\ er = rev' /\ en = depended'
    OBVIOUS
  <2>2. Attached(old, reverse, counts, c, ds, es, er, en)
    BY <1>2, <1>3, <2>1 DEF Attached
  <2> QED BY <2>1, <2>2, AttachedMirrors
<1>5. IndInv'
  BY <1>2, <1>4 DEF IndInv, GraphTyped, InterestCounted, Mirrors
<1>6. \A b \in Checksum \ {c} : deps'[b] = left.deps[b]
  BY <1>2
<1> QED BY <1>1, <1>2, <1>3, <1>5, <1>6

\* The other actions leave the graph alone, or add an interest.
LEMMA OtherSteps ==
    ASSUME [Next]_vars
    PROVE  \/ \E c \in Checksum : RemoveInterest(c)
           \/ \E c \in Checksum, ds \in Dependencies : RegisterDependencies(c, ds)
           \/ /\ UNCHANGED <<deps, rev, depended>>
              /\ direct' = direct \/ \E c \in Checksum : direct' = [direct EXCEPT ![c] = @ + 1]
BY DEF Next, vars, graph, AddInterest, SetTerms, NotifyLength, GetCost, MarkMeasured,
       MarkDirty, ComputeCost, StoreCost

LEMMA NextInv == IndInv /\ [Next]_vars => IndInv'
<1> SUFFICES ASSUME IndInv, [Next]_vars PROVE IndInv'
  OBVIOUS
<1>1. CASE \E c \in Checksum : RemoveInterest(c)
  BY <1>1, RemoveInterestStep
<1>2. CASE \E c \in Checksum, ds \in Dependencies : RegisterDependencies(c, ds)
  BY <1>2, RegisterStep
<1>3. CASE /\ UNCHANGED <<deps, rev, depended>>
           /\ direct' = direct \/ \E c \in Checksum : direct' = [direct EXCEPT ![c] = @ + 1]
  BY <1>3 DEF IndInv, GraphTyped, InterestCounted
<1> QED BY <1>1, <1>2, <1>3, OtherSteps

-----------------------------------------------------------------------------
(* The theorems on the graph *)

\* The tables of the graph are typed and mirror each other.
THEOREM SpecIndInv == Spec => []IndInv
<1> QED BY InitInv, NextInv, PTL DEF Spec

\* The reverse table and the interest counts mirror the registered
\* dependencies, whatever is registered, released and released in turn.
THEOREM GraphMirrored == Spec => []InterestCounted
<1>1. IndInv => InterestCounted
  BY DEF IndInv
<1> QED BY <1>1, SpecIndInv, PTL

\* A checksum in the strong cache keeps its dependencies until it leaves the
\* cache or registers others.
THEOREM CachedKeepDependencies == Spec => DirectKeepsDependencies
<1> DEFINE lost == {c \in Checksum : direct[c] > 0 /\ deps'[c] # deps[c]}
           Kept == lost # {} =>
                     \E c \in Checksum : lost = {c} /\ (direct' = direct \/ direct'[c] = 0)
<1>1. ASSUME IndInv, [Next]_vars
      PROVE  Kept
  <2>1. ASSUME NEW c \in Checksum, RemoveInterest(c)
        PROVE  Kept
    <3>1. lost \subseteq {c} /\ (deps' = deps \/ direct'[c] = 0)
      BY <1>1, <2>1, RemoveInterestStep
    <3> QED BY <3>1
  <2>2. ASSUME NEW c \in Checksum, NEW ds \in Dependencies, RegisterDependencies(c, ds)
        PROVE  Kept
    <3>1. lost \subseteq {c} /\ direct' = direct
      BY <1>1, <2>2, RegisterStep
    <3> QED BY <3>1
  <2>3. CASE UNCHANGED deps
    BY <2>3
  <2> QED BY <1>1, <2>1, <2>2, <2>3, OtherSteps
<1>2. IndInv /\ [Next]_vars => [Kept]_vars
  BY <1>1
<1> QED BY <1>2, SpecIndInv, PTL DEF Spec, DirectKeepsDependencies

-----------------------------------------------------------------------------
(* Induction, from the well-foundedness of strict inclusion *)

\* A set of numbers that is not empty has a least one.
LEMMA LeastNumber ==
    ASSUME NEW T \in SUBSET Nat, T # {}
    PROVE  \E m \in T : \A n \in T : m <= n
<1> DEFINE U == {0 .. n : n \in T}
<1>1. \A n \in Nat : 0 .. n \in FiniteSubsetsOf(Nat)
  <2> TAKE n \in Nat
  <2>1. IsFiniteSet(0 .. n) /\ 0 .. n \in SUBSET Nat
    BY FS_Interval
  <2> QED BY <2>1 DEF FiniteSubsetsOf
<1>2. U \subseteq FiniteSubsetsOf(Nat) /\ U # {}
  BY <1>1
<1>3. PICK x \in U : \A y \in U : <<y, x>> \notin StrictSubsetOrdering(Nat)
  <2> HIDE DEF U
  <2> QED BY <1>2, FS_StrictSubsetOrderingWellFounded, WFMin
<1>4. PICK m \in T : x = 0 .. m
  OBVIOUS
<1>5. ASSUME NEW n \in T, n < m PROVE FALSE
  <2>1. 0 .. n \in U /\ 0 .. n \subseteq 0 .. m /\ m \in 0 .. m /\ m \notin 0 .. n
    BY <1>5
  <2>2. 0 .. n \in SUBSET Nat /\ 0 .. m \in SUBSET Nat
    OBVIOUS
  <2> QED BY <2>1, <2>2, <1>3, <1>4 DEF StrictSubsetOrdering
<1> QED BY <1>5

LEMMA Induction ==
    ASSUME NEW P \in SUBSET Nat, 0 \in P, \A n \in P : n + 1 \in P
    PROVE  P = Nat
<1> SUFFICES ASSUME Nat \ P # {} PROVE FALSE
  OBVIOUS
<1>1. PICK m \in Nat \ P : \A n \in Nat \ P : m <= n
  BY LeastNumber
<1>2. m # 0 /\ m - 1 \in Nat /\ m - 1 < m
  BY <1>1
<1>3. m - 1 \in P /\ (m - 1) + 1 = m
  BY <1>1, <1>2
<1> QED BY <1>3


\* Induction over the subsets of a finite set.
LEMMA SubsetInduction ==
    ASSUME NEW S, IsFiniteSet(S), NEW P \in SUBSET (SUBSET S),
           \A X \in SUBSET S : (\A Y \in SUBSET X : Y # X => Y \in P) => X \in P
    PROVE  P = SUBSET S
<1> SUFFICES ASSUME (SUBSET S) \ P # {} PROVE FALSE
  OBVIOUS
<1> DEFINE U == (SUBSET S) \ P
<1>1. U \subseteq FiniteSubsetsOf(S) /\ U # {}
  <2>1. FiniteSubsetsOf(S) = SUBSET S
    BY FS_FiniteSubsetsOfFinite
  <2> QED BY <2>1
<1>2. PICK X \in U : \A Y \in U : <<Y, X>> \notin StrictSubsetOrdering(S)
  <2> HIDE DEF U
  <2> QED BY <1>1, FS_StrictSubsetOrderingWellFounded, WFMin
<1>3. ASSUME NEW Y \in SUBSET X, Y # X PROVE Y \in P
  <2>1. X \in SUBSET S /\ Y \in SUBSET S
    OBVIOUS
  <2>2. <<Y, X>> \in StrictSubsetOrdering(S)
    BY <1>3, <2>1 DEF StrictSubsetOrdering
  <2> QED BY <1>2, <2>1, <2>2
<1> QED BY <1>2, <1>3

\* A recursion: the value at x needs the values of lower rank only.
Recursion(S, V, Rank, N, Step) ==
    /\ V # {} /\ N \in Nat
    /\ Rank \in [S -> Nat] /\ \A x \in S : Rank[x] < N
    /\ Step \in [S \X [S -> V] -> V]
    /\ \A x \in S : \A f, g \in [S -> V] :
           (\A y \in S : Rank[y] < Rank[x] => f[y] = g[y]) => Step[<<x, f>>] = Step[<<x, g>>]

\* A recursion defines a function.
LEMMA RecursiveFunction ==
    ASSUME NEW S, NEW V, NEW Rank, NEW N, NEW Step, Recursion(S, V, Rank, N, Step)
    PROVE  \E f \in [S -> V] : \A x \in S : f[x] = Step[<<x, f>>]
<1> USE DEF Recursion
<1> DEFINE Good(n, f) == \A x \in S : Rank[x] < n => f[x] = Step[<<x, f>>]
           P == {n \in Nat : \E f \in [S -> V] : Good(n, f)}
<1>1. 0 \in P
  <2>1. PICK v \in V : TRUE
    OBVIOUS
  <2>2. [x \in S |-> v] \in [S -> V] /\ Good(0, [x \in S |-> v])
    OBVIOUS
  <2> QED BY <2>2
<1>2. ASSUME NEW n \in P PROVE n + 1 \in P
  <2>1. PICK f \in [S -> V] : Good(n, f)
    OBVIOUS
  <2> DEFINE g == [x \in S |-> Step[<<x, f>>]]
  <2>2. \A x \in S : <<x, f>> \in S \X [S -> V]
    OBVIOUS
  <2>3. g \in [S -> V] /\ \A x \in S : g[x] = Step[<<x, f>>]
    BY <2>2
  <2> HIDE DEF g
  <2>4. ASSUME NEW x \in S, Rank[x] < n + 1
        PROVE  g[x] = Step[<<x, g>>]
    <3>1. ASSUME NEW y \in S, Rank[y] < Rank[x] PROVE f[y] = g[y]
      <4>1. Rank[y] \in Nat /\ Rank[x] \in Nat /\ n \in Nat
        OBVIOUS
      <4>2. Rank[y] < n
        BY <2>4, <3>1, <4>1
      <4> QED BY <2>1, <2>3, <4>2
    <3>2. Step[<<x, f>>] = Step[<<x, g>>]
      BY <2>3, <3>1
    <3> QED BY <2>3, <3>2
  <2>5. Good(n + 1, g)
    BY <2>4
  <2> QED BY <2>3, <2>5
<1>3. P \in SUBSET Nat
  OBVIOUS
<1>4. P = Nat
  <2> HIDE DEF P
  <2> QED BY <1>1, <1>2, <1>3, Induction
<1>5. PICK f \in [S -> V] : Good(N, f)
  BY <1>4
<1> QED BY <1>5

-----------------------------------------------------------------------------
(* What one checksum costs *)

LEMMA MaxIn ==
    ASSUME NEW n \in Nat, NEW X \in SUBSET (1 .. n), X # {}
    PROVE  Max(X) \in X
<1> DEFINE T == {n - x : x \in X}
<1>1. T \in SUBSET Nat /\ T # {}
  <2>1. \A x \in X : n - x \in Nat
    OBVIOUS
  <2> QED BY <2>1
<1>2. PICK m \in T : \A k \in T : m <= k
  <2> HIDE DEF T
  <2> QED BY <1>1, LeastNumber
<1>3. PICK x \in X : m = n - x
  OBVIOUS
<1>4. ASSUME NEW y \in X PROVE x >= y
  <2>1. n - y \in T /\ x \in Nat /\ y \in Nat
    OBVIOUS
  <2>2. n - x <= n - y
    BY <1>2, <1>3, <2>1
  <2> QED BY <2>1, <2>2
<1>5. \E x1 \in X : \A y \in X : x1 >= y
  BY <1>3, <1>4
<1> QED BY <1>5, Zenon DEF Max

\* A sum over the elements of a set, the top one of what is left first.
Sums(g, D, top, w) ==
    g = [X \in SUBSET D |-> IF X = {} THEN 0 ELSE g[X \ {top[X]}] + w[top[X]]]

LEMMA SumExists ==
    ASSUME NEW D, IsFiniteSet(D), NEW top, \A X \in SUBSET D : X # {} => top[X] \in X,
           NEW w \in [D -> Nat]
    PROVE  \E g : Sums(g, D, top, w)
<1> DEFINE S == SUBSET D
           Rank == [X \in S |-> Cardinality(X)]
           At(X, g) == IF X = {} THEN 0 ELSE g[X \ {top[X]}] + w[top[X]]
           Step == [x \in S \X [S -> Nat] |-> At(x[1], x[2])]
<1>1. \A X \in S : IsFiniteSet(X) /\ Cardinality(X) \in Nat /\ Cardinality(X) < Cardinality(D) + 1
  <2> TAKE X \in S
  <2>1. IsFiniteSet(X) /\ Cardinality(X) <= Cardinality(D)
    BY FS_Subset
  <2>2. Cardinality(X) \in Nat /\ Cardinality(D) \in Nat
    BY <2>1, FS_CardinalityType
  <2> QED BY <2>1, <2>2
<1>2. Rank \in [S -> Nat] /\ \A X \in S : Rank[X] = Cardinality(X)
  BY <1>1
<1>3. \A X \in S : X # {} =>
          top[X] \in D /\ X \ {top[X]} \in S /\ Rank[X \ {top[X]}] < Rank[X]
  <2> SUFFICES ASSUME NEW X \in S, X # {}
               PROVE  top[X] \in D /\ X \ {top[X]} \in S /\ Rank[X \ {top[X]}] < Rank[X]
    OBVIOUS
  <2>1. top[X] \in X
    OBVIOUS
  <2>2. Cardinality(X \ {top[X]}) = Cardinality(X) - 1
    BY <1>1, <2>1, FS_RemoveElement
  <2>3. X \ {top[X]} \in S /\ top[X] \in D
    BY <2>1
  <2> HIDE DEF Rank
  <2> QED BY <1>1, <1>2, <2>2, <2>3
<1> HIDE DEF Rank
<1>4. \A X \in S : \A g \in [S -> Nat] : At(X, g) \in Nat
  <2> TAKE X \in S
  <2> TAKE g \in [S -> Nat]
  <2>1. CASE X # {}
    <3>1. top[X] \in D /\ X \ {top[X]} \in S
      BY <1>3, <2>1
    <3> HIDE DEF S
    <3>2. g[X \ {top[X]}] \in Nat /\ w[top[X]] \in Nat
      BY <3>1
    <3> QED BY <2>1, <3>2
  <2>2. CASE X = {}
    BY <2>2
  <2> QED BY <2>1, <2>2
<1> HIDE DEF S, At
<1>5. /\ Step \in [S \X [S -> Nat] -> Nat]
      /\ \A X \in S : \A g \in [S -> Nat] : Step[<<X, g>>] = At(X, g)
  <2>1. \A x \in S \X [S -> Nat] : At(x[1], x[2]) \in Nat
    BY <1>4
  <2> QED BY <2>1
<1> HIDE DEF Step
<1>6. \A X \in S : \A f, g \in [S -> Nat] :
         (\A Y \in S : Rank[Y] < Rank[X] => f[Y] = g[Y]) => At(X, f) = At(X, g)
  BY <1>3 DEF At
<1>7. \A X \in S : \A f, g \in [S -> Nat] :
         (\A Y \in S : Rank[Y] < Rank[X] => f[Y] = g[Y]) => Step[<<X, f>>] = Step[<<X, g>>]
  <2> TAKE X \in S
  <2> TAKE f, g \in [S -> Nat]
  <2> HAVE \A Y \in S : Rank[Y] < Rank[X] => f[Y] = g[Y]
  <2>1. At(X, f) = At(X, g)
    BY <1>6
  <2> HIDE DEF At
  <2> QED BY <1>5, <2>1
<1>8. Cardinality(D) + 1 \in Nat /\ Nat # {} /\ \A X \in S : Rank[X] < Cardinality(D) + 1
  <2>1. Cardinality(D) \in Nat
    BY FS_CardinalityType
  <2> QED BY <1>1, <1>2, <2>1
<1>9. PICK f \in [S -> Nat] : \A X \in S : f[X] = Step[<<X, f>>]
  <2>1. Recursion(S, Nat, Rank, Cardinality(D) + 1, Step)
    BY <1>2, <1>5, <1>7, <1>8, Zenon DEF Recursion
  <2> QED BY <2>1, RecursiveFunction
<1>10. \A X \in S : f[X] = At(X, f)
  BY <1>5, <1>9
<1>11. Sums(f, D, top, w)
  BY <1>10 DEF Sums, S, At
<1> QED BY <1>11

LEMMA SumTyped ==
    ASSUME NEW D, IsFiniteSet(D), NEW top, \A X \in SUBSET D : X # {} => top[X] \in X,
           NEW w \in [D -> Nat], NEW g, Sums(g, D, top, w)
    PROVE  g \in [SUBSET D -> Nat]
<1> DEFINE P == {X \in SUBSET D : g[X] \in Nat}
<1>1. ASSUME NEW X \in SUBSET D, \A Y \in SUBSET X : Y # X => Y \in P
      PROVE  X \in P
  <2>1. CASE X # {}
    <3>1. top[X] \in X /\ w[top[X]] \in Nat
      BY <2>1
    <3>2. X \ {top[X]} \in P
      BY <1>1, <3>1
    <3>3. g[X] = g[X \ {top[X]}] + w[top[X]]
      BY <2>1 DEF Sums
    <3> QED BY <3>1, <3>2, <3>3
  <2>2. CASE X = {}
    BY <2>2 DEF Sums
  <2> QED BY <2>1, <2>2
<1>2. P \in SUBSET (SUBSET D)
  OBVIOUS
<1>3. P = SUBSET D
  <2> HIDE DEF P
  <2> QED BY <1>1, <1>2, SubsetInduction
<1> QED BY <1>3 DEF Sums

Total(v, s) == FoldLeft(LAMBDA total, d : total + v[d], 0, s)

\* The sum of the costs of the dependencies.
LEMMA TotalTyped ==
    ASSUME NEW n \in Nat, NEW s, DOMAIN s = 1 .. n, NEW v, \A i \in 1 .. n : v[s[i]] \in Nat
    PROVE  Total(v, s) \in Nat
<1> DEFINE D == DOMAIN s
           top == [X \in SUBSET D |-> Max(X)]
           w == [i \in D |-> v[s[i]]]
           Added(g) == g = [X \in SUBSET D |-> IF X = {} THEN 0 ELSE g[X \ {Max(X)}] + v[s[Max(X)]]]
           g == CHOOSE h : Added(h)
<1>1. IsFiniteSet(D) /\ w \in [D -> Nat]
  <2>1. n \in Int /\ 1 \in Int
    OBVIOUS
  <2> QED BY <2>1, FS_Interval
<1>2. \A X \in SUBSET D : X # {} => top[X] \in X
  BY MaxIn
<1>3. \A h : Added(h) <=> Sums(h, D, top, w)
  <2> TAKE h
  <2>1. ASSUME NEW X \in SUBSET D
        PROVE  (IF X = {} THEN 0 ELSE h[X \ {Max(X)}] + v[s[Max(X)]])
                  = (IF X = {} THEN 0 ELSE h[X \ {top[X]}] + w[top[X]])
    <3>1. X # {} => Max(X) \in D
      BY <1>2
    <3>2. top[X] = Max(X)
      OBVIOUS
    <3>3. X # {} => w[Max(X)] = v[s[Max(X)]]
      BY <3>1
    <3> HIDE DEF w, top
    <3> QED BY <3>2, <3>3
  <2> HIDE DEF w, top
  <2> QED BY <2>1, Zenon DEF Sums
<1>4. Added(g)
  <2>1. \E h : Added(h)
    <3> HIDE DEF w, top, Added, D
    <3> QED BY <1>1, <1>2, <1>3, SumExists
  <2> HIDE DEF Added
  <2> QED BY <2>1
<1>5. Total(v, s) = g[D]
  BY DEF Total, FoldLeft, MapThenFoldSet
<1>6. g \in [SUBSET D -> Nat]
  <2> HIDE DEF w, top, Added, D, g
  <2> QED BY <1>1, <1>2, <1>3, <1>4, SumTyped
<1> QED BY <1>5, <1>6

InputsTyped ==
    /\ length \in [Checksum -> Nat \union {None}]
    /\ terms \in [Checksum -> Terms]
    /\ deps \in [Checksum -> Dependencies]

LEMMA DownloadTyped ==
    ASSUME InputsTyped, NEW c \in Checksum, length[c] # None
    PROVE  Download(c) \in Nat
<1>1. length[c] \in Nat /\ terms[c] \in Terms
  BY DEF InputsTyped
<1>2. terms[c].profile \in {"read", "remote"} /\ terms[c].manual \in Nat \union {None}
  BY <1>1 DEF Terms, Profile
<1>3. CASE terms[c].profile = "read"
  BY <1>1, <1>2, <1>3 DEF Download, Profile
<1>4. CASE terms[c].profile = "remote"
  BY <1>1, <1>2, <1>4 DEF Download, Profile
<1> QED BY <1>2, <1>3, <1>4

\* _compute_cost: infinite without a length, and with a dependency that is.
LEMMA OwnCostIs ==
    ASSUME InputsTyped, NEW c \in Checksum, NEW f \in [Range(deps[c]) -> Costs]
    PROVE  /\ OwnCost(c, f) \in Costs
           /\ OwnCost(c, f) = Inf <=> length[c] = None \/ \E d \in Range(deps[c]) : f[d] = Inf
<1> DEFINE infinite == length[c] = None \/ \E d \in Range(deps[c]) : f[d] = Inf
           sum == Total(f, deps[c])
           base == IF deps[c] # <<>> /\ sum > Download(c) THEN sum ELSE Download(c)
<1>1. OwnCost(c, f) = IF infinite THEN Inf ELSE base + terms[c].cpu
  BY DEF OwnCost, Total
<1>2. CASE ~infinite
  <2>0. deps[c] \in Dependencies
    BY DEF InputsTyped
  <2>1. PICK n \in 0 .. MaxDeps : deps[c] \in [1 .. n -> Checksum]
    BY <2>0, Zenon DEF Dependencies
  <2>2. \A i \in 1 .. n : f[deps[c][i]] \in Nat
    BY <1>2, <2>1 DEF Costs, Range
  <2>3. sum \in Nat
    <3>1. n \in Nat /\ DOMAIN deps[c] = 1 .. n
      BY <2>1, CostAssumption
    <3> QED BY <2>2, <3>1, TotalTyped
  <2>4. Download(c) \in Nat /\ terms[c].cpu \in Nat
    BY <1>2, DownloadTyped DEF InputsTyped, Terms
  <2> HIDE DEF sum
  <2>5. base + terms[c].cpu \in Nat
    BY <2>3, <2>4
  <2> HIDE DEF base
  <2> QED BY <1>1, <1>2, <2>5, CostAssumption DEF Costs
<1>3. CASE infinite
  BY <1>1, <1>3 DEF Costs
<1> QED BY <1>2, <1>3

-----------------------------------------------------------------------------
(* _ensure_cost *)

\* Induction from larger sets of checksums to smaller ones: those that are
\* being computed grow on the way down.
LEMMA OutsideIn ==
    ASSUME NEW P \in SUBSET (SUBSET Checksum),
           \A X \in SUBSET Checksum : (\A c \in Checksum \ X : X \union {c} \in P) => X \in P
    PROVE  P = SUBSET Checksum
<1> DEFINE Q == {X \in SUBSET Checksum : Checksum \ X \in P}
<1>1. ASSUME NEW X \in SUBSET Checksum, \A Y \in SUBSET X : Y # X => Y \in Q
      PROVE  X \in Q
  <2> DEFINE Z == Checksum \ X
  <2>1. ASSUME NEW c \in Checksum \ Z PROVE Z \union {c} \in P
    <3>1. X \ {c} \in SUBSET X /\ X \ {c} # X
      BY <2>1
    <3>3. X \ {c} \in Q
      BY <1>1, <3>1
    <3>2. Checksum \ (X \ {c}) = Z \union {c}
      BY <2>1
    <3> QED BY <3>2, <3>3
  <2> QED BY <2>1
<1>2. Q \in SUBSET (SUBSET Checksum)
  OBVIOUS
<1>3. Q = SUBSET Checksum
  <2> HIDE DEF Q
  <2> QED BY <1>1, <1>2, SubsetInduction, CostAssumption
<1>4. ASSUME NEW X \in SUBSET Checksum PROVE X \in P
  <2>1. Checksum \ X \in Q /\ Checksum \ (Checksum \ X) = X
    BY <1>3
  <2> QED BY <2>1
<1> QED BY <1>4

Caches == [Checksum -> Costs \union {None}]
Pairs == Checksum \X SUBSET Checksum

Ensured(cached, f, c, computing) ==
    IF cached[c] # None THEN cached[c]
    ELSE IF c \in computing THEN Inf
    ELSE OwnCost(c, [d \in Range(deps[c]) |-> f[<<d, computing \union {c}>>]])

Evaluates(f, cached) == f = [x \in Pairs |-> Ensured(cached, f, x[1], x[2])]

LEMMA DepsIn == InputsTyped => \A c \in Checksum : Range(deps[c]) \subseteq Checksum
<1> SUFFICES ASSUME InputsTyped, NEW c \in Checksum PROVE Range(deps[c]) \subseteq Checksum
  OBVIOUS
<1>1. deps[c] \in Dependencies
  BY DEF InputsTyped
<1>2. PICK n \in 0 .. MaxDeps : deps[c] \in [1 .. n -> Checksum]
  BY <1>1, Zenon DEF Dependencies
<1> QED BY <1>2 DEF Range

LEMMA EnsuredTyped ==
    ASSUME InputsTyped, NEW cached \in Caches, NEW f, NEW c \in Checksum, NEW X,
           \A d \in Range(deps[c]) : c \notin X => f[<<d, X \union {c}>>] \in Costs
    PROVE  Ensured(cached, f, c, X) \in Costs
<1>1. Inf \in Costs /\ cached[c] \in Costs \union {None}
  BY DEF Costs, Caches
<1>2. CASE c \notin X
  <2> DEFINE g == [d \in Range(deps[c]) |-> f[<<d, X \union {c}>>]]
  <2>1. g \in [Range(deps[c]) -> Costs]
    BY <1>2
  <2> HIDE DEF g
  <2>2. OwnCost(c, g) \in Costs
    BY <2>1, OwnCostIs
  <2> QED BY <1>1, <2>2 DEF Ensured, g
<1>3. CASE c \in X
  BY <1>1, <1>3 DEF Ensured
<1> QED BY <1>2, <1>3

\* The recursive function of CostsWith exists: who is computed has one more
\* checksum that is being computed further out, or is being computed itself.
LEMMA EvaluationExists ==
    ASSUME InputsTyped, NEW cached \in Caches
    PROVE  \E f : Evaluates(f, cached)
<1> DEFINE Rank == [x \in Pairs |-> Cardinality(Checksum \ x[2])]
           Step == [y \in Pairs \X [Pairs -> Costs] |-> Ensured(cached, y[2], y[1][1], y[1][2])]
<1>1. Cardinality(Checksum) \in Nat
  BY CostAssumption, FS_CardinalityType
<1>2. ASSUME NEW X \in SUBSET Checksum
      PROVE  /\ IsFiniteSet(Checksum \ X) /\ Cardinality(Checksum \ X) \in Nat
             /\ Cardinality(Checksum \ X) < Cardinality(Checksum) + 1
  <2>1. Checksum \ X \in SUBSET Checksum
    OBVIOUS
  <2>2. IsFiniteSet(Checksum \ X) /\ Cardinality(Checksum \ X) <= Cardinality(Checksum)
    BY <2>1, CostAssumption, FS_Subset
  <2>3. Cardinality(Checksum \ X) \in Nat
    BY <2>2, FS_CardinalityType
  <2> QED BY <1>1, <2>2, <2>3
<1>3. \A x \in Pairs : x = <<x[1], x[2]>> /\ x[1] \in Checksum /\ x[2] \in SUBSET Checksum
  BY DEF Pairs
<1>4. Rank \in [Pairs -> Nat] /\ \A x \in Pairs : Rank[x] < Cardinality(Checksum) + 1
  BY <1>2, <1>3
<1>5. ASSUME NEW c \in Checksum, NEW X \in SUBSET Checksum, c \notin X,
             NEW d \in Range(deps[c])
      PROVE  <<d, X \union {c}>> \in Pairs /\ Rank[<<d, X \union {c}>>] < Rank[<<c, X>>]
  <2>1. <<d, X \union {c}>> \in Pairs /\ <<c, X>> \in Pairs
    BY DepsIn DEF Pairs
  <2>2. Checksum \ (X \union {c}) = (Checksum \ X) \ {c}
    OBVIOUS
  <2>3. Cardinality((Checksum \ X) \ {c}) = Cardinality(Checksum \ X) - 1
    BY <1>2, <1>5, FS_RemoveElement
  <2>4. /\ Rank[<<d, X \union {c}>>] = Cardinality((Checksum \ X) \ {c})
        /\ Rank[<<c, X>>] = Cardinality(Checksum \ X)
    BY <2>1, <2>2
  <2>5. Cardinality(Checksum \ X) \in Nat
    BY <1>2
  <2> HIDE DEF Rank
  <2> QED BY <2>1, <2>3, <2>4, <2>5
<1> HIDE DEF Rank
<1>6. \A x \in Pairs : \A f \in [Pairs -> Costs] : Ensured(cached, f, x[1], x[2]) \in Costs
  <2> TAKE x \in Pairs
  <2> TAKE f \in [Pairs -> Costs]
  <2>1. \A d \in Range(deps[x[1]]) : x[1] \notin x[2] => f[<<d, x[2] \union {x[1]}>>] \in Costs
    BY <1>3, <1>5
  <2> QED BY <1>3, <2>1, EnsuredTyped
<1>7. /\ Step \in [Pairs \X [Pairs -> Costs] -> Costs]
      /\ \A x \in Pairs : \A f \in [Pairs -> Costs] :
             Step[<<x, f>>] = Ensured(cached, f, x[1], x[2])
  <2> DEFINE Value(x, f) == Ensured(cached, f, x[1], x[2])
  <2>1. \A x \in Pairs : \A f \in [Pairs -> Costs] : Value(x, f) \in Costs
    BY <1>6
  <2>2. Step = [y \in Pairs \X [Pairs -> Costs] |-> Value(y[1], y[2])]
    OBVIOUS
  <2> HIDE DEF Value, Step
  <2>3. /\ Step \in [Pairs \X [Pairs -> Costs] -> Costs]
        /\ \A x \in Pairs : \A f \in [Pairs -> Costs] : Step[<<x, f>>] = Value(x, f)
    <3>1. \A y \in Pairs \X [Pairs -> Costs] : Value(y[1], y[2]) \in Costs
      BY <2>1
    <3> QED BY <2>2, <3>1
  <2> QED BY <2>3 DEF Value
<1> HIDE DEF Step
<1>8. ASSUME NEW x \in Pairs, NEW f \in [Pairs -> Costs], NEW g \in [Pairs -> Costs],
             \A y \in Pairs : Rank[y] < Rank[x] => f[y] = g[y]
      PROVE  Step[<<x, f>>] = Step[<<x, g>>]
  <2> DEFINE c == x[1] X == x[2]
  <2>1. c \in Checksum /\ X \in SUBSET Checksum /\ x = <<c, X>>
    BY <1>3
  <2> HIDE DEF c, X
  <2>2. CASE c \notin X
    <3>1. \A d \in Range(deps[c]) : f[<<d, X \union {c}>>] = g[<<d, X \union {c}>>]
      BY <1>5, <1>8, <2>1, <2>2
    <3>2. [d \in Range(deps[c]) |-> f[<<d, X \union {c}>>]]
             = [d \in Range(deps[c]) |-> g[<<d, X \union {c}>>]]
      BY <3>1
    <3>3. Ensured(cached, f, c, X) = Ensured(cached, g, c, X)
      BY <3>2 DEF Ensured
    <3> QED BY <1>7, <3>3 DEF c, X
  <2>3. CASE c \in X
    <3>1. Ensured(cached, f, c, X) = Ensured(cached, g, c, X)
      BY <2>3 DEF Ensured
    <3> QED BY <1>7, <3>1 DEF c, X
  <2> QED BY <2>2, <2>3
<1>9. Recursion(Pairs, Costs, Rank, Cardinality(Checksum) + 1, Step)
  <2>1. Costs # {} /\ Cardinality(Checksum) + 1 \in Nat
    BY <1>1 DEF Costs
  <2> QED BY <1>4, <1>7, <1>8, <2>1 DEF Recursion
<1>10. PICK f \in [Pairs -> Costs] : \A x \in Pairs : f[x] = Step[<<x, f>>]
  BY <1>9, RecursiveFunction
<1>11. \A x \in Pairs : f[x] = Ensured(cached, f, x[1], x[2])
  BY <1>7, <1>10
<1> QED BY <1>11 DEF Evaluates

LEMMA Unfolded ==
    ASSUME NEW f, NEW cached, Evaluates(f, cached)
    PROVE  \A c \in Checksum : \A X \in SUBSET Checksum :
               f[<<c, X>>] = Ensured(cached, f, c, X)
BY DEF Evaluates, Pairs


LEMMA EvaluationTyped ==
    ASSUME InputsTyped, NEW cached \in Caches, NEW f, Evaluates(f, cached)
    PROVE  \A X \in SUBSET Checksum : \A c \in Checksum : f[<<c, X>>] \in Costs
<1> DEFINE P == {X \in SUBSET Checksum : \A c \in Checksum : f[<<c, X>>] \in Costs}
<1>1. ASSUME NEW X \in SUBSET Checksum, \A c \in Checksum \ X : X \union {c} \in P
      PROVE  X \in P
  <2>1. ASSUME NEW c \in Checksum PROVE f[<<c, X>>] \in Costs
    <3>1. \A d \in Range(deps[c]) : c \notin X => f[<<d, X \union {c}>>] \in Costs
      BY <1>1, DepsIn
    <3>2. Ensured(cached, f, c, X) \in Costs
      BY <3>1, EnsuredTyped
    <3> QED BY <3>2, Unfolded
  <2> QED BY <2>1
<1>2. P \in SUBSET (SUBSET Checksum)
  OBVIOUS
<1>3. P = SUBSET Checksum
  <2> HIDE DEF P
  <2> QED BY <1>1, <1>2, OutsideIn
<1> QED BY <1>3

\* What is cached, and what is being computed further out.
LEMMA EvaluatedLeaf ==
    ASSUME NEW cached, NEW f, Evaluates(f, cached), NEW c \in Checksum, NEW X \in SUBSET Checksum
    PROVE  /\ cached[c] # None => f[<<c, X>>] = cached[c]
           /\ cached[c] = None /\ c \in X => f[<<c, X>>] = Inf
<1>1. f[<<c, X>>] = Ensured(cached, f, c, X)
  BY Unfolded
<1> QED BY <1>1 DEF Ensured

\* What is computed.
LEMMA EvaluatedNode ==
    ASSUME NEW cached, NEW f, Evaluates(f, cached),
           NEW c \in Checksum, NEW X \in SUBSET Checksum, cached[c] = None, c \notin X
    PROVE  f[<<c, X>>] = OwnCost(c, [d \in Range(deps[c]) |-> f[<<d, X \union {c}>>]])
BY Unfolded DEF Ensured

InfiniteAsParts(f, c, X) ==
    f[<<c, X>>] = Inf <=> \/ length[c] = None
                          \/ \E d \in Range(deps[c]) : f[<<d, X \union {c}>>] = Inf

LEMMA EvaluatedFinite ==
    ASSUME InputsTyped, NEW cached \in Caches, NEW f, Evaluates(f, cached),
           NEW c \in Checksum, NEW X \in SUBSET Checksum, cached[c] = None, c \notin X
    PROVE  InfiniteAsParts(f, c, X)
<1> DEFINE g == [d \in Range(deps[c]) |-> f[<<d, X \union {c}>>]]
<1>1. X \union {c} \in SUBSET Checksum /\ Range(deps[c]) \subseteq Checksum
  BY DepsIn
<1>2. g \in [Range(deps[c]) -> Costs]
  BY <1>1, EvaluationTyped
<1>3. \A d \in Range(deps[c]) : g[d] = f[<<d, X \union {c}>>]
  OBVIOUS
<1>4. f[<<c, X>>] = OwnCost(c, g)
  BY EvaluatedNode
<1> HIDE DEF g
<1>5. OwnCost(c, g) = Inf <=> length[c] = None \/ \E d \in Range(deps[c]) : g[d] = Inf
  BY <1>2, OwnCostIs
<1> QED BY <1>3, <1>4, <1>5 DEF InfiniteAsParts

\* What has a finite cost: every checksum that the dependencies reach has a
\* length, and none of them lies on a cycle.  The least set of this kind.
Closing(H) ==
    \A c \in Checksum : length[c] # None /\ Range(deps[c]) \subseteq H => c \in H
Grounded == {c \in Checksum : \A H \in SUBSET Checksum : Closing(H) => c \in H}

LEMMA GroundedLeast == \A H \in SUBSET Checksum : Closing(H) => Grounded \subseteq H
BY DEF Grounded

LEMMA GroundedIs ==
    \A c \in Checksum : c \in Grounded <=> length[c] # None /\ Range(deps[c]) \subseteq Grounded
<1>1. Closing(Grounded)
  <2> SUFFICES ASSUME NEW c \in Checksum, length[c] # None, Range(deps[c]) \subseteq Grounded,
                      NEW H \in SUBSET Checksum, Closing(H)
               PROVE  c \in H
    BY DEF Closing, Grounded
  <2>1. Range(deps[c]) \subseteq H
    BY GroundedLeast
  <2> QED BY <2>1 DEF Closing
<1> DEFINE H == {c \in Grounded : length[c] # None /\ Range(deps[c]) \subseteq Grounded}
<1>2. Closing(H) /\ H \in SUBSET Checksum
  <2>1. H \subseteq Grounded /\ Grounded \subseteq Checksum
    BY DEF Grounded
  <2> QED BY <1>1, <2>1 DEF Closing
<1>3. Grounded \subseteq H
  <2> HIDE DEF H
  <2> QED BY <1>2, GroundedLeast
<1>4. ASSUME NEW c \in Grounded PROVE length[c] # None /\ Range(deps[c]) \subseteq Grounded
  BY <1>3
<1> QED BY <1>1, <1>4 DEF Closing

\* R is closed under dependencies.
ClosedDown(R) == R \subseteq Checksum /\ \A c \in R : Range(deps[c]) \subseteq R

\* What is cached is infinite where it should be.
HonestIn(cached, R) ==
    /\ ClosedDown(R)
    /\ \A c \in R : cached[c] # None => (cached[c] = Inf <=> c \notin Grounded)

\* What is not grounded costs Inf, whoever is being computed.
LEMMA UngroundedInfinite ==
    ASSUME InputsTyped, NEW cached \in Caches, NEW f, Evaluates(f, cached),
           NEW R, HonestIn(cached, R)
    PROVE  \A X \in SUBSET Checksum : \A c \in R \ Grounded : f[<<c, X>>] = Inf
<1> DEFINE P == {X \in SUBSET Checksum : \A c \in R \ Grounded : f[<<c, X>>] = Inf}
<1>1. ASSUME NEW X \in SUBSET Checksum, \A c \in Checksum \ X : X \union {c} \in P
      PROVE  X \in P
  <2>1. ASSUME NEW c \in R \ Grounded PROVE f[<<c, X>>] = Inf
    <3>1. c \in Checksum /\ Range(deps[c]) \subseteq R
      BY DEF HonestIn, ClosedDown
    <3>2. CASE cached[c] = None /\ c \notin X
      <4> USE <3>2
      <4>a. InfiniteAsParts(f, c, X)
        BY <3>1, EvaluatedFinite
      <4>1. CASE length[c] # None
        <5>1. PICK d \in Range(deps[c]) : d \notin Grounded
          BY <3>1, <4>1, GroundedIs
        <5>2. d \in R \ Grounded
          BY <3>1, <5>1
        <5>3. f[<<d, X \union {c}>>] = Inf
          BY <1>1, <3>1, <3>2, <5>2
        <5> QED BY <4>a, <5>1, <5>3 DEF InfiniteAsParts
      <4>2. CASE length[c] = None
        BY <4>a, <4>2 DEF InfiniteAsParts
      <4> QED BY <4>1, <4>2
    <3>3. CASE cached[c] # None
      BY <3>1, <3>3, EvaluatedLeaf DEF HonestIn
    <3>4. CASE cached[c] = None /\ c \in X
      BY <3>1, <3>4, EvaluatedLeaf
    <3> QED BY <3>2, <3>3, <3>4
  <2> QED BY <2>1
<1>2. P \in SUBSET (SUBSET Checksum)
  OBVIOUS
<1>3. P = SUBSET Checksum
  <2> HIDE DEF P
  <2> QED BY <1>1, <1>2, OutsideIn
<1> QED BY <1>3

\* What is grounded has a finite cost while nothing that it reaches is being
\* computed.
LEMMA GroundedFinite ==
    ASSUME InputsTyped, NEW cached \in Caches, NEW f, Evaluates(f, cached),
           NEW R, HonestIn(cached, R)
    PROVE  \A c \in R \intersect Grounded : f[<<c, {}>>] # Inf
<1> DEFINE Fine(K) == \A X \in SUBSET Checksum :
                         X \intersect K = {} => \A c \in K : f[<<c, X>>] # Inf
           U == UNION {K \in SUBSET R : Fine(K)}
           H == {c \in Grounded : c \in R => c \in U}
<1>1. U \in SUBSET R /\ R \subseteq Checksum
  BY DEF HonestIn, ClosedDown
<1>2. Fine(U)
  <2> SUFFICES ASSUME NEW X \in SUBSET Checksum, X \intersect U = {}, NEW c \in U
               PROVE  f[<<c, X>>] # Inf
    OBVIOUS
  <2>1. PICK K \in SUBSET R : Fine(K) /\ c \in K
    OBVIOUS
  <2>2. K \subseteq U
    BY <2>1
  <2> QED BY <2>1, <2>2
<1>3. ASSUME NEW K \in SUBSET R, Fine(K) PROVE K \subseteq U
  BY <1>3
<1> HIDE DEF U
<1>4. ASSUME NEW c \in Checksum, length[c] # None, Range(deps[c]) \subseteq H
      PROVE  c \in H
  <2>1. c \in Grounded
    BY <1>4, GroundedIs
  <2> SUFFICES ASSUME c \in R, c \notin U PROVE FALSE
    BY <2>1
  <2>2. Range(deps[c]) \subseteq U
    BY <1>4 DEF HonestIn, ClosedDown
  <2> DEFINE K == U \union {c}
  <2>3. ASSUME NEW X \in SUBSET Checksum, X \intersect K = {} PROVE f[<<c, X>>] # Inf
    <3>1. c \notin X /\ X \union {c} \in SUBSET Checksum /\ (X \union {c}) \intersect U = {}
      BY <2>3
    <3>2. \A d \in Range(deps[c]) : f[<<d, X \union {c}>>] # Inf
      BY <1>2, <2>2, <3>1
    <3>3. cached[c] # None => cached[c] # Inf
      BY <2>1 DEF HonestIn
    <3>4. CASE cached[c] = None
      <4>1. InfiniteAsParts(f, c, X)
        BY <3>1, <3>4, EvaluatedFinite
      <4> QED BY <1>4, <3>2, <4>1 DEF InfiniteAsParts
    <3>5. CASE cached[c] # None
      BY <3>3, <3>5, EvaluatedLeaf
    <3> QED BY <3>4, <3>5
  <2>4. Fine(K)
    <3> SUFFICES ASSUME NEW X \in SUBSET Checksum, X \intersect K = {}, NEW e \in K
                 PROVE  f[<<e, X>>] # Inf
      OBVIOUS
    <3>1. X \intersect U = {}
      OBVIOUS
    <3>2. CASE e \in U
      BY <1>2, <3>1, <3>2
    <3> QED BY <2>3, <3>2
  <2>5. K \in SUBSET R
    BY <1>1
  <2> QED BY <1>3, <2>4, <2>5
<1>5. Closing(H) /\ H \in SUBSET Checksum
  <2>1. H \in SUBSET Checksum
    BY DEF Grounded
  <2> HIDE DEF H
  <2> QED BY <1>4, <2>1 DEF Closing
<1>6. Grounded \subseteq H
  <2> HIDE DEF H
  <2> QED BY <1>5, GroundedLeast
<1>7. {} \in SUBSET Checksum /\ {} \intersect U = {}
  OBVIOUS
<1> QED BY <1>2, <1>6, <1>7

\* A table of what everything costs.
Settled(V) ==
    /\ V \in [Checksum -> Costs]
    /\ \A c \in Checksum : V[c] = Inf <=> c \notin Grounded
    /\ \A c \in Grounded : V[c] = OwnCost(c, [d \in Range(deps[c]) |-> V[d]])

\* What is cached in R is what the table says.
AgreesIn(cached, V, R) ==
    ClosedDown(R) /\ \A c \in R : cached[c] # None => cached[c] = V[c]

LEMMA FiniteAsSettled ==
    ASSUME InputsTyped, NEW cached \in Caches, NEW f, Evaluates(f, cached),
           NEW V, Settled(V), NEW R, AgreesIn(cached, V, R)
    PROVE  \A X \in SUBSET Checksum : \A c \in R : f[<<c, X>>] \in {Inf, V[c]}
<1> DEFINE P == {X \in SUBSET Checksum : \A c \in R : f[<<c, X>>] \in {Inf, V[c]}}
<1>1. ASSUME NEW X \in SUBSET Checksum, \A c \in Checksum \ X : X \union {c} \in P
      PROVE  X \in P
  <2>1. ASSUME NEW c \in R PROVE f[<<c, X>>] \in {Inf, V[c]}
    <3>1. c \in Checksum /\ Range(deps[c]) \subseteq R /\ R \subseteq Checksum
      BY DEF AgreesIn, ClosedDown
    <3>2. CASE cached[c] = None /\ c \notin X /\ f[<<c, X>>] # Inf
      <4>1. length[c] # None /\ \A d \in Range(deps[c]) : f[<<d, X \union {c}>>] # Inf
        <5>1. InfiniteAsParts(f, c, X)
          BY <3>1, <3>2, EvaluatedFinite
        <5> QED BY <3>2, <5>1 DEF InfiniteAsParts
      <4>2. \A d \in Range(deps[c]) : f[<<d, X \union {c}>>] = V[d]
        BY <1>1, <3>1, <3>2, <4>1
      <4>3. c \in Grounded
        <5>1. \A d \in Range(deps[c]) : d \in Grounded
          BY <3>1, <4>1, <4>2 DEF Settled
        <5> QED BY <3>1, <4>1, <5>1, GroundedIs
      <4>4. [d \in Range(deps[c]) |-> f[<<d, X \union {c}>>]] = [d \in Range(deps[c]) |-> V[d]]
        BY <4>2
      <4>5. f[<<c, X>>] = OwnCost(c, [d \in Range(deps[c]) |-> f[<<d, X \union {c}>>]])
        BY <3>1, <3>2, EvaluatedNode
      <4> QED BY <4>3, <4>4, <4>5 DEF Settled
    <3>3. CASE cached[c] # None
      BY <3>1, <3>3, EvaluatedLeaf DEF AgreesIn
    <3>4. CASE cached[c] = None /\ c \in X
      BY <3>1, <3>4, EvaluatedLeaf
    <3> QED BY <3>2, <3>3, <3>4
  <2> QED BY <2>1
<1>2. P \in SUBSET (SUBSET Checksum)
  OBVIOUS
<1>3. P = SUBSET Checksum
  <2> HIDE DEF P
  <2> QED BY <1>1, <1>2, OutsideIn
<1> QED BY <1>3

\* A computation that finds true costs cached gives true costs.
LEMMA CachedCosts ==
    ASSUME InputsTyped, NEW cached \in Caches, NEW V, Settled(V), NEW R, AgreesIn(cached, V, R)
    PROVE  \A c \in R : CostsWith(cached)[c] = V[c]
<1>1. PICK f : /\ Evaluates(f, cached)
               /\ CostsWith(cached) = [c \in Checksum |-> f[<<c, {}>>]]
  <2> DEFINE f == CHOOSE g : Evaluates(g, cached)
  <2>1. Evaluates(f, cached)
    BY EvaluationExists
  <2>2. CostsWith(cached) = [c \in Checksum |-> f[<<c, {}>>]]
    BY DEF CostsWith, Evaluates, Ensured, Pairs
  <2> QED BY <2>1, <2>2
<1>2. HonestIn(cached, R) /\ R \subseteq Checksum
  BY DEF AgreesIn, HonestIn, Settled, ClosedDown
<1>3. {} \in SUBSET Checksum
  OBVIOUS
<1> SUFFICES ASSUME NEW c \in R PROVE f[<<c, {}>>] = V[c]
  BY <1>1, <1>2
<1>4. CASE c \in Grounded
  BY <1>1, <1>2, <1>3, <1>4, GroundedFinite, FiniteAsSettled
<1>5. CASE c \notin Grounded
  <2>1. f[<<c, {}>>] = Inf
    BY <1>1, <1>2, <1>3, <1>5, UngroundedInfinite
  <2> QED BY <1>2, <1>5, <2>1 DEF Settled
<1> QED BY <1>4, <1>5

LEMMA CostsTyped ==
    ASSUME InputsTyped, NEW cached \in Caches
    PROVE  CostsWith(cached) \in [Checksum -> Costs]
<1> DEFINE f == CHOOSE g : Evaluates(g, cached)
<1>1. Evaluates(f, cached)
  BY EvaluationExists
<1>2. CostsWith(cached) = [c \in Checksum |-> f[<<c, {}>>]]
  BY DEF CostsWith, Evaluates, Ensured, Pairs
<1> HIDE DEF f
<1>3. {} \in SUBSET Checksum
  OBVIOUS
<1> QED BY <1>1, <1>2, <1>3, EvaluationTyped

\* Two computations of a checksum from nothing agree unless one meets a cycle.
LEMMA FiniteCostsAgree ==
    ASSUME InputsTyped, NEW cached \in Caches, \A c \in Checksum : cached[c] = None,
           NEW f, Evaluates(f, cached)
    PROVE  \A X, Y \in SUBSET Checksum : \A c \in Checksum :
               f[<<c, X>>] # Inf /\ f[<<c, Y>>] # Inf => f[<<c, X>>] = f[<<c, Y>>]
<1> DEFINE P == {X \in SUBSET Checksum : \A Y \in SUBSET Checksum : \A c \in Checksum :
                    f[<<c, X>>] # Inf /\ f[<<c, Y>>] # Inf => f[<<c, X>>] = f[<<c, Y>>]}
<1>1. ASSUME NEW X \in SUBSET Checksum, \A c \in Checksum \ X : X \union {c} \in P
      PROVE  X \in P
  <2>1. ASSUME NEW Y \in SUBSET Checksum, NEW c \in Checksum,
               f[<<c, X>>] # Inf, f[<<c, Y>>] # Inf
        PROVE  f[<<c, X>>] = f[<<c, Y>>]
    <3>1. /\ c \notin X /\ \A d \in Range(deps[c]) : f[<<d, X \union {c}>>] # Inf
          /\ f[<<c, X>>] = OwnCost(c, [d \in Range(deps[c]) |-> f[<<d, X \union {c}>>]])
      <4>1. cached[c] = None /\ c \notin X
        BY <2>1, EvaluatedLeaf
      <4>2. InfiniteAsParts(f, c, X)
        BY <4>1, EvaluatedFinite
      <4>3. f[<<c, X>>] = OwnCost(c, [d \in Range(deps[c]) |-> f[<<d, X \union {c}>>]])
        BY <4>1, EvaluatedNode
      <4> QED BY <2>1, <4>1, <4>2, <4>3 DEF InfiniteAsParts
    <3>2. /\ c \notin Y /\ \A d \in Range(deps[c]) : f[<<d, Y \union {c}>>] # Inf
          /\ f[<<c, Y>>] = OwnCost(c, [d \in Range(deps[c]) |-> f[<<d, Y \union {c}>>]])
      <4>1. cached[c] = None /\ c \notin Y
        BY <2>1, EvaluatedLeaf
      <4>2. InfiniteAsParts(f, c, Y)
        BY <4>1, EvaluatedFinite
      <4>3. f[<<c, Y>>] = OwnCost(c, [d \in Range(deps[c]) |-> f[<<d, Y \union {c}>>]])
        BY <4>1, EvaluatedNode
      <4> QED BY <2>1, <4>1, <4>2, <4>3 DEF InfiniteAsParts
    <3>3. X \union {c} \in P /\ Y \union {c} \in SUBSET Checksum
      BY <1>1, <3>1
    <3>4. \A d \in Range(deps[c]) : f[<<d, X \union {c}>>] = f[<<d, Y \union {c}>>]
      BY <3>1, <3>2, <3>3, DepsIn
    <3>5. [d \in Range(deps[c]) |-> f[<<d, X \union {c}>>]]
             = [d \in Range(deps[c]) |-> f[<<d, Y \union {c}>>]]
      BY <3>4
    <3> QED BY <3>1, <3>2, <3>5
  <2> QED BY <2>1
<1>2. P \in SUBSET (SUBSET Checksum)
  OBVIOUS
<1>3. P = SUBSET Checksum
  <2> HIDE DEF P
  <2> QED BY <1>1, <1>2, OutsideIn
<1> QED BY <1>3

\* The costs that _ensure_cost gives when nothing is cached are such a table,
\* although it takes a checksum that is being computed further out for infinite.
THEOREM RecursionSettles == InputsTyped => Settled(TrueCost)
<1> SUFFICES ASSUME InputsTyped PROVE Settled(TrueCost)
  OBVIOUS
<1> DEFINE empty == [c \in Checksum |-> None]
           f == CHOOSE g : Evaluates(g, empty)
<1>1. empty \in Caches /\ \A c \in Checksum : empty[c] = None
  BY DEF Caches
<1>2. TrueCost = [c \in Checksum |-> f[<<c, {}>>]]
  BY DEF TrueCost, CostsWith, Evaluates, Ensured, Pairs
<1> HIDE DEF empty
<1>3. Evaluates(f, empty)
  BY <1>1, EvaluationExists
<1> HIDE DEF f
<1>4. TrueCost \in [Checksum -> Costs]
  BY <1>1, CostsTyped DEF TrueCost, empty
<1>5. HonestIn(empty, Checksum)
  BY <1>1, DepsIn DEF HonestIn, ClosedDown
<1>6. {} \in SUBSET Checksum /\ Grounded \subseteq Checksum
  BY DEF Grounded
<1>7. ASSUME NEW c \in Checksum PROVE TrueCost[c] = Inf <=> c \notin Grounded
  BY <1>1, <1>2, <1>3, <1>5, <1>6, UngroundedInfinite, GroundedFinite
<1>8. ASSUME NEW c \in Grounded
      PROVE  TrueCost[c] = OwnCost(c, [d \in Range(deps[c]) |-> TrueCost[d]])
  <2>1. c \in Checksum /\ f[<<c, {}>>] # Inf /\ {} \union {c} = {c} /\ {c} \in SUBSET Checksum
    BY <1>2, <1>6, <1>7
  <2>2. \A d \in Range(deps[c]) : f[<<d, {c}>>] # Inf
    <3>1. empty[c] = None /\ c \notin {} /\ {} \in SUBSET Checksum
      BY <1>1, <2>1
    <3>2. InfiniteAsParts(f, c, {})
      BY <1>1, <1>3, <2>1, <3>1, EvaluatedFinite
    <3> QED BY <2>1, <3>2 DEF InfiniteAsParts
  <2>5. f[<<c, {}>>] = OwnCost(c, [d \in Range(deps[c]) |-> f[<<d, {c}>>]])
    <3>1. f[<<c, {}>>] = OwnCost(c, [d \in Range(deps[c]) |-> f[<<d, {} \union {c}>>]])
      BY <1>1, <1>3, <1>6, <2>1, EvaluatedNode
    <3> QED BY <2>1, <3>1
  <2>3. ASSUME NEW d \in Range(deps[c])
        PROVE  f[<<d, {c}>>] = TrueCost[d]
    <3>1. d \in Grounded /\ d \in Checksum
      BY <1>6, GroundedIs
    <3>2. f[<<d, {}>>] # Inf /\ TrueCost[d] = f[<<d, {}>>]
      BY <1>2, <1>7, <3>1
    <3> QED BY <1>1, <1>3, <1>6, <2>1, <2>2, <3>1, <3>2, FiniteCostsAgree
  <2>4. [d \in Range(deps[c]) |-> f[<<d, {c}>>]] = [d \in Range(deps[c]) |-> TrueCost[d]]
    BY <2>3
  <2> QED BY <1>2, <2>1, <2>4, <2>5
<1> QED BY <1>4, <1>7, <1>8 DEF Settled

-----------------------------------------------------------------------------
(* What depends on a checksum *)

\* A set of checksums that grows in layers.
Layers(f, A, G, N) == f = [n \in 0 .. N |-> IF n = 0 THEN A ELSE G[f[n - 1]]]

LEMMA LayersExist ==
    ASSUME NEW A \in SUBSET Checksum, NEW G \in [SUBSET Checksum -> SUBSET Checksum], NEW N \in Nat
    PROVE  \E f \in [0 .. N -> SUBSET Checksum] : Layers(f, A, G, N)
<1> DEFINE Good(n) == \E f \in [0 .. n -> SUBSET Checksum] : Layers(f, A, G, n)
           P == {n \in Nat : Good(n)}
<1>1. 0 \in P
  <2> DEFINE f == [n \in 0 .. 0 |-> A]
  <2>1. f \in [0 .. 0 -> SUBSET Checksum] /\ Layers(f, A, G, 0)
    BY DEF Layers
  <2> QED BY <2>1
<1>2. ASSUME NEW n \in P PROVE n + 1 \in P
  <2>1. PICK f \in [0 .. n -> SUBSET Checksum] : Layers(f, A, G, n)
    OBVIOUS
  <2>2. n \in Nat
    OBVIOUS
  <2> DEFINE g == [m \in 0 .. n + 1 |-> IF m = n + 1 THEN G[f[n]] ELSE f[m]]
  <2>3. g \in [0 .. n + 1 -> SUBSET Checksum]
    <3> SUFFICES ASSUME NEW m \in 0 .. n + 1
                 PROVE  (IF m = n + 1 THEN G[f[n]] ELSE f[m]) \in SUBSET Checksum
      OBVIOUS
    <3>1. CASE m = n + 1
      <4>1. f[n] \in SUBSET Checksum
        BY <2>2
      <4> QED BY <3>1, <4>1
    <3>2. CASE m # n + 1
      <4>1. m \in 0 .. n
        BY <2>2, <3>2
      <4> QED BY <3>2, <4>1
    <3> QED BY <3>1, <3>2
  <2>4. \A m \in 0 .. n : g[m] = f[m]
    BY <2>2
  <2>5. g[n + 1] = G[f[n]]
    BY <2>2
  <2> HIDE DEF g
  <2>6. ASSUME NEW m \in 0 .. n + 1
        PROVE  g[m] = IF m = 0 THEN A ELSE G[g[m - 1]]
    <3>1. CASE m = n + 1
      <4>1. m - 1 = n /\ n \in 0 .. n /\ m # 0
        BY <2>2, <3>1
      <4>2. g[m - 1] = f[n]
        BY <2>4, <4>1
      <4> QED BY <2>5, <3>1, <4>1, <4>2
    <3>2. CASE m \in 1 .. n
      <4>1. m - 1 \in 0 .. n /\ m \in 0 .. n /\ m # 0
        BY <2>2, <3>2
      <4>2. f[m] = G[f[m - 1]]
        BY <2>1, <4>1 DEF Layers
      <4> QED BY <2>4, <4>1, <4>2
    <3>3. CASE m = 0
      <4>1. m \in 0 .. n
        BY <2>2, <3>3
      <4> QED BY <2>1, <2>4, <3>3, <4>1 DEF Layers
    <3> QED BY <2>2, <3>1, <3>2, <3>3
  <2>7. Layers(g, A, G, n + 1)
    BY <2>3, <2>6 DEF Layers
  <2> QED BY <2>2, <2>3, <2>7
<1>3. P \in SUBSET Nat
  OBVIOUS
<1>4. P = Nat
  <2> HIDE DEF P
  <2> QED BY <1>1, <1>2, <1>3, Induction
<1> QED BY <1>4

Up(f, reverse, c, N) ==
    f = [n \in 0 .. N |->
            IF n = 0 THEN {c} ELSE f[n - 1] \union UNION {reverse[d] : d \in f[n - 1]}]

LEMMA UpExists ==
    ASSUME NEW reverse \in [Checksum -> SUBSET Checksum], NEW c \in Checksum, NEW N \in Nat
    PROVE  \E f : Up(f, reverse, c, N)
<1> DEFINE G == [U \in SUBSET Checksum |-> U \union UNION {reverse[d] : d \in U}]
<1>1. G \in [SUBSET Checksum -> SUBSET Checksum]
  <2>1. \A U \in SUBSET Checksum : U \union UNION {reverse[d] : d \in U} \in SUBSET Checksum
    OBVIOUS
  <2> QED BY <2>1
<1>2. \A U \in SUBSET Checksum : G[U] = U \union UNION {reverse[d] : d \in U}
  OBVIOUS
<1> HIDE DEF G
<1>3. PICK f \in [0 .. N -> SUBSET Checksum] : Layers(f, {c}, G, N)
  BY <1>1, LayersExist
<1>4. ASSUME NEW n \in 0 .. N
      PROVE  f[n] = IF n = 0 THEN {c} ELSE f[n - 1] \union UNION {reverse[d] : d \in f[n - 1]}
  <2>1. CASE n # 0
    <3>a. n - 1 \in 0 .. N
      BY <2>1
    <3>1. n - 1 \in 0 .. N /\ f[n] = G[f[n - 1]]
      BY <1>3, <2>1, <3>a, Zenon DEF Layers
    <3>2. f[n - 1] \in SUBSET Checksum
      BY <3>1
    <3> QED BY <1>2, <2>1, <3>1, <3>2
  <2>2. CASE n = 0
    BY <1>3, <2>2 DEF Layers
  <2> QED BY <2>1, <2>2
<1>5. Up(f, reverse, c, N)
  BY <1>4 DEF Up
<1> QED BY <1>5

UpClosed(reverse, K) == K \in SUBSET Checksum /\ \A d \in K : reverse[d] \subseteq K

LEMMA UpLayers ==
    ASSUME NEW reverse \in [Checksum -> SUBSET Checksum], NEW c \in Checksum, NEW N \in Nat,
           NEW f, Up(f, reverse, c, N)
    PROVE  /\ f[0] = {c}
           /\ \A n \in Nat : n + 1 <= N =>
                  f[n + 1] = f[n] \union UNION {reverse[d] : d \in f[n]}
<1>1. 0 \in 0 .. N
  OBVIOUS
<1>2. ASSUME NEW n \in Nat, n + 1 <= N
      PROVE  f[n + 1] = f[n] \union UNION {reverse[d] : d \in f[n]}
  <2>1. n + 1 \in 0 .. N /\ n + 1 # 0 /\ (n + 1) - 1 = n
    BY <1>2
  <2> QED BY <2>1 DEF Up
<1> QED BY <1>1, <1>2 DEF Up

LEMMA UpLeast ==
    ASSUME NEW reverse \in [Checksum -> SUBSET Checksum], NEW c \in Checksum, NEW N \in Nat,
           NEW f, Up(f, reverse, c, N), NEW K, UpClosed(reverse, K), c \in K
    PROVE  \A n \in Nat : n <= N => f[n] \subseteq K /\ c \in f[n]
<1> DEFINE P == {n \in Nat : n <= N => f[n] \subseteq K /\ c \in f[n]}
<1>1. 0 \in P
  BY UpLayers
<1>2. ASSUME NEW n \in P PROVE n + 1 \in P
  <2> SUFFICES ASSUME n + 1 <= N PROVE f[n + 1] \subseteq K /\ c \in f[n + 1]
    OBVIOUS
  <2>1. n \in Nat /\ n <= N
    OBVIOUS
  <2>2. f[n] \subseteq K /\ c \in f[n]
    BY <2>1
  <2>3. f[n + 1] = f[n] \union UNION {reverse[d] : d \in f[n]}
    BY <2>1, UpLayers
  <2> QED BY <2>2, <2>3 DEF UpClosed
<1>3. P \in SUBSET Nat
  OBVIOUS
<1>4. P = Nat
  <2> HIDE DEF P
  <2> QED BY <1>1, <1>2, <1>3, Induction
<1> QED BY <1>4

\* A layer that is not closed adds a checksum, which it can do only as often
\* as there are checksums.
LEMMA UpCloses ==
    ASSUME NEW reverse \in [Checksum -> SUBSET Checksum], NEW c \in Checksum,
           NEW f, Up(f, reverse, c, Cardinality(Checksum))
    PROVE  UpClosed(reverse, f[Cardinality(Checksum)])
<1> DEFINE N == Cardinality(Checksum)
           P == {n \in Nat : n <= N => UpClosed(reverse, f[n]) \/ Cardinality(f[n]) >= n + 1}
<1>1. N \in Nat /\ UpClosed(reverse, Checksum)
  BY CostAssumption, FS_CardinalityType DEF UpClosed
<1>2. \A n \in Nat : n <= N =>
          /\ f[n] \in SUBSET Checksum /\ IsFiniteSet(f[n])
          /\ Cardinality(f[n]) \in Nat /\ Cardinality(f[n]) <= N
  <2> SUFFICES ASSUME NEW n \in Nat, n <= N
               PROVE  /\ f[n] \in SUBSET Checksum /\ IsFiniteSet(f[n])
                      /\ Cardinality(f[n]) \in Nat /\ Cardinality(f[n]) <= N
    OBVIOUS
  <2>1. f[n] \subseteq Checksum
    BY <1>1, UpLeast
  <2>2. IsFiniteSet(f[n]) /\ Cardinality(f[n]) <= N
    BY <2>1, CostAssumption, FS_Subset
  <2> QED BY <2>1, <2>2, FS_CardinalityType
<1>3. 0 \in P
  <2>1. f[0] = {c}
    BY <1>1, UpLayers
  <2>2. Cardinality({c}) = 1
    BY FS_Singleton
  <2> QED BY <2>1, <2>2
<1>4. ASSUME NEW n \in P PROVE n + 1 \in P
  <2> SUFFICES ASSUME n + 1 <= N
               PROVE  UpClosed(reverse, f[n + 1]) \/ Cardinality(f[n + 1]) >= (n + 1) + 1
    OBVIOUS
  <2>1. n \in Nat /\ n <= N
    BY <1>1
  <2>2. f[n + 1] = f[n] \union UNION {reverse[d] : d \in f[n]}
    BY <1>1, <2>1, UpLayers
  <2>3. CASE UpClosed(reverse, f[n])
    <3>1. f[n + 1] = f[n]
      BY <2>2, <2>3 DEF UpClosed
    <3> QED BY <2>3, <3>1
  <2>4. CASE ~UpClosed(reverse, f[n])
    <3>1. Cardinality(f[n]) >= n + 1
      BY <2>1, <2>4
    <3>2. f[n] \subseteq f[n + 1] /\ f[n] # f[n + 1]
      BY <1>2, <2>1, <2>2, <2>4 DEF UpClosed
    <3>3. IsFiniteSet(f[n + 1]) /\ Cardinality(f[n + 1]) \in Nat /\ Cardinality(f[n]) \in Nat
      BY <1>2, <2>1
    <3>4. Cardinality(f[n]) <= Cardinality(f[n + 1])
            /\ (Cardinality(f[n]) = Cardinality(f[n + 1]) => f[n] = f[n + 1])
      BY <3>2, <3>3, FS_Subset
    <3>5. Cardinality(f[n + 1]) >= (n + 1) + 1
      <4> DEFINE a == Cardinality(f[n]) b == Cardinality(f[n + 1])
      <4>1. a \in Nat /\ b \in Nat /\ a >= n + 1 /\ a <= b /\ a # b
        BY <3>1, <3>2, <3>3, <3>4
      <4> HIDE DEF a, b
      <4>2. b >= (n + 1) + 1
        BY <2>1, <4>1
      <4> QED BY <4>2 DEF b
    <3> QED BY <3>5
  <2> QED BY <2>3, <2>4
<1>5. P \in SUBSET Nat
  OBVIOUS
<1>6. P = Nat
  <2> HIDE DEF P
  <2> QED BY <1>3, <1>4, <1>5, Induction
<1>7. UpClosed(reverse, f[N]) \/ Cardinality(f[N]) >= N + 1
  <2>1. N \in P /\ N <= N
    BY <1>1, <1>6
  <2> QED BY <2>1
<1>8. Cardinality(f[N]) \in Nat /\ Cardinality(f[N]) <= N
  BY <1>1, <1>2
<1> HIDE DEF P
<1> QED BY <1>1, <1>7, <1>8

\* The rounds of _mark_dirty reach the least set that holds c and all that
\* depends on its members: nothing stale is missed on a longer way.
THEOREM DependentsComplete ==
    ASSUME NEW reverse \in [Checksum -> SUBSET Checksum], NEW c \in Checksum
    PROVE  /\ UpClosed(reverse, Dependents(reverse, c)) /\ c \in Dependents(reverse, c)
           /\ \A K : UpClosed(reverse, K) /\ c \in K => Dependents(reverse, c) \subseteq K
<1> DEFINE N == Cardinality(Checksum)
           f == CHOOSE g : Up(g, reverse, c, N)
<1>1. N \in Nat /\ N <= N /\ UpClosed(reverse, Checksum)
  BY CostAssumption, FS_CardinalityType DEF UpClosed
<1>2. Dependents(reverse, c) = f[N]
  BY DEF Dependents, Up
<1>3. Up(f, reverse, c, N)
  BY <1>1, UpExists
<1> HIDE DEF f
<1>4. UpClosed(reverse, f[N])
  BY <1>3, UpCloses
<1>5. c \in f[N]
  BY <1>1, <1>3, UpLeast
<1>6. \A K : UpClosed(reverse, K) /\ c \in K => f[N] \subseteq K
  BY <1>1, <1>3, UpLeast
<1> QED BY <1>2, <1>4, <1>5, <1>6

\* What _ensure_cost computes on the way is a dependency of something.
LEMMA ComputedIs ==
    ASSUME InputsTyped, NEW c \in Checksum, NEW costs
    PROVE  Computed(c, costs) \subseteq
               {c} \union {d \in Checksum : \E b \in Checksum : d \in Range(deps[b])}
<1> DEFINE N == Cardinality(Checksum)
           A == {c} \ {d \in Checksum : cost[d] # None}
           Next1(U) == U \union {d \in UNION {Asked(b, costs) : b \in U} : cost[d] = None}
           G == [U \in SUBSET Checksum |-> Next1(U)]
           Reaches(f) == f = [n \in 0 .. N |-> IF n = 0 THEN A ELSE Next1(f[n - 1])]
           f == CHOOSE g : Reaches(g)
           B == {c} \union {d \in Checksum : \E b \in Checksum : d \in Range(deps[b])}
           P == {n \in Nat : n <= N => f[n] \subseteq B}
<1>1. N \in Nat
  BY CostAssumption, FS_CardinalityType
<1>2. ASSUME NEW b \in Checksum PROVE Asked(b, costs) \subseteq Range(deps[b])
  BY DEF Asked, Range
<1>3. \A U \in SUBSET Checksum : Next1(U) \in SUBSET Checksum
  BY <1>2, DepsIn
<1>4. A \in SUBSET Checksum
  OBVIOUS
<1> HIDE DEF A
<1>5. \E g : Reaches(g)
  <2>1. G \in [SUBSET Checksum -> SUBSET Checksum] /\ \A U \in SUBSET Checksum : G[U] = Next1(U)
    <3> HIDE DEF Next1
    <3> QED BY <1>3
  <2> HIDE DEF G, Next1
  <2>2. PICK g \in [0 .. N -> SUBSET Checksum] : Layers(g, A, G, N)
    BY <1>1, <1>4, <2>1, LayersExist
  <2>3. ASSUME NEW n \in 0 .. N
        PROVE  g[n] = IF n = 0 THEN A ELSE Next1(g[n - 1])
    <3>1. CASE n # 0
      <4>1. n - 1 \in 0 .. N /\ g[n] = G[g[n - 1]]
        BY <1>1, <2>2, <3>1 DEF Layers
      <4>2. g[n - 1] \in SUBSET Checksum
        BY <4>1
      <4> QED BY <2>1, <3>1, <4>1, <4>2
    <3>2. CASE n = 0
      BY <2>2, <3>2 DEF Layers
    <3> QED BY <3>1, <3>2
  <2>4. Reaches(g)
    BY <2>2, <2>3
  <2> QED BY <2>4
<1>6. Computed(c, costs) = f[N]
  BY DEF Computed, A
<1>7. Reaches(f)
  <2> HIDE DEF Reaches
  <2> QED BY <1>5
<1> HIDE DEF f
<1>8. 0 \in P
  <2>1. f[0] = A
    BY <1>1, <1>7
  <2> QED BY <2>1 DEF A
<1>9. ASSUME NEW n \in P PROVE n + 1 \in P
  <2> SUFFICES ASSUME n + 1 <= N PROVE f[n + 1] \subseteq B
    OBVIOUS
  <2>1. n \in Nat /\ f[n] \subseteq B /\ n + 1 \in 0 .. N /\ n + 1 # 0 /\ (n + 1) - 1 = n
    BY <1>1
  <2>2. f[n + 1] = Next1(f[n])
    <3> HIDE DEF Next1
    <3> QED BY <1>7, <2>1
  <2>3. \A b \in f[n] : b \in Checksum /\ Asked(b, costs) \subseteq B
    BY <1>2, <2>1, DepsIn
  <2> QED BY <2>1, <2>2, <2>3
<1>10. P \in SUBSET Nat
  OBVIOUS
<1>11. P = Nat
  <2> HIDE DEF P
  <2> QED BY <1>8, <1>9, <1>10, Induction
<1>12. f[N] \subseteq B
  BY <1>1, <1>11
<1> QED BY <1>6, <1>12

-----------------------------------------------------------------------------
(* What a change leaves alone *)

OwnWith(len, trm, ds, depCost) ==
    LET download == IF trm.manual # None THEN trm.manual
                    ELSE LET p == Profile[trm.profile] IN
                         IF len * p.units > p.least THEN len * p.units ELSE p.least
        base == IF ds # <<>> /\ Total(depCost, ds) > download THEN Total(depCost, ds) ELSE download
    IN  IF len = None \/ \E d \in Range(ds) : depCost[d] = Inf THEN Inf ELSE base + trm.cpu

LEMMA OwnCostWith == \A c, g : OwnCost(c, g) = OwnWith(length[c], terms[c], deps[c], g)
BY DEF OwnCost, OwnWith, Total, Download

LEMMA TrueCostWith ==
    InputsTyped => \A c \in Grounded :
        TrueCost[c] = OwnWith(length[c], terms[c], deps[c], [d \in Range(deps[c]) |-> TrueCost[d]])
<1> SUFFICES ASSUME InputsTyped, NEW c \in Grounded
             PROVE  TrueCost[c] = OwnWith(length[c], terms[c], deps[c],
                                          [d \in Range(deps[c]) |-> TrueCost[d]])
  OBVIOUS
<1>1. TrueCost[c] = OwnCost(c, [d \in Range(deps[c]) |-> TrueCost[d]])
  BY RecursionSettles DEF Settled
<1> QED BY <1>1, OwnCostWith, Zenon

\* The true costs in a set that is closed under dependencies are those of its
\* members' inputs.
LEMMA CostsLocal ==
    ASSUME InputsTyped, InputsTyped', NEW R, ClosedDown(R),
           \A c \in R : length'[c] = length[c] /\ terms'[c] = terms[c] /\ deps'[c] = deps[c]
    PROVE  \A c \in R : TrueCost'[c] = TrueCost[c]
<1>1. PICK T, U, G : T = TrueCost /\ U = TrueCost' /\ G = Grounded'
  OBVIOUS
<1>2. Settled(T)
  BY <1>1, RecursionSettles
<1>3. Settled(TrueCost)'
  <2>1. (InputsTyped => Settled(TrueCost))'
    BY RecursionSettles, PTL
  <2> QED BY <2>1
<1>4. /\ \A H \in SUBSET Checksum : Closing(H)' => G \subseteq H
      /\ \A c \in Checksum : c \in G <=> length'[c] # None /\ Range(deps'[c]) \subseteq G
      /\ G \subseteq Checksum
  <2>1. (\A H \in SUBSET Checksum : Closing(H) => Grounded \subseteq H)'
    BY GroundedLeast, PTL
  <2>2. (\A c \in Checksum : c \in Grounded <=> length[c] # None /\ Range(deps[c]) \subseteq Grounded)'
    BY GroundedIs, PTL
  <2>3. Grounded' \subseteq Checksum
    BY DEF Grounded
  <2> QED BY <1>1, <2>1, <2>2, <2>3
<1>5. \A c \in G : U[c] = OwnWith(length'[c], terms'[c], deps'[c], [d \in Range(deps'[c]) |-> U[d]])
  <2>1. (InputsTyped => \A c \in Grounded :
           TrueCost[c] = OwnWith(length[c], terms[c], deps[c], [d \in Range(deps[c]) |-> TrueCost[d]]))'
    BY TrueCostWith, PTL
  <2> QED BY <1>1, <2>1
<1>6. \A c \in Grounded : T[c] = OwnWith(length[c], terms[c], deps[c], [d \in Range(deps[c]) |-> T[d]])
  BY <1>1, TrueCostWith
<1>7. \A c \in R : c \in Grounded => c \in G
  <2> DEFINE H == {c \in Checksum : c \in R => c \in G}
  <2>1. Closing(H) /\ H \in SUBSET Checksum
    BY <1>4 DEF Closing, ClosedDown
  <2>2. Grounded \subseteq H
    <3> HIDE DEF H
    <3> QED BY <2>1, GroundedLeast
  <2> QED BY <2>2
<1>8. \A c \in R : c \in G => c \in Grounded
  <2>1. PICK F : F = Grounded
    OBVIOUS
  <2> DEFINE H == {c \in Checksum : c \in R => c \in F}
  <2>2. \A c \in Checksum : length'[c] # None /\ Range(deps'[c]) \subseteq H => c \in H
    BY <2>1, GroundedIs DEF ClosedDown
  <2>3. Closing(H)' /\ H \in SUBSET Checksum
    BY <2>2 DEF Closing
  <2>4. G \subseteq H
    <3> HIDE DEF H
    <3> QED BY <1>4, <2>3
  <2> QED BY <1>4, <2>1, <2>4
<1>9. \A c \in R : c \in Grounded => U[c] = T[c]
  <2> DEFINE H == {c \in Grounded : c \in R => U[c] = T[c]}
  <2>1. ASSUME NEW c \in Checksum, length[c] # None, Range(deps[c]) \subseteq H
        PROVE  c \in H
    <3>1. c \in Grounded
      BY <2>1, GroundedIs
    <3>2. ASSUME c \in R PROVE U[c] = T[c]
      <4>1. Range(deps[c]) \subseteq R /\ c \in G
        BY <1>7, <3>1, <3>2 DEF ClosedDown
      <4>2. \A d \in Range(deps[c]) : U[d] = T[d]
        BY <2>1, <4>1
      <4>3. [d \in Range(deps[c]) |-> U[d]] = [d \in Range(deps[c]) |-> T[d]]
        BY <4>2
      <4>4. U[c] = OwnWith(length[c], terms[c], deps[c], [d \in Range(deps[c]) |-> U[d]])
        <5>1. U[c] = OwnWith(length'[c], terms'[c], deps'[c], [d \in Range(deps'[c]) |-> U[d]])
          BY <1>5, <4>1
        <5> QED BY <3>2, <5>1
      <4>5. T[c] = OwnWith(length[c], terms[c], deps[c], [d \in Range(deps[c]) |-> T[d]])
        BY <1>6, <3>1
      <4> QED BY <4>3, <4>4, <4>5
    <3> QED BY <3>1, <3>2
  <2>2. Closing(H) /\ H \in SUBSET Checksum
    <3>1. H \in SUBSET Checksum
      BY DEF Grounded
    <3> HIDE DEF H
    <3> QED BY <2>1, <3>1 DEF Closing
  <2>3. Grounded \subseteq H
    <3> HIDE DEF H
    <3> QED BY <2>2, GroundedLeast
  <2> QED BY <2>3
<1>10. ASSUME NEW c \in R PROVE U[c] = T[c]
  <2>1. c \in Checksum
    BY DEF ClosedDown
  <2>2. CASE c \in Grounded
    BY <1>9, <2>2
  <2>3. CASE c \notin Grounded
    <3>1. T[c] = Inf
      BY <1>2, <2>1, <2>3 DEF Settled
    <3>2. U[c] = Inf
      BY <1>1, <1>3, <1>8, <2>1, <2>3 DEF Settled
    <3> QED BY <3>1, <3>2
  <2> QED BY <2>2, <2>3
<1> QED BY <1>1, <1>10

\* rev is the reverse of deps.
LEMMA UpwardClosed ==
    IndInv => \A K \in SUBSET Checksum :
        UpClosed(rev, K) <=> \A b \in Checksum : Range(deps[b]) \intersect K # {} => b \in K
<1> SUFFICES ASSUME IndInv, NEW K \in SUBSET Checksum
             PROVE  UpClosed(rev, K) <=>
                        \A b \in Checksum : Range(deps[b]) \intersect K # {} => b \in K
  OBVIOUS
<1>1. \A d \in Checksum : rev[d] = {b \in Checksum : d \in Range(deps[b])}
  BY DEF IndInv, InterestCounted
<1> QED BY <1>1 DEF UpClosed

DependsUpward(D, o) ==
    /\ D \in SUBSET Checksum /\ o \in D
    /\ \A b \in Checksum : Range(deps[b]) \intersect D # {} => b \in D
    /\ \A K \in SUBSET Checksum :
          o \in K /\ (\A b \in Checksum : Range(deps[b]) \intersect K # {} => b \in K)
             => D \subseteq K

LEMMA DependentsIs == IndInv => \A p \in Checksum : DependsUpward(Dependents(rev, p), p)
<1> SUFFICES ASSUME IndInv, NEW o \in Checksum PROVE DependsUpward(Dependents(rev, o), o)
  OBVIOUS
<1> DEFINE D == Dependents(rev, o)
<1>1. rev \in [Checksum -> SUBSET Checksum]
  BY DEF IndInv, GraphTyped
<1>2. /\ UpClosed(rev, D) /\ o \in D
      /\ \A K : UpClosed(rev, K) /\ o \in K => D \subseteq K
  BY <1>1, DependentsComplete
<1> HIDE DEF D
<1>3. D \in SUBSET Checksum
  BY <1>2 DEF UpClosed
<1>4. \A b \in Checksum : Range(deps[b]) \intersect D # {} => b \in D
  BY <1>2, <1>3, UpwardClosed
<1>5. ASSUME NEW K \in SUBSET Checksum, o \in K,
             \A b \in Checksum : Range(deps[b]) \intersect K # {} => b \in K
      PROVE  D \subseteq K
  BY <1>2, <1>5, UpwardClosed
<1> QED BY <1>2, <1>3, <1>4, <1>5 DEF D, DependsUpward

\* Who depends on o through a set that is left alone depends on it afterwards.
LEMMA MarksLocal ==
    ASSUME IndInv, IndInv', NEW R, ClosedDown(R), \A c \in R : deps'[c] = deps[c],
           NEW o \in Checksum, NEW c \in R, c \in Dependents(rev, o)
    PROVE  c \in Dependents(rev, o)'
<1>1. PICK E : E = Dependents(rev, o)'
  OBVIOUS
<1>2. E \in SUBSET Checksum /\ o \in E
      /\ \A b \in Checksum : Range(deps'[b]) \intersect E # {} => b \in E
  <2>1. (IndInv => \A p \in Checksum : DependsUpward(Dependents(rev, p), p))'
    BY DependentsIs, PTL
  <2>2. DependsUpward(Dependents(rev, o), o)'
    BY <2>1
  <2>3. DependsUpward(E, o)'
    BY <1>1, <2>2 DEF DependsUpward
  <2> QED BY <2>3 DEF DependsUpward
<1> DEFINE K == {d \in Checksum : d \in R => d \in E}
<1>3. ASSUME NEW b \in Checksum, Range(deps[b]) \intersect K # {} PROVE b \in K
  <2> SUFFICES ASSUME b \in R PROVE b \in E
    OBVIOUS
  <2>1. PICK d \in Range(deps[b]) : d \in K
    BY <1>3
  <2>2. d \in R /\ d \in E /\ d \in Range(deps'[b])
    BY <2>1 DEF ClosedDown
  <2> QED BY <1>2, <2>2
<1>4. K \in SUBSET Checksum /\ o \in K
  BY <1>2
<1>5. Dependents(rev, o) \subseteq K
  <2> HIDE DEF K
  <2> QED BY <1>3, <1>4, DependentsIs DEF DependsUpward
<1> QED BY <1>1, <1>5

-----------------------------------------------------------------------------
(* What a release takes *)

LEMMA EdgesMonotone ==
    ASSUME NEW ds, NEW S \in SUBSET Checksum, NEW U \in SUBSET Checksum, S \subseteq U, NEW c
    PROVE  Edges(ds, S, c) <= Edges(ds, U, c)
<1>1. EdgesTo(ds, S, c) \subseteq EdgesTo(ds, U, c)
  BY DEF EdgesTo
<1>2. IsFiniteSet(EdgesTo(ds, U, c))
  BY EdgesFinite
<1> QED BY <1>1, <1>2, FS_Subset DEF Edges

LEMMA OrphansMonotone ==
    ASSUME IndInv, NEW S \in SUBSET Checksum, NEW U \in SUBSET Checksum, S \subseteq U
    PROVE  Orphans(S) \subseteq Orphans(U)
<1> SUFFICES ASSUME NEW c \in Orphans(S) PROVE c \in Orphans(U)
  OBVIOUS
<1>1. c \in Indirect /\ c \in Checksum /\ depended[c] = Edges(deps, S, c)
  BY DEF Orphans, Indirect
<1>2. depended[c] = Edges(deps, Checksum, c)
  BY <1>1 DEF IndInv, InterestCounted
<1>3. Edges(deps, S, c) <= Edges(deps, U, c) /\ Edges(deps, U, c) <= Edges(deps, Checksum, c)
  BY EdgesMonotone
<1>4. Edges(deps, U, c) \in Nat /\ depended[c] \in Nat
  BY <1>1, EdgesFinite DEF IndInv, GraphTyped
<1>5. depended[c] = Edges(deps, U, c)
  BY <1>1, <1>2, <1>3, <1>4
<1> QED BY <1>1, <1>5 DEF Orphans

\* What is released is what the release leaves nobody interested in.
LEMMA ReleasedFixed ==
    ASSUME IndInv, NEW S \in SUBSET Checksum
    PROVE  Released(S) = Orphans(S \union Released(S)) /\ Released(S) \in SUBSET Checksum
<1> DEFINE Rel == Released(S)
           Left(g) == Orphans(S \union g)
<1>1. Rel \subseteq Indirect /\ Indirect \in SUBSET Checksum
  BY DEF Released, Indirect
<1>2. ASSUME NEW g \in SUBSET Indirect, Left(g) \subseteq g PROVE Rel \subseteq g
  <2> SUFFICES ASSUME NEW c \in Rel, c \notin g PROVE FALSE
    OBVIOUS
  <2>1. g \in SUBSET (Indirect \ {c})
    OBVIOUS
  <2> QED BY <1>2, <2>1 DEF Released
<1>3. \A g, h \in SUBSET Indirect : g \subseteq h => Left(g) \subseteq Left(h)
  <2> SUFFICES ASSUME NEW g \in SUBSET Indirect, NEW h \in SUBSET Indirect, g \subseteq h
               PROVE  Left(g) \subseteq Left(h)
    OBVIOUS
  <2>1. S \union g \in SUBSET Checksum /\ S \union h \in SUBSET Checksum /\ S \union g \subseteq S \union h
    BY <1>1
  <2> QED BY <2>1, OrphansMonotone
<1>4. \A g : Left(g) \subseteq Indirect
  BY DEF Orphans
<1>5. Left(Rel) \subseteq Rel
  <2> SUFFICES ASSUME NEW c \in Left(Rel), NEW g \in SUBSET (Indirect \ {c}), Left(g) \subseteq g
               PROVE  FALSE
    BY <1>4 DEF Released
  <2>1. g \in SUBSET Indirect /\ Rel \in SUBSET Indirect /\ Rel \subseteq g
    <3>1. g \in SUBSET Indirect
      OBVIOUS
    <3> HIDE DEF Rel, Left
    <3> QED BY <1>1, <1>2, <3>1
  <2>2. Left(Rel) \subseteq Left(g)
    <3> HIDE DEF Rel, Left
    <3> QED BY <1>3, <2>1
  <2> QED BY <2>2
<1>6. Rel \subseteq Left(Rel)
  <2> HIDE DEF Rel, Left
  <2>1. Left(Left(Rel)) \subseteq Left(Rel)
    BY <1>1, <1>3, <1>4, <1>5
  <2> QED BY <1>2, <1>4, <2>1
<1> QED BY <1>1, <1>5, <1>6

\* Who is depended on by those in A only.
LEMMA NoEdgeOutside ==
    ASSUME IndInv, NEW A \in SUBSET Checksum, NEW c \in Checksum,
           depended[c] = Edges(deps, A, c)
    PROVE  \A b \in Checksum \ A : c \notin Range(deps[b])
<1>1. Edges(deps, Checksum, c) = Edges(deps, A, c) + Edges(deps, Checksum \ A, c)
  BY EdgesSplit
<1>2. Edges(deps, A, c) \in Nat /\ Edges(deps, Checksum \ A, c) \in Nat
      /\ IsFiniteSet(EdgesTo(deps, Checksum \ A, c))
  BY EdgesFinite
<1>3. depended[c] = Edges(deps, Checksum, c)
  BY DEF IndInv, InterestCounted
<1>4. Cardinality(EdgesTo(deps, Checksum \ A, c)) = 0
  BY <1>1, <1>2, <1>3 DEF Edges
<1>5. EdgesTo(deps, Checksum \ A, c) = {}
  BY <1>2, <1>4, FS_EmptySet
<1> SUFFICES ASSUME NEW b \in Checksum \ A, c \in Range(deps[b]) PROVE FALSE
  OBVIOUS
<1>6. deps[b] \in Dependencies
  BY DEF IndInv, GraphTyped
<1>7. PICK n \in 0 .. MaxDeps : deps[b] \in [1 .. n -> Checksum]
  BY <1>6, Zenon DEF Dependencies
<1>8. PICK i \in 1 .. n : deps[b][i] = c
  BY <1>7 DEF Range
<1>9. i \in 1 .. MaxDeps /\ i \in DOMAIN deps[b]
  BY <1>7, <1>8, CostAssumption
<1>10. <<b, i>> \in EdgesTo(deps, Checksum \ A, c)
  BY <1>8, <1>9 DEF EdgesTo
<1> QED BY <1>5, <1>10

-----------------------------------------------------------------------------
(* The steps of the costs *)

CostsSound == OneInside /\ CallsSound /\ CachedIsInteresting /\ CostsCurrent

LEMMA TypeInputs == IndInv /\ TypeOK => InputsTyped
BY DEF IndInv, GraphTyped, TypeOK, InputsTyped

LEMMA DependenciesSeq == Dependencies \subseteq Seq(Checksum)
<1> SUFFICES ASSUME NEW ds \in Dependencies PROVE ds \in Seq(Checksum)
  OBVIOUS
<1>1. PICK n \in 0 .. MaxDeps : ds \in [1 .. n -> Checksum]
  BY Zenon DEF Dependencies
<1>2. n \in Nat
  BY CostAssumption
<1> QED BY <1>1, <1>2

\* Somebody depends on it: it is of interest.
LEMMA DependedOn ==
    ASSUME IndInv, NEW b \in Checksum, NEW d \in Checksum, d \in Range(deps[b])
    PROVE  Interesting(d)
<1>1. depended[d] \in Nat /\ direct[d] \in Nat
  BY DEF IndInv, GraphTyped
<1>2. Edges(deps, {}, d) = 0
  BY EdgesNone
<1>3. depended[d] # 0
  BY <1>2, NoEdgeOutside
<1> QED BY <1>1, <1>3 DEF Interesting

\* The true costs where nothing changes.
LEMMA CostsUnchanged ==
    ASSUME InputsTyped, length' = length, terms' = terms, deps' = deps
    PROVE  \A c \in Checksum : TrueCost'[c] = TrueCost[c]
<1>1. InputsTyped'
  BY DEF InputsTyped
<1>2. ClosedDown(Checksum)
  BY DepsIn DEF ClosedDown
<1> QED BY <1>1, <1>2, CostsLocal

\* The true costs where the inputs of one checksum change.
LEMMA CostsAround ==
    ASSUME IndInv, InputsTyped, InputsTyped', deps' = deps, NEW c \in Checksum,
           \A b \in Checksum \ {c} : length'[b] = length[b] /\ terms'[b] = terms[b]
    PROVE  \A b \in Checksum \ Dependents(rev, c) : TrueCost'[b] = TrueCost[b]
<1>1. PICK D : D = Dependents(rev, c)
  OBVIOUS
<1>2. D \in SUBSET Checksum /\ c \in D
      /\ \A b \in Checksum : Range(deps[b]) \intersect D # {} => b \in D
  BY <1>1, DependentsIs DEF DependsUpward
<1> DEFINE R == Checksum \ D
<1>3. ClosedDown(R)
  BY <1>2, DepsIn DEF ClosedDown
<1>4. \A b \in R : length'[b] = length[b] /\ terms'[b] = terms[b] /\ deps'[b] = deps[b]
  BY <1>2
<1> HIDE DEF R
<1>5. \A b \in R : TrueCost'[b] = TrueCost[b]
  BY <1>3, <1>4, CostsLocal
<1> QED BY <1>1, <1>5 DEF R

\* What no call owes a mark is closed under dependencies.
LEMMA UnmarkedClosed ==
    ASSUME IndInv, TypeOK
    PROVE  ClosedDown({c \in Checksum : ~MarkOwed(c)})
<1> SUFFICES ASSUME NEW c \in Checksum, NEW d \in Range(deps[c]), d \in Checksum, MarkOwed(d)
             PROVE  MarkOwed(c)
  BY TypeInputs, DepsIn DEF ClosedDown
<1>1. PICK t \in Thread : call[t].at \in {"measured", "dirty"} /\ d \in Dependents(rev, call[t].of)
  BY DEF MarkOwed
<1>2. call[t].of \in Checksum
  BY <1>1 DEF TypeOK, Call
<1>3. c \in Dependents(rev, call[t].of)
  BY <1>1, <1>2, DependentsIs DEF DependsUpward
<1> QED BY <1>1, <1>3 DEF MarkOwed

LEMMA CallTyped ==
    ASSUME TypeOK, NEW t \in Thread, NEW x \in Call, call' = [call EXCEPT ![t] = x]
    PROVE  call' \in [Thread -> Call]
BY DEF TypeOK

LEMMA IdleCall == Idle \in Call
BY DEF Idle, Call

LEMMA OfCall ==
    \A a \in {"measured", "dirty", "asked"}, c \in Checksum : [at |-> a, of |-> c] \in Call
BY DEF Call

LEMMA InitCosts == Init => TypeOK /\ CostsSound
<1> SUFFICES ASSUME Init PROVE TypeOK /\ CostsSound
  OBVIOUS
<1>1. IndInv
  BY InitInv
<1>2. deps \in [Checksum -> Seq(Checksum)]
  BY <1>1, DependenciesSeq DEF IndInv, GraphTyped
<1>3. terms \in [Checksum -> Terms]
  BY DEF Init, Terms, Profile
<1>4. \A t \in Thread : call[t] = Idle /\ call[t].at = "idle"
  BY DEF Init, Idle
<1>5. call \in [Thread -> Call]
  BY IdleCall DEF Init
<1>6. TypeOK
  BY <1>1, <1>2, <1>3, <1>5 DEF Init, IndInv, GraphTyped, TypeOK
<1>7. OneInside /\ CallsSound
  BY <1>4 DEF OneInside, CallsSound
<1>8. CachedIsInteresting /\ CostsCurrent
  BY DEF Init, CachedIsInteresting, CostsCurrent
<1> QED BY <1>6, <1>7, <1>8 DEF CostsSound

LEMMA TypeStep ==
    ASSUME IndInv, IndInv', TypeOK, [Next]_vars
    PROVE  TypeOK'
<1>1. /\ deps' \in [Checksum -> Seq(Checksum)]
      /\ rev' \in [Checksum -> SUBSET Checksum]
      /\ depended' \in [Checksum -> Nat] /\ direct' \in [Checksum -> Nat]
  BY DependenciesSeq DEF IndInv, GraphTyped
<1> DEFINE Rest == /\ length' \in [Checksum -> Nat \union {None}]
                   /\ terms' \in [Checksum -> Terms]
                   /\ cost' \in [Checksum -> Costs \union {None}]
                   /\ call' \in [Thread -> Call]
<1>2. ASSUME NEW c \in Checksum, AddInterest(c) PROVE Rest
  BY <1>2 DEF AddInterest, inputs, TypeOK
<1>3. ASSUME NEW c \in Checksum, RemoveInterest(c) PROVE Rest
  BY <1>3 DEF RemoveInterest, inputs, TypeOK
<1>4. ASSUME NEW c \in Checksum, NEW ds \in Dependencies, RegisterDependencies(c, ds) PROVE Rest
  BY <1>4 DEF RegisterDependencies, Without, inputs, TypeOK
<1>5. ASSUME NEW c \in Checksum, NEW t \in Thread, SetTerms(t, c) PROVE Rest
  <2>1. PICK s \in Settings : terms' = [terms EXCEPT ![c][s[1]] = s[2]]
    BY <1>5 DEF SetTerms
  <2>2. [terms[c] EXCEPT ![s[1]] = s[2]] \in Terms
    <3>1. terms[c] \in Terms
      BY DEF TypeOK
    <3>2. \/ s[1] = "profile" /\ s[2] \in DOMAIN Profile
          \/ s[1] \in {"manual", "cpu"} /\ s[2] \in Nat
      BY CostAssumption
    <3>3. CASE s[1] = "profile" /\ s[2] \in DOMAIN Profile
      BY <3>1, <3>3 DEF Terms
    <3>4. CASE s[1] = "manual" /\ s[2] \in Nat
      BY <3>1, <3>4 DEF Terms
    <3>5. CASE s[1] = "cpu" /\ s[2] \in Nat
      BY <3>1, <3>5 DEF Terms
    <3> QED BY <3>2, <3>3, <3>4, <3>5
  <2>3. terms' \in [Checksum -> Terms]
    BY <2>1, <2>2 DEF TypeOK
  <2>4. call' \in [Thread -> Call]
    BY <1>5, OfCall, CallTyped DEF SetTerms, Goto
  <2> QED BY <1>5, <2>3, <2>4 DEF SetTerms, TypeOK
<1>6. ASSUME NEW c \in Checksum, NEW t \in Thread, NEW n \in Lengths, NotifyLength(t, c, n) PROVE Rest
  <2>1. length' \in [Checksum -> Nat \union {None}]
    BY <1>6, CostAssumption DEF NotifyLength, TypeOK
  <2>2. call' \in [Thread -> Call]
    BY <1>6, OfCall, IdleCall, CallTyped DEF NotifyLength, Goto
  <2> QED BY <1>6, <2>1, <2>2 DEF NotifyLength, TypeOK
<1>7. ASSUME NEW c \in Checksum, NEW t \in Thread, NEW n \in Lengths, GetCost(t, c, n) PROVE Rest
  <2>1. length' \in [Checksum -> Nat \union {None}]
    BY <1>7, CostAssumption DEF GetCost, TypeOK
  <2>2. call' \in [Thread -> Call]
    BY <1>7, OfCall, CallTyped DEF GetCost, Goto
  <2> QED BY <1>7, <2>1, <2>2 DEF GetCost, Without, TypeOK
<1>8. ASSUME NEW t \in Thread, MarkMeasured(t) \/ MarkDirty(t) PROVE Rest
  <2>1. call' \in [Thread -> Call]
    BY <1>8, IdleCall, CallTyped DEF MarkMeasured, MarkDirty, Goto
  <2> QED BY <1>8, <2>1 DEF MarkMeasured, MarkDirty, inputs, Without, TypeOK
<1>9. ASSUME NEW t \in Thread, ComputeCost(t) PROVE Rest
  <2>1. CostsWith(cost) \in [Checksum -> Costs]
    BY TypeInputs, CostsTyped DEF TypeOK, Caches
  <2>2. \A S : [c \in Checksum |-> IF c \in S THEN CostsWith(cost)[c] ELSE None]
                 \in [Checksum -> Costs \union {None}]
    BY <2>1
  <2>3. PICK found \in [Checksum -> Costs \union {None}] :
          call' = [call EXCEPT ![t] = [at |-> "costing", found |-> found]]
    BY <1>9, <2>2 DEF ComputeCost, Goto
  <2>4. [at |-> "costing", found |-> found] \in Call
    BY DEF Call
  <2>5. call' \in [Thread -> Call]
    BY <2>3, <2>4, CallTyped
  <2> QED BY <1>9, <2>5 DEF ComputeCost, inputs, TypeOK
<1>10. ASSUME NEW t \in Thread, StoreCost(t) PROVE Rest
  <2>1. call' \in [Thread -> Call]
    BY <1>10, IdleCall, CallTyped DEF StoreCost, Goto
  <2>2. call[t].found \in [Checksum -> Costs \union {None}]
    BY <1>10 DEF StoreCost, TypeOK, Call
  <2> QED BY <1>10, <2>1, <2>2 DEF StoreCost, inputs, TypeOK
<1>11. ASSUME UNCHANGED vars PROVE Rest
  BY <1>11 DEF vars, inputs, graph, TypeOK
<1>12. Rest
  <2> HIDE DEF Rest
  <2>1. CASE Next
    <3>1. ASSUME NEW t \in Thread,
                 MarkMeasured(t) \/ MarkDirty(t) \/ ComputeCost(t) \/ StoreCost(t)
          PROVE  Rest
      BY <3>1, <1>8, <1>9, <1>10
    <3>2. ASSUME NEW c \in Checksum, NEW t \in Thread,
                 \/ SetTerms(t, c)
                 \/ \E n \in Lengths : NotifyLength(t, c, n) \/ GetCost(t, c, n)
          PROVE  Rest
      BY <3>2, <1>5, <1>6, <1>7
    <3>3. ASSUME NEW c \in Checksum,
                 \/ AddInterest(c) \/ RemoveInterest(c)
                 \/ \E ds \in Dependencies : RegisterDependencies(c, ds)
          PROVE  Rest
      BY <3>3, <1>2, <1>3, <1>4
    <3> QED BY <2>1, <3>1, <3>2, <3>3, Zenon DEF Next
  <2> QED BY <2>1, <1>11
<1> QED BY <1>1, <1>12 DEF TypeOK

\* A thread that enters or leaves a call.
LEMMA CallChanges ==
    ASSUME TypeOK, NEW t \in Thread, NEW x, Goto(t, x)
    PROVE  call'[t] = x /\ \A u \in Thread \ {t} : call'[u] = call[u]
BY DEF Goto, TypeOK

LEMMA MarksKept ==
    ASSUME rev' = rev,
           \A u \in Thread : call[u].at \in {"measured", "dirty"} => call'[u] = call[u]
    PROVE  \A b \in Checksum : MarkOwed(b) => MarkOwed(b)'
<1> SUFFICES ASSUME NEW b \in Checksum, MarkOwed(b) PROVE MarkOwed(b)'
  OBVIOUS
<1>1. PICK u \in Thread : call[u].at \in {"measured", "dirty"} /\ b \in Dependents(rev, call[u].of)
  BY DEF MarkOwed
<1>2. call'[u] = call[u]
  BY <1>1
<1>3. b \in Dependents(rev', call'[u].of) /\ call'[u].at \in {"measured", "dirty"}
  BY <1>1, <1>2
<1> QED BY <1>3 DEF MarkOwed

\* A mark that is owed covers all that depends on the checksum.
LEMMA MarkCovers ==
    ASSUME rev' = rev, NEW t \in Thread, NEW c \in Checksum,
           call'[t].at \in {"measured", "dirty"}, call'[t].of = c
    PROVE  \A b \in Dependents(rev, c) : MarkOwed(b)'
BY DEF MarkOwed

LEMMA SetTermsSound ==
    ASSUME CostInv, IndInv', InputsTyped', NEW t \in Thread, NEW c \in Checksum, SetTerms(t, c)
    PROVE  CostsSound'
<1>1. /\ IndInv /\ TypeOK /\ OneInside /\ CallsSound /\ CachedIsInteresting /\ CostsCurrent
      /\ InputsTyped
  BY TypeInputs DEF CostInv
<1>2. /\ length' = length /\ deps' = deps /\ rev' = rev /\ depended' = depended /\ direct' = direct
      /\ cost' = cost /\ call[t].at = "idle"
      /\ \A b \in Checksum \ {c} : terms'[b] = terms[b]
  BY DEF SetTerms, graph, Idle, CostInv, TypeOK
<1>3. /\ call'[t].at = "dirty" /\ call'[t].of = c
      /\ \A u \in Thread \ {t} : call'[u] = call[u]
  BY <1>1, CallChanges DEF SetTerms
<1>4. \A b \in Checksum \ Dependents(rev, c) : TrueCost'[b] = TrueCost[b]
  BY <1>1, <1>2, CostsAround
<1>5. /\ \A b \in Checksum : MarkOwed(b) => MarkOwed(b)'
      /\ \A b \in Dependents(rev, c) : MarkOwed(b)'
  BY <1>2, <1>3, MarksKept, MarkCovers
<1>6. \A b \in Checksum : Interesting(b)' <=> Interesting(b)
  BY <1>2 DEF Interesting
<1>7. OneInside'
  BY <1>1, <1>2, <1>3 DEF OneInside
<1>8. CachedIsInteresting'
  BY <1>1, <1>2, <1>6 DEF CachedIsInteresting
<1>9. CostsCurrent'
  BY <1>1, <1>2, <1>4, <1>5 DEF CostsCurrent
<1>10. ASSUME NEW u \in Thread, call'[u].at = "asked" PROVE Interesting(call[u].of)'
  <2>1. call[u].at = "asked" /\ call'[u] = call[u] /\ call[u].of \in Checksum
    BY <1>1, <1>3, <1>10 DEF TypeOK, Call
  <2>2. direct[call[u].of] + depended[call[u].of] > 0
    BY <1>1, <2>1 DEF CallsSound, Interesting
  <2> QED BY <1>2, <2>1, <2>2 DEF Interesting
<1>11. ASSUME NEW u \in Thread, call'[u].at = "costing", NEW b \in Checksum,
              call'[u].found[b] # None
       PROVE  Interesting(b)' /\ (call'[u].found[b] = TrueCost'[b] \/ MarkOwed(b)')
  <2>1. call[u].at = "costing" /\ call'[u] = call[u]
    BY <1>3, <1>11
  <2>2. Interesting(b) /\ (call[u].found[b] = TrueCost[b] \/ MarkOwed(b))
    BY <1>1, <1>11, <2>1 DEF CallsSound
  <2> QED BY <1>4, <1>5, <1>6, <2>1, <2>2
<1>12. CallsSound'
  BY <1>10, <1>11 DEF CallsSound
<1> QED BY <1>7, <1>8, <1>9, <1>12 DEF CostsSound

LEMMA NobodyInside ==
    ASSUME \A t \in Thread : call[t].at \notin {"asked", "costing"}
    PROVE  CallsSound
BY DEF CallsSound

LEMMA OneEntered ==
    ASSUME NEW t \in Thread,
           \A u \in Thread \ {t} : call[u].at \notin {"measured", "asked", "costing"}
    PROVE  OneInside
BY DEF OneInside

\* Nobody depends on what is of no interest.
LEMMA NoDependents ==
    ASSUME IndInv, NEW c \in Checksum, ~Interesting(c)
    PROVE  Dependents(rev, c) \subseteq {c}
<1>1. \A b \in Checksum : Range(deps[b]) \intersect {c} # {} => b \in {c}
  BY DependedOn
<1> QED BY <1>1, DependentsIs DEF DependsUpward

LEMMA NotifyLengthSound ==
    ASSUME CostInv, IndInv', InputsTyped', NEW t \in Thread, NEW c \in Checksum, NEW n \in Lengths,
           NotifyLength(t, c, n)
    PROVE  CostsSound'
<1>1. /\ IndInv /\ TypeOK /\ OneInside /\ CallsSound /\ CachedIsInteresting /\ CostsCurrent
      /\ InputsTyped
  BY TypeInputs DEF CostInv
<1>2. /\ terms' = terms /\ deps' = deps /\ rev' = rev /\ depended' = depended /\ direct' = direct
      /\ cost' = cost /\ call[t].at = "idle"
      /\ length'[c] = n /\ \A b \in Checksum \ {c} : length'[b] = length[b]
      /\ \A u \in Thread : call[u].at \notin {"measured", "asked", "costing"}
  BY <1>1 DEF NotifyLength, graph, Idle, TypeOK, CacheLockFree, LockFree
<1> DEFINE marking == length[c] # n /\ Interesting(c)
<1>3. /\ IF marking THEN call'[t].at = "measured" /\ call'[t].of = c ELSE call'[t].at = "idle"
      /\ \A u \in Thread \ {t} : call'[u] = call[u]
  BY <1>1, CallChanges DEF NotifyLength, Idle
<1>4. OneInside'
  BY <1>2, <1>3 DEF OneInside
<1>5. CallsSound'
  BY <1>2, <1>3 DEF CallsSound
<1>6. CachedIsInteresting'
  BY <1>1, <1>2 DEF CachedIsInteresting, Interesting
<1>7. \A b \in Checksum \ Dependents(rev, c) : TrueCost'[b] = TrueCost[b]
  BY <1>1, <1>2, CostsAround
<1>8. \A b \in Checksum : MarkOwed(b) => MarkOwed(b)'
  BY <1>2, <1>3, MarksKept
<1>9. CostsCurrent'
  <2>1. CASE length[c] = n
    <3>1. length' = length
      BY <1>1, <2>1 DEF NotifyLength, TypeOK
    <3>2. \A b \in Checksum : TrueCost'[b] = TrueCost[b]
      BY <1>1, <1>2, <3>1, CostsUnchanged
    <3> QED BY <1>1, <1>2, <1>8, <3>2 DEF CostsCurrent
  <2>2. CASE ~Interesting(c)
    <3>1. Dependents(rev, c) \subseteq {c} /\ cost[c] = None
      BY <1>1, <2>2, NoDependents DEF CachedIsInteresting
    <3> QED BY <1>1, <1>2, <1>7, <1>8, <3>1 DEF CostsCurrent
  <2>3. CASE marking
    <3>1. \A b \in Dependents(rev, c) : MarkOwed(b)'
      BY <1>2, <1>3, <2>3, MarkCovers
    <3> QED BY <1>1, <1>2, <1>7, <1>8, <3>1 DEF CostsCurrent
  <2> QED BY <2>1, <2>2, <2>3
<1> QED BY <1>4, <1>5, <1>6, <1>9 DEF CostsSound

LEMMA GetCostSound ==
    ASSUME CostInv, IndInv', InputsTyped', NEW t \in Thread, NEW c \in Checksum, NEW n \in Lengths,
           GetCost(t, c, n)
    PROVE  CostsSound'
<1>1. /\ IndInv /\ TypeOK /\ OneInside /\ CallsSound /\ CachedIsInteresting /\ CostsCurrent
      /\ InputsTyped
  BY TypeInputs DEF CostInv
<1>2. /\ terms' = terms /\ deps' = deps /\ rev' = rev /\ depended' = depended /\ direct' = direct
      /\ call[t].at = "idle" /\ Interesting(c)
      /\ \A b \in Checksum \ {c} : length'[b] = length[b]
      /\ \A u \in Thread : call[u].at \notin {"measured", "asked", "costing"}
  BY <1>1 DEF GetCost, graph, Idle, TypeOK, CacheLockFree, LockFree
<1>3. /\ call'[t].at = "asked" /\ call'[t].of = c
      /\ \A u \in Thread \ {t} : call'[u] = call[u]
  BY <1>1, CallChanges DEF GetCost
<1>4. OneInside'
  BY <1>2, <1>3 DEF OneInside
<1>5. \A b \in Checksum : Interesting(b)' <=> Interesting(b)
  BY <1>2 DEF Interesting
<1>6. CallsSound'
  <2>1. direct'[c] + depended'[c] > 0
    BY <1>2 DEF Interesting
  <2> QED BY <1>2, <1>3, <2>1 DEF CallsSound, Interesting
<1>7. \A b \in Checksum : MarkOwed(b) => MarkOwed(b)'
  BY <1>2, <1>3, MarksKept
<1>8. CASE length[c] = n
  <2>1. length' = length /\ cost' = cost
    BY <1>1, <1>8 DEF GetCost, TypeOK
  <2>2. \A b \in Checksum : TrueCost'[b] = TrueCost[b]
    BY <1>1, <1>2, <2>1, CostsUnchanged
  <2>3. CostsCurrent'
    BY <1>1, <1>7, <2>1, <2>2 DEF CostsCurrent
  <2>4. CachedIsInteresting'
    BY <1>1, <1>5, <2>1 DEF CachedIsInteresting
  <2> QED BY <1>4, <1>6, <2>3, <2>4 DEF CostsSound
<1>9. CASE length[c] # n
  <2>1. \A b \in Checksum : cost'[b] = IF b \in Dependents(rev, c) THEN None ELSE cost[b]
    BY <1>9 DEF GetCost, Without
  <2>2. \A b \in Checksum \ Dependents(rev, c) : TrueCost'[b] = TrueCost[b]
    BY <1>1, <1>2, CostsAround
  <2>3. CostsCurrent'
    BY <1>1, <1>7, <2>1, <2>2 DEF CostsCurrent
  <2>4. CachedIsInteresting'
    BY <1>1, <1>5, <2>1 DEF CachedIsInteresting
  <2> QED BY <1>4, <1>6, <2>3, <2>4 DEF CostsSound
<1> QED BY <1>8, <1>9

\* The mark that a call owed is made.
LEMMA MarkSound ==
    ASSUME CostInv, IndInv', InputsTyped', NEW t \in Thread, MarkMeasured(t) \/ MarkDirty(t)
    PROVE  CostsSound'
<1>1. /\ IndInv /\ TypeOK /\ OneInside /\ CallsSound /\ CachedIsInteresting /\ CostsCurrent
      /\ InputsTyped
  BY TypeInputs DEF CostInv
<1>2. /\ length' = length /\ terms' = terms
      /\ deps' = deps /\ rev' = rev /\ depended' = depended /\ direct' = direct
      /\ call[t].at \in {"measured", "dirty"}
      /\ \A b \in Checksum : cost'[b] = IF b \in Dependents(rev, call[t].of) THEN None ELSE cost[b]
  BY DEF MarkMeasured, MarkDirty, inputs, graph, Without
<1>3. call'[t].at = "idle" /\ \A u \in Thread \ {t} : call'[u] = call[u]
  BY <1>1, CallChanges DEF MarkMeasured, MarkDirty, Idle
<1>4. \A u \in Thread : call[u].at \notin {"asked", "costing"}
  <2>1. CASE MarkMeasured(t)
    BY <1>1, <2>1 DEF MarkMeasured, OneInside
  <2>2. CASE MarkDirty(t)
    BY <2>2 DEF MarkDirty, LockFree
  <2> QED BY <2>1, <2>2
<1>5. OneInside'
  BY <1>1, <1>3 DEF OneInside
<1>6. CallsSound'
  BY <1>3, <1>4 DEF CallsSound
<1>7. \A b \in Checksum : TrueCost'[b] = TrueCost[b]
  BY <1>1, <1>2, CostsUnchanged
<1>8. CachedIsInteresting'
  BY <1>1, <1>2 DEF CachedIsInteresting, Interesting
<1>9. ASSUME NEW b \in Checksum, cost'[b] # None, MarkOwed(b)
      PROVE  MarkOwed(b)'
  <2>1. PICK u \in Thread : call[u].at \in {"measured", "dirty"} /\ b \in Dependents(rev, call[u].of)
    BY <1>9 DEF MarkOwed
  <2>2. call'[u] = call[u]
    BY <1>2, <1>3, <1>9, <2>1
  <2>3. b \in Dependents(rev', call'[u].of) /\ call'[u].at \in {"measured", "dirty"}
    BY <1>2, <2>1, <2>2
  <2> QED BY <2>3 DEF MarkOwed
<1>10. CostsCurrent'
  BY <1>1, <1>2, <1>7, <1>9 DEF CostsCurrent
<1> QED BY <1>5, <1>6, <1>8, <1>10 DEF CostsSound

\* What is computed is as true as what is cached.
LEMMA ComputeCostSound ==
    ASSUME CostInv, IndInv', InputsTyped', NEW t \in Thread, ComputeCost(t)
    PROVE  CostsSound'
<1>1. /\ IndInv /\ TypeOK /\ OneInside /\ CallsSound /\ CachedIsInteresting /\ CostsCurrent
      /\ InputsTyped
  BY TypeInputs DEF CostInv
<1> DEFINE costs == CostsWith(cost)
           computed == Computed(call[t].of, costs)
           found == [c \in Checksum |-> IF c \in computed THEN costs[c] ELSE None]
<1>2. /\ length' = length /\ terms' = terms
      /\ deps' = deps /\ rev' = rev /\ depended' = depended /\ direct' = direct
      /\ cost' = cost /\ call[t].at = "asked"
  BY DEF ComputeCost, inputs, graph
<1>3. /\ call'[t].at = "costing" /\ call'[t].found = found
      /\ \A u \in Thread \ {t} : call'[u] = call[u]
  <2>1. Goto(t, [at |-> "costing", found |-> found])
    BY DEF ComputeCost
  <2> HIDE DEF found
  <2> QED BY <1>1, <2>1, CallChanges
<1>4. \A u \in Thread \ {t} : call[u].at \notin {"measured", "asked", "costing"}
  BY <1>1, <1>2 DEF OneInside
<1>5. OneInside'
  BY <1>3, <1>4 DEF OneInside
<1>6. /\ \A b \in Checksum : TrueCost'[b] = TrueCost[b]
      /\ \A b \in Checksum : MarkOwed(b) => MarkOwed(b)'
  BY <1>1, <1>2, <1>3, CostsUnchanged, MarksKept
<1>7. CachedIsInteresting' /\ CostsCurrent'
  BY <1>1, <1>2, <1>6 DEF CachedIsInteresting, Interesting, CostsCurrent
<1>8. \A b \in Checksum : ~MarkOwed(b) => costs[b] = TrueCost[b]
  <2> DEFINE R == {b \in Checksum : ~MarkOwed(b)}
  <2>1. AgreesIn(cost, TrueCost, R)
    BY <1>1, UnmarkedClosed DEF AgreesIn, CostsCurrent
  <2>2. cost \in Caches
    BY <1>1 DEF TypeOK, Caches
  <2>3. PICK V, S : V = TrueCost /\ S = R
    OBVIOUS
  <2>4. \A b \in S : CostsWith(cost)[b] = V[b]
    BY <1>1, <2>1, <2>2, <2>3, RecursionSettles, CachedCosts
  <2> QED BY <2>3, <2>4
<1>9. \A b \in computed \intersect Checksum : Interesting(b)
  <2>1. call[t].of \in Checksum
    BY <1>1, <1>2 DEF TypeOK, Call
  <2>2. Interesting(call[t].of)
    BY <1>1, <1>2 DEF CallsSound
  <2>3. computed \subseteq
          {call[t].of} \union {d \in Checksum : \E b \in Checksum : d \in Range(deps[b])}
    <3> HIDE DEF costs
    <3> QED BY <1>1, <2>1, ComputedIs
  <2> HIDE DEF computed
  <2> QED BY <1>1, <2>2, <2>3, DependedOn
<1>10. ASSUME NEW b \in Checksum, found[b] # None
       PROVE  Interesting(b)' /\ (found[b] = TrueCost'[b] \/ MarkOwed(b)')
  <2>1. b \in computed /\ found[b] = costs[b]
    BY <1>10
  <2>2. Interesting(b)'
    BY <1>2, <1>9, <2>1 DEF Interesting
  <2> HIDE DEF found, costs, computed
  <2> QED BY <1>6, <1>8, <2>1, <2>2
<1>11. CallsSound'
  <2> HIDE DEF found
  <2> QED BY <1>3, <1>4, <1>10 DEF CallsSound
<1> QED BY <1>5, <1>7, <1>11 DEF CostsSound

LEMMA StoreCostSound ==
    ASSUME CostInv, IndInv', InputsTyped', NEW t \in Thread, StoreCost(t)
    PROVE  CostsSound'
<1>1. /\ IndInv /\ TypeOK /\ OneInside /\ CallsSound /\ CachedIsInteresting /\ CostsCurrent
      /\ InputsTyped
  BY TypeInputs DEF CostInv
<1>2. /\ length' = length /\ terms' = terms
      /\ deps' = deps /\ rev' = rev /\ depended' = depended /\ direct' = direct
      /\ call[t].at = "costing"
      /\ \A b \in Checksum :
           cost'[b] = IF call[t].found[b] # None THEN call[t].found[b] ELSE cost[b]
  BY DEF StoreCost, inputs, graph
<1>3. call'[t].at = "idle" /\ \A u \in Thread \ {t} : call'[u] = call[u]
  BY <1>1, CallChanges DEF StoreCost, Idle
<1>4. \A u \in Thread \ {t} : call[u].at \notin {"measured", "asked", "costing"}
  BY <1>1, <1>2 DEF OneInside
<1>5. OneInside' /\ CallsSound'
  BY <1>3, <1>4 DEF OneInside, CallsSound
<1>6. /\ \A b \in Checksum : TrueCost'[b] = TrueCost[b]
      /\ \A b \in Checksum : MarkOwed(b) => MarkOwed(b)'
  BY <1>1, <1>2, <1>3, CostsUnchanged, MarksKept
<1>7. \A b \in Checksum : \/ call[t].found[b] = None
                          \/ Interesting(b) /\ (call[t].found[b] = TrueCost[b] \/ MarkOwed(b))
  BY <1>1, <1>2 DEF CallsSound
<1>8. CachedIsInteresting'
  BY <1>1, <1>2, <1>7 DEF CachedIsInteresting, Interesting
<1>9. CostsCurrent'
  BY <1>1, <1>2, <1>6, <1>7 DEF CostsCurrent
<1> QED BY <1>5, <1>8, <1>9 DEF CostsSound

\* A step that changes the interest in what stays interesting, and no more.
LEMMA InterestKeptSound ==
    ASSUME CostInv, IndInv', InputsTyped',
           length' = length, terms' = terms, deps' = deps, rev' = rev, cost' = cost, call' = call,
           \A b \in Checksum : Interesting(b) => Interesting(b)'
    PROVE  CostsSound'
<1>1. /\ IndInv /\ TypeOK /\ OneInside /\ CallsSound /\ CachedIsInteresting /\ CostsCurrent
      /\ InputsTyped
  BY TypeInputs DEF CostInv
<1>2. /\ \A b \in Checksum : TrueCost'[b] = TrueCost[b]
      /\ \A b \in Checksum : MarkOwed(b) => MarkOwed(b)'
  BY <1>1, CostsUnchanged, MarksKept
<1>3. OneInside' /\ CachedIsInteresting' /\ CostsCurrent'
  BY <1>1, <1>2 DEF OneInside, CachedIsInteresting, CostsCurrent
<1>4. ASSUME NEW t \in Thread, call'[t].at = "asked" PROVE Interesting(call[t].of)'
  <2>1. call[t].of \in Checksum /\ Interesting(call[t].of)
    BY <1>1, <1>4 DEF TypeOK, Call, CallsSound
  <2>2. PICK c \in Checksum : c = call[t].of
    BY <2>1
  <2>3. direct'[c] + depended'[c] > 0
    BY <2>1, <2>2 DEF Interesting
  <2> QED BY <2>2, <2>3 DEF Interesting
<1>5. CallsSound'
  BY <1>1, <1>2, <1>4 DEF CallsSound
<1> QED BY <1>3, <1>5 DEF CostsSound

\* What a release leaves: nothing that stays depends on what is gone, and
\* what was of interest as a dependency only still is.
LEMMA ReleaseLeaves ==
    ASSUME IndInv, NEW c \in Checksum, NEW gone, gone = {c} \union Released({c})
    PROVE  /\ \A r \in Released({c}), b \in Checksum \ gone : r \notin Range(deps[b])
           /\ \A b \in Checksum \ Released({c}) :
                direct[b] = 0 /\ depended[b] > 0 => depended[b] # Edges(deps, gone, b)
<1>1. Released({c}) = Orphans(gone) /\ gone \in SUBSET Checksum
  BY ReleasedFixed
<1>2. ASSUME NEW r \in Released({c}), NEW b \in Checksum \ gone PROVE r \notin Range(deps[b])
  BY <1>1, NoEdgeOutside DEF Orphans, Indirect
<1>3. ASSUME NEW b \in Checksum \ Released({c}), direct[b] = 0, depended[b] > 0
      PROVE  depended[b] # Edges(deps, gone, b)
  BY <1>1, <1>3 DEF Orphans, Indirect
<1> QED BY <1>2, <1>3

\* The costs after a release or a registration: R is what these leave alone.
LEMMA GraphChangeSound ==
    ASSUME CostInv, IndInv', InputsTyped', LockFree,
           length' = length, terms' = terms, call' = call,
           NEW R, ClosedDown(R), \A b \in R : deps'[b] = deps[b],
           \A b \in Checksum : cost'[b] \in {None, cost[b]},
           \A b \in Checksum \ R : cost'[b] = None,
           \A b \in R : cost[b] # None => Interesting(b)'
    PROVE  CostsSound'
<1>1. /\ IndInv /\ TypeOK /\ OneInside /\ CachedIsInteresting /\ CostsCurrent
      /\ InputsTyped
  BY TypeInputs DEF CostInv
<1>2. OneInside' /\ CallsSound'
  BY <1>1 DEF OneInside, CallsSound, LockFree
<1>3. CachedIsInteresting'
  BY DEF CachedIsInteresting
<1>4. \A b \in R : TrueCost'[b] = TrueCost[b]
  BY <1>1, CostsLocal
<1>5. ASSUME NEW b \in R, MarkOwed(b) PROVE MarkOwed(b)'
  <2>1. PICK u \in Thread : call[u].at \in {"measured", "dirty"} /\ b \in Dependents(rev, call[u].of)
    BY <1>5 DEF MarkOwed
  <2>2. PICK o \in Checksum : o = call[u].of
    BY <1>1, <2>1 DEF TypeOK, Call
  <2>3. b \in Dependents(rev, o)'
    BY <1>1, <2>1, <2>2, MarksLocal
  <2>4. b \in Dependents(rev', call'[u].of) /\ call'[u].at \in {"measured", "dirty"}
    BY <2>1, <2>2, <2>3
  <2> QED BY <2>4 DEF MarkOwed
<1>6. CostsCurrent'
  BY <1>1, <1>4, <1>5 DEF CostsCurrent, ClosedDown
<1> QED BY <1>2, <1>3, <1>6 DEF CostsSound

LEMMA AddInterestSound ==
    ASSUME CostInv, IndInv', InputsTyped', NEW c \in Checksum, AddInterest(c)
    PROVE  CostsSound'
<1>1. /\ length' = length /\ terms' = terms /\ deps' = deps /\ rev' = rev
      /\ cost' = cost /\ call' = call
  BY DEF AddInterest, inputs
<1>2. \A b \in Checksum : Interesting(b) => Interesting(b)'
  BY DEF AddInterest, Interesting, CostInv, IndInv, GraphTyped
<1> QED BY <1>1, <1>2, InterestKeptSound

LEMMA RemoveInterestSound ==
    ASSUME CostInv, IndInv', InputsTyped', NEW c \in Checksum, RemoveInterest(c)
    PROVE  CostsSound'
<1>1. /\ IndInv /\ GraphTyped /\ GraphTyped' /\ InputsTyped /\ CachedIsInteresting
  BY TypeInputs DEF CostInv, IndInv
<1>2. /\ length' = length /\ terms' = terms /\ call' = call /\ LockFree
      /\ direct[c] > 0 /\ direct'[c] = direct[c] - 1
      /\ \A b \in Checksum \ {c} : direct'[b] = direct[b]
  BY <1>1 DEF RemoveInterest, inputs, CacheLockFree, GraphTyped
<1>3. CASE direct[c] + depended[c] > 1
  <2>1. /\ deps' = deps /\ rev' = rev /\ cost' = cost /\ depended' = depended
    BY <1>3 DEF RemoveInterest
  <2>2. \A b \in Checksum : Interesting(b) => Interesting(b)'
    BY <1>1, <1>2, <1>3, <2>1 DEF Interesting, GraphTyped
  <2> QED BY <1>2, <2>1, <2>2, InterestKeptSound
<1>4. CASE ~(direct[c] + depended[c] > 1)
  <2> DEFINE gone == {c} \union Released({c})
             R == Checksum \ gone
  <2>1. /\ \A b \in Checksum : cost'[b] = IF b \in gone THEN None ELSE cost[b]
        /\ \A b \in R : deps'[b] = deps[b]
        /\ \A b \in Checksum : depended'[b] = depended[b] - Edges(deps, gone, b)
    BY <1>4 DEF RemoveInterest, Detached
  <2>2. gone \in SUBSET Checksum /\ c \in gone
    BY ReleasedFixed, <1>1
  <2>3. /\ \A r \in Released({c}), b \in Checksum \ gone : r \notin Range(deps[b])
        /\ \A b \in Checksum \ Released({c}) :
             direct[b] = 0 /\ depended[b] > 0 => depended[b] # Edges(deps, gone, b)
    <3> PICK g : g = gone
      OBVIOUS
    <3> QED BY <1>1, ReleaseLeaves
  <2>4. \A b \in Checksum : c \notin Range(deps[b])
    <3>1. depended[c] = 0
      BY <1>1, <1>2, <1>4 DEF GraphTyped
    <3>2. depended[c] = Edges(deps, {}, c)
      BY <3>1, EdgesNone
    <3> QED BY <1>1, <3>2, NoEdgeOutside
  <2>5. ClosedDown(R)
    <3>1. \A b \in R : \A d \in gone : d \notin Range(deps[b])
      BY <2>3, <2>4
    <3>2. \A b \in R : Range(deps[b]) \subseteq Checksum
      BY <1>1, DepsIn
    <3> HIDE DEF gone
    <3> QED BY <3>1, <3>2 DEF ClosedDown
  <2>6. ASSUME NEW b \in R, cost[b] # None PROVE Interesting(b)'
    <3>1. Interesting(b) /\ b \in Checksum \ Released({c}) /\ b # c
      BY <1>1, <2>6 DEF CachedIsInteresting
    <3>2. direct[b] \in Nat /\ depended[b] \in Nat /\ depended'[b] \in Nat /\ direct'[b] = direct[b]
      BY <1>1, <1>2, <3>1 DEF GraphTyped
    <3>3. depended'[b] = depended[b] - Edges(deps, gone, b) /\ Edges(deps, gone, b) \in Nat
      <4> HIDE DEF gone
      <4> QED BY <2>1, <2>2, EdgesFinite
    <3>4. direct[b] = 0 /\ depended[b] > 0 => depended[b] # Edges(deps, gone, b)
      BY <2>3, <3>1
    <3> HIDE DEF gone
    <3>5. direct[b] + depended[b] > 0
      BY <3>1 DEF Interesting
    <3>6. direct'[b] + depended'[b] > 0
      <4>1. PICK e \in Nat, i \in Nat, n \in Nat, k \in Nat :
                   /\ e = Edges(deps, gone, b) /\ i = direct[b] /\ n = depended[b]
                   /\ k = depended'[b] /\ k = n - e /\ direct'[b] = i
        BY <3>2, <3>3
      <4>2. (i = 0 /\ n > 0 => n # e) /\ i + n > 0
        BY <3>4, <3>5, <4>1
      <4>3. i + k > 0
        <5>1. \A p, q, r \in Nat, s \in Nat :
                 s = q - r /\ (p = 0 /\ q > 0 => q # r) /\ p + q > 0 => p + s > 0
          OBVIOUS
        <5> QED BY <4>1, <4>2, <5>1
      <4> QED BY <4>1, <4>3
    <3> QED BY <3>6 DEF Interesting
  <2>7. /\ \A b \in Checksum : cost'[b] \in {None, cost[b]}
        /\ \A b \in Checksum \ R : cost'[b] = None
    <3> HIDE DEF gone
    <3> QED BY <2>1
  <2> HIDE DEF R, gone
  <2> QED BY <1>2, <2>1, <2>5, <2>6, <2>7, GraphChangeSound
<1> QED BY <1>3, <1>4

\* What is left of an interest as a dependency once some edges are gone.
LEMMA InterestLeft ==
    \A direct0, count, gone0, left0 \in Nat :
        left0 = count - gone0 /\ (direct0 = 0 /\ count > 0 => count # gone0) /\ direct0 + count > 0
            => direct0 + left0 > 0
OBVIOUS

LEMMA NoneDepends ==
    IndInv => \A p \in Checksum : ~Interesting(p) => Dependents(rev, p) \subseteq {p}
BY NoDependents

LEMMA RegisterSound ==
    ASSUME CostInv, IndInv', InputsTyped', NEW c \in Checksum, NEW ds \in Dependencies,
           RegisterDependencies(c, ds)
    PROVE  CostsSound'
<1>1. /\ IndInv /\ GraphTyped /\ GraphTyped' /\ InputsTyped /\ CachedIsInteresting
  BY TypeInputs DEF CostInv, IndInv
<1> DEFINE released == Released({c})
           gone == {c} \union released
           left == Detached(gone)
           kept == [d \in Checksum |-> IF d \in released THEN None ELSE cost[d]]
           D == Dependents(rev', c)
           R == Checksum \ (D \union gone)
<1>2. /\ length' = length /\ terms' = terms /\ call' = call /\ LockFree /\ direct' = direct
  BY DEF RegisterDependencies, inputs
<1>3. gone \in SUBSET Checksum /\ c \in gone /\ released \in SUBSET Checksum
  BY ReleasedFixed, <1>1
<1>4. /\ \A r \in released, b \in Checksum \ gone : r \notin Range(deps[b])
      /\ \A b \in Checksum \ released :
           direct[b] = 0 /\ depended[b] > 0 => depended[b] # Edges(deps, gone, b)
  <2> PICK g : g = gone
    OBVIOUS
  <2> QED BY <1>1, ReleaseLeaves
<1>5. \A b \in Checksum \ gone : deps'[b] = deps[b]
  BY <1>3 DEF RegisterDependencies, Detached
<1>6. /\ \A b \in Checksum : left.depended[b] = depended[b] - Edges(deps, gone, b)
      /\ \A b \in Checksum : depended'[b] = left.depended[b] + Edges(deps', {c}, b)
      /\ \A b \in Checksum : left.depended[b] \in Nat
  <2>1. \A b \in Checksum : left.depended[b] = depended[b] - Edges(deps, gone, b)
    BY DEF Detached
  <2>2. \A b \in Checksum : depended'[b] = left.depended[b] + Edges(deps', {c}, b)
    BY DEF RegisterDependencies
  <2>3. Mirrors(left.deps, left.rev, left.depended)
    <3> HIDE DEF gone
    <3> QED BY <1>1, <1>3, InvMirrors, DetachedMirrors
  <2>4. \A b \in Checksum : left.depended[b] \in Nat
    <3> HIDE DEF left
    <3> QED BY <2>3 DEF Mirrors
  <2> HIDE DEF left, gone
  <2> QED BY <2>1, <2>2, <2>4
<1>7. ASSUME NEW b \in Checksum \ released, Interesting(b)
      PROVE  direct[b] + left.depended[b] > 0
  <2>1. direct[b] \in Nat /\ depended[b] \in Nat /\ left.depended[b] \in Nat
        /\ direct[b] + depended[b] > 0
    BY <1>1, <1>6, <1>7 DEF GraphTyped, Interesting
  <2>2. left.depended[b] = depended[b] - Edges(deps, gone, b) /\ Edges(deps, gone, b) \in Nat
    <3> HIDE DEF gone, left
    <3> QED BY <1>3, <1>6, EdgesFinite
  <2>3. direct[b] = 0 /\ depended[b] > 0 => depended[b] # Edges(deps, gone, b)
    BY <1>4
  <2> HIDE DEF gone, left, released
  <2>4. PICK i \in Nat, n \in Nat, e \in Nat, k \in Nat :
            i = direct[b] /\ n = depended[b] /\ e = Edges(deps, gone, b) /\ k = left.depended[b]
    BY <2>1, <2>2
  <2> QED BY <2>1, <2>2, <2>3, <2>4, InterestLeft
<1>8. ASSUME NEW b \in Checksum \ released, Interesting(b) PROVE Interesting(b)'
  <2>1. direct[b] + left.depended[b] > 0
    BY <1>7, <1>8
  <2>2. Edges(deps', {c}, b) \in Nat /\ direct[b] \in Nat
    BY <1>1, EdgesFinite DEF GraphTyped
  <2>3. direct'[b] + depended'[b] > 0
    <3>1. PICK i \in Nat, k \in Nat, e \in Nat :
              i = direct[b] /\ k = left.depended[b] /\ e = Edges(deps', {c}, b)
      BY <1>6, <2>2
    <3> HIDE DEF left
    <3>2. direct'[b] = i /\ depended'[b] = k + e /\ i + k > 0
      BY <1>2, <1>6, <2>1, <3>1
    <3> QED BY <3>2
  <2> QED BY <2>3 DEF Interesting
<1>9. /\ D \in SUBSET Checksum /\ c \in D
      /\ \A b \in Checksum : Range(deps'[b]) \intersect D # {} => b \in D
  <2>1. (IndInv => \A p \in Checksum : DependsUpward(Dependents(rev, p), p))'
    BY DependentsIs, PTL
  <2>2. DependsUpward(Dependents(rev, c), c)'
    BY <2>1
  <2>3. PICK E : E = D
    OBVIOUS
  <2>4. DependsUpward(E, c)'
    BY <2>2, <2>3 DEF DependsUpward
  <2> HIDE DEF D
  <2> QED BY <2>3, <2>4 DEF DependsUpward
<1>10. \A b \in Checksum : cost'[b] =
          IF direct[c] + depended'[c] > 0 /\ b \in D THEN None ELSE kept[b]
  <2>1. rev' = [d \in Checksum |-> left.rev[d] \union (IF d \in Range(ds) THEN {c} ELSE {})]
    BY DEF RegisterDependencies
  <2>2. cost' = IF direct[c] + depended'[c] > 0 THEN Without(kept, rev', c) ELSE kept
    BY <2>1 DEF RegisterDependencies
  <2> HIDE DEF kept
  <2>3. cost' = IF direct[c] + depended'[c] > 0 
                THEN [d \in Checksum |-> IF d \in D THEN None ELSE kept[d]] ELSE kept
    BY <2>2 DEF Without
  <2> QED BY <2>3
<1>11. ASSUME ~(direct[c] + depended'[c] > 0)
       PROVE  D \subseteq {c} /\ kept[c] = None
  <2>1. ~Interesting(c)'
    BY <1>2, <1>11 DEF Interesting
  <2>2. D \subseteq {c}
    <3>1. (IndInv => \A p \in Checksum : ~Interesting(p) => Dependents(rev, p) \subseteq {p})'
      BY NoneDepends, PTL
    <3> QED BY <2>1, <3>1
  <2>3. CASE c \in released
    BY <2>2, <2>3
  <2>4. CASE c \notin released
    <3>1. ~Interesting(c)
      BY <1>8, <2>1, <2>4
    <3> QED BY <1>1, <2>2, <2>4, <3>1 DEF CachedIsInteresting
  <2> QED BY <2>3, <2>4
<1>12. ClosedDown(R)
  <2>1. ASSUME NEW b \in R, NEW d \in Range(deps[b]) PROVE d \in R
    <3>1. b \in Checksum \ gone /\ b \notin D /\ d \in Checksum
      BY <1>1, DepsIn
    <3>2. d \notin released
      BY <1>4, <3>1
    <3>3. d \notin D
      <4>1. d \in Range(deps'[b])
        BY <1>5, <3>1
      <4> HIDE DEF D
      <4> QED BY <1>9, <3>1, <4>1
    <3> HIDE DEF D
    <3> QED BY <1>9, <3>1, <3>2, <3>3
  <2>2. R \subseteq Checksum
    OBVIOUS
  <2> HIDE DEF R
  <2> QED BY <2>1, <2>2 DEF ClosedDown
<1>13. \A b \in R : deps'[b] = deps[b]
  BY <1>5
<1>14. \A b \in Checksum : cost'[b] \in {None, cost[b]}
  <2> HIDE DEF D, released
  <2> QED BY <1>10
<1>15. ASSUME NEW b \in Checksum \ R PROVE cost'[b] = None
  <2>1. b \in D \/ b \in released
    <3> HIDE DEF D, released
    <3> QED BY <1>9
  <2>2. CASE b \in released
    <3> HIDE DEF D, released
    <3> QED BY <1>10, <2>2
  <2>3. CASE b \in D
    <3> HIDE DEF D, kept
    <3> QED BY <1>10, <1>11, <2>3
  <2> QED BY <2>1, <2>2, <2>3
<1>16. ASSUME NEW b \in R, cost[b] # None PROVE Interesting(b)'
  <2>1. Interesting(b) /\ b \in Checksum \ released
    BY <1>1, <1>16 DEF CachedIsInteresting
  <2> QED BY <1>8, <2>1
<1> HIDE DEF R
<1> QED BY <1>2, <1>12, <1>13, <1>14, <1>15, <1>16, GraphChangeSound

LEMMA CostsStep ==
    ASSUME CostInv, IndInv', InputsTyped', [Next]_vars
    PROVE  CostsSound'
<1>1. ASSUME NEW t \in Thread,
             MarkMeasured(t) \/ MarkDirty(t) \/ ComputeCost(t) \/ StoreCost(t)
      PROVE  CostsSound'
  BY <1>1, MarkSound, ComputeCostSound, StoreCostSound
<1>2. ASSUME NEW c \in Checksum, NEW t \in Thread,
             \/ SetTerms(t, c)
             \/ \E n \in Lengths : NotifyLength(t, c, n) \/ GetCost(t, c, n)
      PROVE  CostsSound'
  BY <1>2, SetTermsSound, NotifyLengthSound, GetCostSound
<1>3. ASSUME NEW c \in Checksum,
             \/ AddInterest(c) \/ RemoveInterest(c)
             \/ \E ds \in Dependencies : RegisterDependencies(c, ds)
      PROVE  CostsSound'
  BY <1>3, AddInterestSound, RemoveInterestSound, RegisterSound
<1>4. CASE UNCHANGED vars
  <2>1. /\ length' = length /\ terms' = terms /\ deps' = deps /\ rev' = rev
        /\ depended' = depended /\ direct' = direct /\ cost' = cost /\ call' = call
    BY <1>4 DEF vars, inputs, graph
  <2> QED BY <2>1, InterestKeptSound DEF Interesting
<1>5. CASE Next
  BY <1>5, <1>1, <1>2, <1>3, Zenon DEF Next
<1> QED BY <1>4, <1>5

LEMMA CostStep == CostInv /\ [Next]_vars => CostInv'
<1> SUFFICES ASSUME CostInv, [Next]_vars PROVE CostInv'
  OBVIOUS
<1>1. IndInv'
  BY NextInv DEF CostInv
<1>2. TypeOK'
  BY <1>1, TypeStep DEF CostInv
<1>3. InputsTyped'
  BY <1>1, <1>2 DEF IndInv, GraphTyped, TypeOK, InputsTyped
<1>4. CostsSound'
  BY <1>1, <1>3, CostsStep
<1> QED BY <1>1, <1>2, <1>4 DEF CostInv, CostsSound

-----------------------------------------------------------------------------
(* The theorems on costs *)

\* Types, one thread at a time inside the lock, and sound costs in the cache
\* and on the way to it: the invariant that everything about costs rests on.
THEOREM SpecCostInv == Spec => []CostInv
<1>1. Init => CostInv
  BY InitInv, InitCosts DEF CostInv, CostsSound
<1> QED BY <1>1, CostStep, PTL DEF Spec

\* The variables keep their types, with the graph and the calls between steps.
THEOREM TypeCorrect == Spec => []TypeOK
<1>1. CostInv => TypeOK
  BY DEF CostInv
<1> QED BY <1>1, SpecCostInv, PTL

\* A cost is cached only of what is in the strong cache or what something of
\* interest depends on: a release drops it with the interest (_maybe_release).
THEOREM CacheStaysSmall == Spec => []CachedIsInteresting
<1>1. CostInv => CachedIsInteresting
  BY DEF CostInv
<1> QED BY <1>1, SpecCostInv, PTL

\* No order of registrations, releases, changed terms and computations by
\* several threads leaves a stale cost behind that nobody has still to mark.
THEOREM CostsStayCurrent == Spec => []CostsCurrent
<1>1. CostInv => CostsCurrent
  BY DEF CostInv
<1> QED BY <1>1, SpecCostInv, PTL
=============================================================================
