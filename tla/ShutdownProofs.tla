--------------------------- MODULE ShutdownProofs ---------------------------
(***************************************************************************)
(* Proofs about RefHolders and Shutdown, for any Cells, Expressions,       *)
(* checksums and conversions: the accounting of references agrees with     *)
(* what holders claim, close leaves nothing behind, and a Cell's result is *)
(* that of its recipe.                                                     *)
(***************************************************************************)
EXTENDS Shutdown, FiniteSetTheorems, TLAPS

-----------------------------------------------------------------------------
(* Counting *)

b(P) == IF P THEN 1 ELSE 0

LEMMA WithoutOne ==
    ASSUME NEW S, NEW x, IsFiniteSet(S)
    PROVE  /\ Cardinality(S) \in Nat /\ Cardinality(S \ {x}) \in Nat
           /\ Cardinality(S) = Cardinality(S \ {x}) + b(x \in S)
<1>1. Cardinality(S) \in Nat /\ Cardinality(S \ {x}) \in Nat
  BY FS_RemoveElement, FS_CardinalityType
<1>2. Cardinality(S \ {x}) = IF x \in S THEN Cardinality(S) - 1 ELSE Cardinality(S)
  BY FS_RemoveElement
<1> QED BY <1>1, <1>2 DEF b

\* A set that changes at one element.
LEMMA OneChanged ==
    ASSUME NEW S, NEW T, NEW x, IsFiniteSet(S), IsFiniteSet(T), S \ {x} = T \ {x}
    PROVE  /\ Cardinality(S) \in Nat /\ Cardinality(T) \in Nat
           /\ Cardinality(T) = Cardinality(S) - b(x \in S) + b(x \in T)
<1>1. PICK n : n = Cardinality(S \ {x})
  OBVIOUS
<1>2. n \in Nat /\ Cardinality(S) \in Nat /\ Cardinality(S) = n + b(x \in S)
  BY <1>1, WithoutOne
<1>3. Cardinality(T) \in Nat /\ Cardinality(T) = n + b(x \in T)
  BY <1>1, WithoutOne
<1> QED BY <1>2, <1>3 DEF b

LEMMA OccurrencesOfNone ==
    ASSUME NEW d
    PROVE  Occurrences(<<>>, d) = 0
<1>1. {i \in DOMAIN <<>> : <<>>[i] = d} = {}
  OBVIOUS
<1> QED BY <1>1, FS_EmptySet DEF Occurrences

LEMMA OccurrencesOfOne ==
    ASSUME NEW v, NEW d
    PROVE  Occurrences(<<v>>, d) = b(v = d)
<1>1. CASE v = d
  <2>1. {i \in DOMAIN <<v>> : <<v>>[i] = d} = {1}
    BY <1>1
  <2> QED BY <1>1, <2>1, FS_Singleton DEF Occurrences, b
<1>2. CASE v # d
  <2>1. {i \in DOMAIN <<v>> : <<v>>[i] = d} = {}
    BY <1>2
  <2> QED BY <1>2, <2>1, FS_EmptySet DEF Occurrences, b
<1> QED BY <1>1, <1>2

LEMMA OccurrencesOfTwo ==
    ASSUME NEW v, NEW w, NEW d
    PROVE  Occurrences(<<v, w>>, d) = b(v = d) + b(w = d)
<1> DEFINE S == {i \in DOMAIN <<v, w>> : <<v, w>>[i] = d}
<1>1. IsFiniteSet({1}) /\ Cardinality({1}) = 1 /\ IsFiniteSet({2}) /\ Cardinality({2}) = 1
  BY FS_Singleton
<1>2. CASE v = d /\ w = d
  <2>1. S = {1} \union {2}
    BY <1>2
  <2>2. Cardinality({1} \union {2}) = 2
    BY <1>1, FS_AddElement
  <2> QED BY <1>2, <2>1, <2>2 DEF Occurrences, b
<1>3. CASE v = d /\ w # d
  <2>1. S = {1}
    BY <1>3
  <2> QED BY <1>1, <1>3, <2>1 DEF Occurrences, b
<1>4. CASE v # d /\ w = d
  <2>1. S = {2}
    BY <1>4
  <2> QED BY <1>1, <1>4, <2>1 DEF Occurrences, b
<1>5. CASE v # d /\ w # d
  <2>1. S = {}
    BY <1>5
  <2> QED BY <1>5, <2>1, FS_EmptySet DEF Occurrences, b
<1> QED BY <1>2, <1>3, <1>4, <1>5

-----------------------------------------------------------------------------
(* What holders own *)

\* What one Cell and one Expression contribute to Owned(d).
CellShare(r, d) == b(r.born /\ ~r.released /\ r.input = d) + b(r.result = d)
ExprShare(x, d) == b(x.born /\ ~x.released /\ x.wants /\ x.result = d)

OwnedByCells(d) == Cardinality(InputHolders(d)) + Cardinality({c \in Cell : cell[c].result = d})
OwnedByExprs(d) == Cardinality(ExprHolders(d))

LEMMA OwnedParts ==
    ASSUME NEW d
    PROVE  /\ OwnedByCells(d) \in Nat /\ OwnedByExprs(d) \in Nat
           /\ Owned(d) = OwnedByCells(d) + OwnedByExprs(d)
           /\ OwnedByCells(d)' \in Nat /\ OwnedByExprs(d)' \in Nat
           /\ Owned(d)' = OwnedByCells(d)' + OwnedByExprs(d)'
<1> DEFINE R == {c \in Cell : cell[c].result = d}
<1>1. /\ InputHolders(d) \subseteq Cell /\ InputHolders(d)' \subseteq Cell
      /\ R \subseteq Cell /\ R' \subseteq Cell
      /\ ExprHolders(d) \subseteq Expr /\ ExprHolders(d)' \subseteq Expr
  BY DEF InputHolders, ExprHolders
<1>2. /\ IsFiniteSet(InputHolders(d)) /\ IsFiniteSet(InputHolders(d)')
      /\ IsFiniteSet(R) /\ IsFiniteSet(R')
      /\ IsFiniteSet(ExprHolders(d)) /\ IsFiniteSet(ExprHolders(d)')
  BY <1>1, HolderAssumption, FS_Subset
<1>3. /\ Cardinality(InputHolders(d)) \in Nat /\ Cardinality(InputHolders(d)') \in Nat
      /\ Cardinality(R) \in Nat /\ Cardinality(R') \in Nat
      /\ Cardinality(ExprHolders(d)) \in Nat /\ Cardinality(ExprHolders(d)') \in Nat
  BY <1>2, FS_CardinalityType
<1> QED BY <1>3 DEF OwnedByCells, OwnedByExprs, Owned

LEMMA CellShareChange ==
    ASSUME NEW c \in Cell, \A x \in Cell \ {c} : cell'[x] = cell[x], NEW d
    PROVE  OwnedByCells(d)' = OwnedByCells(d) - CellShare(cell[c], d) + CellShare(cell'[c], d)
<1> DEFINE R == {x \in Cell : cell[x].result = d}
<1>1. /\ InputHolders(d) \subseteq Cell /\ InputHolders(d)' \subseteq Cell
      /\ R \subseteq Cell /\ R' \subseteq Cell
  BY DEF InputHolders
<1>2. /\ IsFiniteSet(InputHolders(d)) /\ IsFiniteSet(InputHolders(d)')
      /\ IsFiniteSet(R) /\ IsFiniteSet(R')
  BY <1>1, HolderAssumption, FS_Subset
<1>3. InputHolders(d) \ {c} = InputHolders(d)' \ {c}
  BY DEF InputHolders
<1>4. R \ {c} = R' \ {c}
  OBVIOUS
<1>5. /\ Cardinality(InputHolders(d)) \in Nat /\ Cardinality(InputHolders(d)') \in Nat
      /\ Cardinality(InputHolders(d)') =
           Cardinality(InputHolders(d)) - b(c \in InputHolders(d)) + b(c \in InputHolders(d)')
  BY <1>2, <1>3, OneChanged
<1> HIDE DEF R
<1>6. /\ Cardinality(R) \in Nat /\ Cardinality(R') \in Nat
      /\ Cardinality(R') = Cardinality(R) - b(c \in R) + b(c \in R')
  BY <1>2, <1>4, OneChanged
<1>7. /\ c \in InputHolders(d) <=> cell[c].born /\ ~cell[c].released /\ cell[c].input = d
      /\ c \in InputHolders(d)' <=> cell'[c].born /\ ~cell'[c].released /\ cell'[c].input = d
  BY DEF InputHolders
<1>8. (c \in R <=> cell[c].result = d) /\ (c \in R' <=> cell'[c].result = d)
  BY DEF R
<1>9. /\ OwnedByCells(d) = Cardinality(InputHolders(d)) + Cardinality(R)
      /\ OwnedByCells(d)' = Cardinality(InputHolders(d)') + Cardinality(R')
  BY DEF OwnedByCells, R
<1> QED BY <1>5, <1>6, <1>7, <1>8, <1>9 DEF CellShare, b

LEMMA ExprShareChange ==
    ASSUME NEW e \in Expr, \A x \in Expr \ {e} : expr'[x] = expr[x], NEW d
    PROVE  OwnedByExprs(d)' = OwnedByExprs(d) - ExprShare(expr[e], d) + ExprShare(expr'[e], d)
<1>1. ExprHolders(d) \subseteq Expr /\ ExprHolders(d)' \subseteq Expr
  BY DEF ExprHolders
<1>2. IsFiniteSet(ExprHolders(d)) /\ IsFiniteSet(ExprHolders(d)')
  BY <1>1, HolderAssumption, FS_Subset
<1>3. ExprHolders(d) \ {e} = ExprHolders(d)' \ {e}
  BY DEF ExprHolders
<1>4. /\ Cardinality(ExprHolders(d)) \in Nat /\ Cardinality(ExprHolders(d)') \in Nat
      /\ Cardinality(ExprHolders(d)') =
           Cardinality(ExprHolders(d)) - b(e \in ExprHolders(d)) + b(e \in ExprHolders(d)')
  BY <1>2, <1>3, OneChanged
<1>5. /\ e \in ExprHolders(d) <=>
           expr[e].born /\ ~expr[e].released /\ expr[e].wants /\ expr[e].result = d
      /\ e \in ExprHolders(d)' <=>
           expr'[e].born /\ ~expr'[e].released /\ expr'[e].wants /\ expr'[e].result = d
  BY DEF ExprHolders
<1> QED BY <1>4, <1>5 DEF OwnedByExprs, ExprShare, b

-----------------------------------------------------------------------------
(* Recipes *)

LEMMA MadeTyped ==
    ASSUME NEW v \in Data \union {Nothing, Fails}, NEW how \in {"same", "item", "convert"}
    PROVE  Made(v, how) \in Data \union {Nothing, Fails}
BY HolderAssumption DEF Made

LEMMA HowTyped ==
    ASSUME NEW i, NEW t, NEW p
    PROVE  HowTo(i, t, p) \in {"same", "item", "convert"}
BY DEF HowTo

\* What a recipe produces is a checksum, nothing or a failure, and its key
\* says what.
LEMMA MeaningFacts ==
    ASSUME HolderTypeOK, CellsSound, NEW c \in Cell
    PROVE  /\ Meaning(c) \in Data \union {Nothing, Fails}
           /\ Key(c) \in RecipeKey
           /\ KeyMeaning(Key(c)) = Meaning(c)
<1>1. \A x \in Cell : cell[x].input \notin Cell => OwnMeaning(x) \in Data \union {Nothing, Fails}
  <2> TAKE x \in Cell
  <2> HAVE cell[x].input \notin Cell
  <2>1. cell[x].input \in Data \union {Nothing, Fails}
    BY DEF HolderTypeOK, CellState, Maybe
  <2>2. How(x) \in {"same", "item", "convert"}
    BY HowTyped DEF How
  <2> QED BY <2>1, <2>2, MadeTyped DEF OwnMeaning
<1>2. \A x \in Cell : Configuration(x) \in Config
  <2> TAKE x \in Cell
  <2>1. InType(x) \in Maybe(Celltype)
    BY DEF InType, HolderTypeOK, CellState, Maybe
  <2>2. cell[x].type \in Maybe(Celltype) /\ cell[x].path \in BOOLEAN
    BY DEF HolderTypeOK, CellState
  <2> QED BY <2>1, <2>2 DEF Configuration, Config
<1>3. \A x \in Cell : OwnKey(x) \in ObjectKey
  <2> TAKE x \in Cell
  <2>1. cell[x].input \in Maybe(Data \union Cell)
    BY DEF HolderTypeOK, CellState
  <2> QED BY <1>2, <2>1 DEF OwnKey, ObjectKey
<1>4. CASE cell[c].input \in Cell
  <2> DEFINE s == cell[c].input
  <2>1. s \in Cell /\ cell[s].input \notin Cell
    BY <1>4 DEF CellsSound
  <2>2. OwnMeaning(s) \in Data \union {Nothing, Fails} /\ OwnKey(s) \in ObjectKey
    BY <1>1, <1>3, <2>1
  <2>3. How(c) \in {"same", "item", "convert"}
    BY HowTyped DEF How
  <2>4. Meaning(c) = Made(OwnMeaning(s), How(c))
    BY <1>4 DEF Meaning
  <2>5. Key(c) = <<"cell", OwnKey(s), Configuration(c)>>
    BY <1>4 DEF Key
  <2>6. KeyMeaning(Key(c)) = Meaning(c)
    BY <2>4, <2>5 DEF KeyMeaning, OwnKey, Configuration, OwnMeaning, How
  <2>7. Key(c) \in RecipeKey
    BY <1>2, <2>2, <2>5 DEF RecipeKey
  <2> QED BY <2>2, <2>3, <2>4, <2>6, <2>7, MadeTyped
<1>5. CASE cell[c].input \notin Cell
  <2>1. Meaning(c) = OwnMeaning(c) /\ Key(c) = OwnKey(c)
    BY <1>5 DEF Meaning, Key
  <2>2. KeyMeaning(OwnKey(c)) = OwnMeaning(c)
    BY DEF KeyMeaning, OwnKey, Configuration, OwnMeaning, How
  <2>3. Key(c) \in RecipeKey
    BY <1>3, <2>1 DEF RecipeKey
  <2> QED BY <1>1, <1>5, <2>1, <2>2, <2>3
<1> QED BY <1>4, <1>5

-----------------------------------------------------------------------------
(* What a step may make of a Cell, of an Expression and of the computations *)

GoodCell(c, r) ==
    /\ r \in CellState
    /\ ~r.born => ~r.kept /\ r.input = Nothing /\ r.result = Nothing
    /\ r.input \in Cell => r.input # c /\ cell[r.input].born /\ cell[r.input].input \notin Cell
    /\ r.input \in Cell \/ ~r.born => \A x \in Cell : cell[x].input # c
    /\ r.result # Nothing /\ ~r.late => r.result = KeyMeaning(r.key)

LEMMA CellChange ==
    ASSUME HolderTypeOK, CellsSound, NEW c \in Cell, NEW r, GoodCell(c, r),
           cell' = [cell EXCEPT ![c] = r]
    PROVE  cell' \in [Cell -> CellState] /\ CellsSound'
<1>1. cell' \in [Cell -> CellState]
  BY DEF HolderTypeOK, GoodCell
<1>2. cell'[c] = r /\ \A x \in Cell \ {c} : cell'[x] = cell[x]
  BY DEF HolderTypeOK
<1>3. ASSUME NEW x \in Cell
      PROVE  /\ ~cell'[x].born =>
                  ~cell'[x].kept /\ cell'[x].input = Nothing /\ cell'[x].result = Nothing
             /\ cell'[x].input \in Cell =>
                  cell'[cell'[x].input].born /\ cell'[cell'[x].input].input \notin Cell
             /\ cell'[x].result # Nothing /\ ~cell'[x].late =>
                  cell'[x].result = KeyMeaning(cell'[x].key)
  <2>1. CASE x = c
    BY <1>2, <2>1 DEF GoodCell
  <2>2. CASE x # c
    <3>1. cell'[x] = cell[x]
      BY <1>2, <2>2
    <3>2. ASSUME cell[x].input \in Cell
          PROVE  cell'[cell[x].input].born /\ cell'[cell[x].input].input \notin Cell
      <4>1. CASE cell[x].input = c
        BY <1>2, <3>2, <4>1 DEF GoodCell
      <4>2. CASE cell[x].input # c
        BY <1>2, <3>2, <4>2 DEF CellsSound
      <4> QED BY <4>1, <4>2
    <3> QED BY <3>1, <3>2 DEF CellsSound
  <2> QED BY <2>1, <2>2
<1>4. CellsSound'
  BY <1>3 DEF CellsSound, KeyMeaning
<1> QED BY <1>1, <1>4

\* A Cell that keeps its input keeps what the invariant says of sources.
LEMMA SameInput ==
    ASSUME HolderTypeOK, CellsSound, NEW c \in Cell, NEW r,
           r \in CellState, r.born, r.input = cell[c].input,
           r.result # Nothing /\ ~r.late => r.result = KeyMeaning(r.key)
    PROVE  GoodCell(c, r)
BY DEF CellsSound, GoodCell

\* So does one that gets a checksum, or nothing, as its input.
LEMMA PlainInput ==
    ASSUME NEW c \in Cell, NEW r, r \in CellState, r.born, r.input \notin Cell,
           r.result # Nothing /\ ~r.late => r.result = KeyMeaning(r.key)
    PROVE  GoodCell(c, r)
BY DEF GoodCell

GoodExpr(x) ==
    /\ x \in ExprState
    /\ ~x.born => ~x.kept /\ ~x.wants
    /\ x.result # Nothing => x.result = x.means
    /\ ~x.released => (x.held <=> x.wants /\ x.result # Nothing)

LEMMA ExprChange ==
    ASSUME HolderTypeOK, ExprsSound, NEW e \in Expr, NEW x, GoodExpr(x),
           expr' = [expr EXCEPT ![e] = x]
    PROVE  expr' \in [Expr -> ExprState] /\ ExprsSound'
<1>1. expr' \in [Expr -> ExprState]
  BY DEF HolderTypeOK, GoodExpr
<1>2. expr'[e] = x /\ \A y \in Expr \ {e} : expr'[y] = expr[y]
  BY DEF HolderTypeOK
<1>3. ExprsSound'
  BY <1>2 DEF ExprsSound, GoodExpr
<1> QED BY <1>1, <1>3

\* Computations end, or go on with their Expressions as they were.
LEMMA FlightsChange ==
    ASSUME HolderTypeOK, FlightsSound,
           \A c \in Cell : flight'[c] \in {flight[c], Nothing},
           \A c \in Cell : flight'[c] # Nothing =>
               LET x == expr[flight[c].expr]
                   y == expr'[flight[c].expr]
               IN  /\ y.born = x.born /\ y.kept = x.kept /\ y.wants = x.wants
                   /\ y.result = x.result /\ y.means = x.means
    PROVE  FlightsSound'
<1> SUFFICES ASSUME NEW c \in Cell, flight'[c] # Nothing, NEW e, e = flight'[c].expr
             PROVE  /\ expr'[e].born /\ ~expr'[e].kept /\ expr'[e].wants
                    /\ expr'[e].result = Nothing
                    /\ expr'[e].means = KeyMeaning(flight'[c].key)
                    /\ \A x \in Cell \ {c} : flight'[x] # Nothing => flight'[x].expr # e
  BY DEF FlightsSound, KeyMeaning
<1>1. flight'[c] = flight[c]
  OBVIOUS
<1>2. \A x \in Cell : flight'[x] # Nothing => flight'[x] = flight[x]
  OBVIOUS
<1> QED BY <1>1, <1>2 DEF FlightsSound

\* Neither a new Expression nor one that the program has is in a computation.
LEMMA NotInFlight ==
    ASSUME HolderTypeOK, FlightsSound, NEW e \in Expr, ~expr[e].born \/ expr[e].kept,
           NEW c \in Cell, flight[c] # Nothing
    PROVE  flight[c].expr # e
BY DEF FlightsSound

LEMMA FlightsApart ==
    ASSUME HolderTypeOK, FlightsSound, UNCHANGED flight, NEW e \in Expr, NEW x,
           expr' = [expr EXCEPT ![e] = x],
           \A c \in Cell : flight[c] # Nothing => flight[c].expr # e
    PROVE  FlightsSound'
<1>1. \A c \in Cell : flight[c] # Nothing => expr'[flight[c].expr] = expr[flight[c].expr]
  BY DEF HolderTypeOK, Maybe
<1> QED BY <1>1, FlightsChange

-----------------------------------------------------------------------------
(* The accounting of a step *)

\* The accounting stays exact, and it stays enough.
StaysExact == \A d \in Data : count[d] = Owned(d) => count'[d] = Owned(d)'
StaysEnough == \A d \in Data : count[d] >= Owned(d) => count'[d] >= Owned(d)'

LEMMA AccountFacts ==
    ASSUME HolderTypeOK, NEW plus, NEW minus, Account(plus, minus),
           \A d \in Data : Occurrences(plus, d) \in Nat /\ Occurrences(minus, d) \in Nat
    PROVE  /\ count' \in [Data -> Nat]
           /\ (\A d \in Data :
                 Owned(d)' = Owned(d) + Occurrences(plus, d) - Occurrences(minus, d))
                => StaysExact /\ StaysEnough
           /\ (\A d \in Data :
                 Owned(d)' <= Owned(d) + Occurrences(plus, d) - Occurrences(minus, d))
                => StaysEnough
<1>1. \A d \in Data : count[d] \in Nat /\ Owned(d) \in Nat /\ Owned(d)' \in Nat
  BY OwnedParts DEF HolderTypeOK
<1> DEFINE n(d) == count[d] + Occurrences(plus, d) - Occurrences(minus, d)
<1>2. count' = [d \in Data |-> IF n(d) > 0 THEN n(d) ELSE 0]
  BY DEF Account
<1>3. \A d \in Data : n(d) \in Int /\ count'[d] = IF n(d) > 0 THEN n(d) ELSE 0
  BY <1>1, <1>2
<1>4. count' \in [Data -> Nat]
  BY <1>2, <1>3
<1>5. ASSUME \A d \in Data :
               Owned(d)' = Owned(d) + Occurrences(plus, d) - Occurrences(minus, d)
      PROVE  StaysExact /\ StaysEnough
  BY <1>1, <1>3, <1>5 DEF StaysExact, StaysEnough
<1>6. ASSUME \A d \in Data :
               Owned(d)' <= Owned(d) + Occurrences(plus, d) - Occurrences(minus, d)
      PROVE  StaysEnough
  BY <1>1, <1>3, <1>6 DEF StaysEnough
<1> QED BY <1>4, <1>5, <1>6

\* A step that changes one Cell and accounts for the difference.
CellBalanced(c, r, plus, minus) ==
    /\ cell' = [cell EXCEPT ![c] = r] /\ UNCHANGED expr
    /\ Account(plus, minus)
    /\ \A d \in Data :
        /\ Occurrences(plus, d) \in Nat /\ Occurrences(minus, d) \in Nat
        /\ CellShare(r, d) =
             CellShare(cell[c], d) + Occurrences(plus, d) - Occurrences(minus, d)

LEMMA CellBalance ==
    ASSUME HolderTypeOK, NEW c \in Cell, NEW r, NEW plus, NEW minus,
           CellBalanced(c, r, plus, minus)
    PROVE  count' \in [Data -> Nat] /\ StaysExact /\ StaysEnough
<1> USE DEF CellBalanced
<1>1. cell'[c] = r /\ \A x \in Cell \ {c} : cell'[x] = cell[x]
  BY DEF HolderTypeOK
<1>2. \A d \in Data :
        OwnedByCells(d)' = OwnedByCells(d) - CellShare(cell[c], d) + CellShare(r, d)
  BY <1>1, CellShareChange
<1>3. \A d \in Data : OwnedByExprs(d)' = OwnedByExprs(d)
  BY DEF OwnedByExprs, ExprHolders
<1>4. \A d \in Data : CellShare(cell[c], d) \in Nat
  BY DEF CellShare, b
<1>5. \A d \in Data : Owned(d)' = Owned(d) + Occurrences(plus, d) - Occurrences(minus, d)
  BY <1>2, <1>3, <1>4, OwnedParts
<1> QED BY <1>5, AccountFacts

\* A step that changes one Expression and accounts for the difference.
ExprBalanced(e, x, plus, minus) ==
    /\ expr' = [expr EXCEPT ![e] = x] /\ UNCHANGED cell
    /\ Account(plus, minus)
    /\ \A d \in Data :
        /\ Occurrences(plus, d) \in Nat /\ Occurrences(minus, d) \in Nat
        /\ ExprShare(x, d) =
             ExprShare(expr[e], d) + Occurrences(plus, d) - Occurrences(minus, d)

LEMMA ExprBalance ==
    ASSUME HolderTypeOK, NEW e \in Expr, NEW x, NEW plus, NEW minus,
           ExprBalanced(e, x, plus, minus)
    PROVE  count' \in [Data -> Nat] /\ StaysExact /\ StaysEnough
<1> USE DEF ExprBalanced
<1>1. expr'[e] = x /\ \A y \in Expr \ {e} : expr'[y] = expr[y]
  BY DEF HolderTypeOK
<1>2. \A d \in Data :
        OwnedByExprs(d)' = OwnedByExprs(d) - ExprShare(expr[e], d) + ExprShare(x, d)
  BY <1>1, ExprShareChange
<1>3. \A d \in Data : OwnedByCells(d)' = OwnedByCells(d)
  BY DEF OwnedByCells, InputHolders
<1>4. \A d \in Data : ExprShare(expr[e], d) \in Nat
  BY DEF ExprShare, b
<1>5. \A d \in Data : Owned(d)' = Owned(d) + Occurrences(plus, d) - Occurrences(minus, d)
  BY <1>2, <1>3, <1>4, OwnedParts
<1> QED BY <1>5, AccountFacts

\* A step that changes both.
BothBalanced(c, r, e, x, plus, minus) ==
    /\ cell' = [cell EXCEPT ![c] = r] /\ expr' = [expr EXCEPT ![e] = x]
    /\ Account(plus, minus)
    /\ \A d \in Data :
        /\ Occurrences(plus, d) \in Nat /\ Occurrences(minus, d) \in Nat
        /\ CellShare(r, d) + ExprShare(x, d) =
             CellShare(cell[c], d) + ExprShare(expr[e], d)
             + Occurrences(plus, d) - Occurrences(minus, d)

LEMMA BothBalance ==
    ASSUME HolderTypeOK, NEW c \in Cell, NEW r, NEW e \in Expr, NEW x, NEW plus, NEW minus,
           BothBalanced(c, r, e, x, plus, minus)
    PROVE  count' \in [Data -> Nat] /\ StaysExact /\ StaysEnough
<1> USE DEF BothBalanced
<1>1. cell'[c] = r /\ \A y \in Cell \ {c} : cell'[y] = cell[y]
  BY DEF HolderTypeOK
<1>2. expr'[e] = x /\ \A y \in Expr \ {e} : expr'[y] = expr[y]
  BY DEF HolderTypeOK
<1>3. \A d \in Data :
        OwnedByCells(d)' = OwnedByCells(d) - CellShare(cell[c], d) + CellShare(r, d)
  BY <1>1, CellShareChange
<1>4. \A d \in Data :
        OwnedByExprs(d)' = OwnedByExprs(d) - ExprShare(expr[e], d) + ExprShare(x, d)
  BY <1>2, ExprShareChange
<1>5. \A d \in Data : /\ CellShare(cell[c], d) \in Nat /\ ExprShare(expr[e], d) \in Nat
                      /\ CellShare(r, d) \in Nat /\ ExprShare(x, d) \in Nat
  BY DEF CellShare, ExprShare, b
<1>6. \A d \in Data : Owned(d)' = Owned(d) + Occurrences(plus, d) - Occurrences(minus, d)
  BY <1>3, <1>4, <1>5, OwnedParts
<1> QED BY <1>6, AccountFacts

-----------------------------------------------------------------------------
(* Steps of the program *)

Unreleased == (\A c \in Cell : ~cell[c].released) /\ (\A e \in Expr : ~expr[e].released)

LEMMA CellOnly ==
    ASSUME HoldersSound, NEW c \in Cell, NEW r, GoodCell(c, r),
           r.born \/ flight[c] = Nothing,
           cell' = [cell EXCEPT ![c] = r], UNCHANGED <<expr, flight>>, count' \in [Data -> Nat]
    PROVE  HoldersSound' /\ (Unreleased /\ ~r.released => Unreleased')
<1>1. cell' \in [Cell -> CellState] /\ CellsSound'
  BY CellChange DEF HoldersSound
<1>2. HolderTypeOK'
  BY <1>1 DEF HoldersSound, HolderTypeOK
<1>3. ExprsSound' /\ FlightsSound'
  BY DEF HoldersSound, ExprsSound, FlightsSound, KeyMeaning
<1>4. Unreleased /\ ~r.released => Unreleased'
  BY DEF Unreleased, HoldersSound, HolderTypeOK
<1>5. ComputingBorn'
  BY DEF ComputingBorn, HoldersSound, HolderTypeOK
<1> QED BY <1>1, <1>2, <1>3, <1>4, <1>5 DEF HoldersSound

\* What the program refers to exists.
LEMMA KeptIsBorn ==
    ASSUME HoldersSound
    PROVE  /\ \A c \in Cell : cell[c].kept => cell[c].born
           /\ \A e \in Expr : expr[e].kept => expr[e].born
BY DEF HoldersSound, CellsSound, ExprsSound

LEMMA NewCellInv ==
    ASSUME HoldersSound, Unreleased, NEW c \in Cell, NEW input \in Maybe(Data \union Cell),
           NEW type \in Celltype, NEW path \in BOOLEAN, NewCell(c, input, type, path)
    PROVE  HoldersSound' /\ Unreleased' /\ StaysExact
<1> DEFINE r == [NoCell EXCEPT
                  !.born = TRUE, !.kept = TRUE, !.input = input,
                  !.intype = IF input \in Data THEN type ELSE Nothing,
                  !.type = type, !.path = path]
<1>1. /\ cell' = [cell EXCEPT ![c] = r] /\ Account(<<input>>, <<>>)
      /\ UNCHANGED <<expr, flight>> /\ ~cell[c].born
      /\ input \in Cell => cell[input].kept /\ cell[input].input \notin Cell
  BY DEF NewCell
<1>2. r \in CellState /\ r.born /\ r.input = input /\ r.result = Nothing /\ ~r.released
  BY DEF CellState, NoCell, Maybe
<1> HIDE DEF r
<1>3. \A x \in Cell : cell[x].input # c
  BY <1>1 DEF HoldersSound, CellsSound
<1>4. input \in Cell => input # c /\ cell[input].born
  BY <1>1, KeptIsBorn
<1>5. GoodCell(c, r)
  BY <1>1, <1>2, <1>3, <1>4 DEF GoodCell
<1>6. \A d \in Data : /\ Occurrences(<<input>>, d) = b(input = d)
                      /\ Occurrences(<<>>, d) = 0
                      /\ CellShare(cell[c], d) = 0
                      /\ CellShare(r, d) = b(input = d)
  BY <1>1, <1>2, OccurrencesOfNone, OccurrencesOfOne, HolderAssumption
     DEF CellShare, b, HoldersSound, CellsSound
<1>7. count' \in [Data -> Nat] /\ StaysExact
  <2>1. CellBalanced(c, r, <<input>>, <<>>)
    BY <1>1, <1>6 DEF CellBalanced, b
  <2> QED BY <2>1, CellBalance DEF HoldersSound
<1> QED BY <1>1, <1>2, <1>5, <1>7, CellOnly

\* _set_result_checksum(None).
LEMMA ClearedFacts ==
    ASSUME NEW r \in CellState
    PROVE  /\ Cleared(r) \in CellState
           /\ Cleared(r).born = r.born /\ Cleared(r).kept = r.kept
           /\ Cleared(r).input = r.input /\ Cleared(r).intype = r.intype
           /\ Cleared(r).type = r.type
           /\ Cleared(r).path = r.path /\ Cleared(r).key = r.key
           /\ Cleared(r).released = r.released
           /\ Cleared(r).result = Nothing
BY DEF Cleared, CellState, Maybe

\* A write replaces the input and drops the result.
LEMMA InputReplaced ==
    ASSUME HoldersSound, Unreleased, NEW c \in Cell, cell[c].born, NEW r \in CellState,
           r.born, ~r.released, r.input \in Maybe(Data), r.result = Nothing,
           cell' = [cell EXCEPT ![c] = r],
           Account(<<r.input>>, <<cell[c].result, cell[c].input>>),
           UNCHANGED <<expr, flight>>
    PROVE  HoldersSound' /\ Unreleased' /\ StaysExact
<1>1. r.input \notin Cell
  BY HolderAssumption DEF Maybe
<1>2. GoodCell(c, r)
  BY <1>1, PlainInput
<1>3. \A d \in Data :
        /\ Occurrences(<<r.input>>, d) = b(r.input = d)
        /\ Occurrences(<<cell[c].result, cell[c].input>>, d) =
             b(cell[c].result = d) + b(cell[c].input = d)
        /\ CellShare(cell[c], d) = b(cell[c].input = d) + b(cell[c].result = d)
        /\ CellShare(r, d) = b(r.input = d)
  BY OccurrencesOfOne, OccurrencesOfTwo, HolderAssumption DEF CellShare, b, Unreleased
<1>4. count' \in [Data -> Nat] /\ StaysExact
  <2>1. CellBalanced(c, r, <<r.input>>, <<cell[c].result, cell[c].input>>)
    BY <1>3 DEF CellBalanced, b
  <2> QED BY <2>1, CellBalance DEF HoldersSound
<1> QED BY <1>2, <1>4, CellOnly

LEMMA WriteInv ==
    ASSUME HoldersSound, Unreleased, NEW c \in Cell, NEW d \in Maybe(Data), Write(c, d)
    PROVE  HoldersSound' /\ Unreleased' /\ StaysExact
<1> DEFINE t == IF d = Nothing THEN Nothing ELSE cell[c].type
           r == [Cleared(cell[c]) EXCEPT !.input = d, !.intype = t]
<1>1. cell[c] \in CellState /\ cell[c].born /\ ~cell[c].released
  BY KeptIsBorn DEF Write, HoldersSound, HolderTypeOK, Unreleased
<1>2. /\ cell' = [cell EXCEPT ![c] = r] /\ Account(<<d>>, <<cell[c].result, cell[c].input>>)
      /\ UNCHANGED <<expr, flight>>
  BY DEF Write, Replaced
<1>3. t \in Maybe(Celltype) /\ d \in Maybe(Data \union Cell)
  BY <1>1 DEF CellState, Maybe
<1> HIDE DEF t
<1>4. r \in CellState /\ r.born /\ ~r.released /\ r.input = d /\ r.result = Nothing
  <2>1. Cleared(cell[c]) \in CellState
    BY <1>1, ClearedFacts
  <2>2. r \in CellState /\ r.input = d /\ r.born = Cleared(cell[c]).born
        /\ r.released = Cleared(cell[c]).released /\ r.result = Cleared(cell[c]).result
    BY <1>3, <2>1 DEF CellState
  <2> QED BY <1>1, <2>2, ClearedFacts
<1> HIDE DEF r
<1> QED BY <1>1, <1>2, <1>4, InputReplaced

LEMMA WriteThroughInv ==
    ASSUME HoldersSound, Unreleased, NEW h \in Cell, NEW d \in Data, WriteThrough(h, d)
    PROVE  HoldersSound' /\ Unreleased' /\ StaysExact
<1>1. PICK c \in Cell : c = cell[h].input
  BY DEF WriteThrough
<1> DEFINE r == [Cleared(cell[c]) EXCEPT !.input = d, !.intype = cell[c].type, !.key = Key(c)]
<1>2. cell[c] \in CellState /\ cell[c].born /\ ~cell[c].released
  BY <1>1 DEF HoldersSound, HolderTypeOK, Unreleased, CellsSound
<1>3. /\ cell' = [cell EXCEPT ![c] = r] /\ Account(<<d>>, <<cell[c].result, cell[c].input>>)
      /\ UNCHANGED <<expr, flight>>
  BY <1>1 DEF WriteThrough
<1>4. Key(c) \in Maybe(RecipeKey) /\ cell[c].type \in Maybe(Celltype)
      /\ d \in Maybe(Data \union Cell) /\ d \in Maybe(Data)
  BY <1>2, MeaningFacts DEF CellState, Maybe, HoldersSound
<1>5. r \in CellState /\ r.born /\ ~r.released /\ r.input = d /\ r.result = Nothing
  <2>1. Cleared(cell[c]) \in CellState
    BY <1>2, ClearedFacts
  <2>2. r \in CellState /\ r.input = d /\ r.born = Cleared(cell[c]).born
        /\ r.released = Cleared(cell[c]).released /\ r.result = Cleared(cell[c]).result
    BY <1>4, <2>1 DEF CellState
  <2> QED BY <1>2, <2>2, ClearedFacts
<1> HIDE DEF r
<1> QED BY <1>2, <1>3, <1>4, <1>5, InputReplaced

\* A step that changes a result, its key or the type, and not the input.
LEMMA ResultReplaced ==
    ASSUME HoldersSound, Unreleased, NEW c \in Cell, cell[c].born, NEW r \in CellState,
           r.born, ~r.released, r.input = cell[c].input,
           r.result # Nothing /\ ~r.late => r.result = KeyMeaning(r.key),
           cell' = [cell EXCEPT ![c] = r], UNCHANGED <<expr, flight>>,
           NEW dropped, Account(<<>>, <<dropped>>),
           r.result = IF dropped = Nothing THEN cell[c].result ELSE Nothing,
           dropped \in {Nothing, cell[c].result}
    PROVE  HoldersSound' /\ Unreleased' /\ StaysExact
<1>1. GoodCell(c, r)
  BY SameInput DEF HoldersSound
<1>2. \A d \in Data :
        /\ Occurrences(<<>>, d) = 0
        /\ Occurrences(<<dropped>>, d) = b(dropped = d)
        /\ CellShare(cell[c], d) = b(cell[c].input = d) + b(cell[c].result = d)
        /\ CellShare(r, d) = b(cell[c].input = d) + b(r.result = d)
  BY OccurrencesOfNone, OccurrencesOfOne DEF CellShare, b, Unreleased
<1>3. \A d \in Data : b(r.result = d) = b(cell[c].result = d) - b(dropped = d)
  BY HolderAssumption DEF b
<1>4. count' \in [Data -> Nat] /\ StaysExact
  <2>1. CellBalanced(c, r, <<>>, <<dropped>>)
    BY <1>2, <1>3 DEF CellBalanced, b
  <2> QED BY <2>1, CellBalance DEF HoldersSound
<1> QED BY <1>1, <1>4, CellOnly

LEMMA RetypeInv ==
    ASSUME HoldersSound, Unreleased, NEW c \in Cell, NEW t \in Celltype, Retype(c, t)
    PROVE  HoldersSound' /\ Unreleased' /\ StaysExact
<1> DEFINE r == [Cleared(cell[c]) EXCEPT !.type = t]
<1>1. cell[c] \in CellState /\ cell[c].born /\ ~cell[c].released
  BY KeptIsBorn DEF Retype, HoldersSound, HolderTypeOK, Unreleased
<1>2. /\ cell' = [cell EXCEPT ![c] = r] /\ Account(<<>>, <<cell[c].result>>)
      /\ UNCHANGED <<expr, flight>>
  BY DEF Retype
<1>3. Cleared(cell[c]) \in CellState
  BY <1>1, ClearedFacts
<1>4. /\ r \in CellState /\ r.input = Cleared(cell[c]).input /\ r.born = Cleared(cell[c]).born
      /\ r.released = Cleared(cell[c]).released /\ r.result = Cleared(cell[c]).result
  BY <1>3 DEF CellState, Maybe
<1>5. r.input = cell[c].input /\ r.born /\ ~r.released /\ r.result = Nothing
  BY <1>1, <1>4, ClearedFacts
<1> HIDE DEF r
<1> QED BY <1>1, <1>2, <1>4, <1>5, ResultReplaced

\* A step that leaves the accounting alone, and rightly so.
LEMMA CellNeutral ==
    ASSUME HolderTypeOK, NEW c \in Cell, NEW r, cell' = [cell EXCEPT ![c] = r],
           UNCHANGED <<expr, count>>,
           \A d \in Data : CellShare(r, d) = CellShare(cell[c], d)
    PROVE  count' \in [Data -> Nat] /\ StaysExact /\ StaysEnough
<1>1. cell'[c] = r /\ \A x \in Cell \ {c} : cell'[x] = cell[x]
  BY DEF HolderTypeOK
<1>2. \A d \in Data :
        OwnedByCells(d)' = OwnedByCells(d) - CellShare(cell[c], d) + CellShare(r, d)
  BY <1>1, CellShareChange
<1>3. \A d \in Data : OwnedByExprs(d)' = OwnedByExprs(d)
  BY DEF OwnedByExprs, ExprHolders
<1>4. \A d \in Data : CellShare(cell[c], d) \in Nat
  BY DEF CellShare, b
<1>5. \A d \in Data : Owned(d)' = Owned(d)
  BY <1>2, <1>3, <1>4, OwnedParts
<1> QED BY <1>5 DEF StaysExact, StaysEnough, HolderTypeOK

LEMMA ClearOrDropInv ==
    ASSUME HoldersSound, Unreleased, NEW c \in Cell, ClearException(c) \/ DropCell(c)
    PROVE  HoldersSound' /\ Unreleased' /\ StaysExact
<1>1. cell[c] \in CellState /\ cell[c].born /\ ~cell[c].released
  BY KeptIsBorn DEF ClearException, DropCell, HoldersSound, HolderTypeOK, Unreleased
<1>2. PICK r : /\ cell' = [cell EXCEPT ![c] = r]
               /\ r \in {[cell[c] EXCEPT !.failed = FALSE], [cell[c] EXCEPT !.kept = FALSE]}
  BY DEF ClearException, DropCell
<1>3. UNCHANGED <<expr, flight, count>>
  BY DEF ClearException, DropCell
<1>4. /\ r \in CellState /\ r.born = cell[c].born /\ r.input = cell[c].input
      /\ r.released = cell[c].released /\ r.result = cell[c].result
      /\ r.late = cell[c].late /\ r.key = cell[c].key
  BY <1>1, <1>2 DEF CellState
<1>5. GoodCell(c, r)
  BY <1>1, <1>4, SameInput DEF HoldersSound, CellsSound
<1>6. \A d \in Data : CellShare(r, d) = CellShare(cell[c], d)
  BY <1>4 DEF CellShare
<1>7. count' \in [Data -> Nat] /\ StaysExact
  BY <1>2, <1>3, <1>6, CellNeutral DEF HoldersSound
<1> QED BY <1>1, <1>2, <1>3, <1>4, <1>5, <1>7, CellOnly

LEMMA CopyCellInv ==
    ASSUME HoldersSound, Unreleased, NEW c \in Cell, NEW x \in Cell, CopyCell(c, x)
    PROVE  HoldersSound' /\ Unreleased' /\ StaysExact
<1>1. PICK r : r = cell[c]
  OBVIOUS
<1>2. /\ cell' = [cell EXCEPT ![x] = r] /\ Account(<<r.input, r.result>>, <<>>)
      /\ UNCHANGED <<expr, flight>> /\ ~cell[x].born /\ r.input # x
  BY <1>1 DEF CopyCell
<1>3. r \in CellState /\ r.born /\ ~r.released
  BY <1>1, KeptIsBorn DEF CopyCell, HoldersSound, HolderTypeOK, Unreleased
<1>4. \A y \in Cell : cell[y].input # x
  BY <1>2 DEF HoldersSound, CellsSound
<1>5. GoodCell(x, r)
  BY <1>1, <1>2, <1>3, <1>4 DEF GoodCell, HoldersSound, CellsSound
<1>6. \A d \in Data : /\ Occurrences(<<r.input, r.result>>, d) = b(r.input = d) + b(r.result = d)
                      /\ Occurrences(<<>>, d) = 0
                      /\ CellShare(cell[x], d) = 0
                      /\ CellShare(r, d) = b(r.input = d) + b(r.result = d)
  BY <1>2, <1>3, OccurrencesOfNone, OccurrencesOfTwo, HolderAssumption
     DEF CellShare, b, HoldersSound, CellsSound
<1>7. CellBalanced(x, r, <<r.input, r.result>>, <<>>)
  BY <1>2, <1>6 DEF CellBalanced, b
<1>8. count' \in [Data -> Nat] /\ StaysExact
  BY <1>7, CellBalance DEF HoldersSound
<1> QED BY <1>2, <1>3, <1>5, <1>8, CellOnly

\* _sync_recipe brings the key up to date, and drops a result if it has to.
LEMMA SyncedFacts ==
    ASSUME HoldersSound, NEW c \in Cell
    PROVE  /\ Synced(c) \in CellState
           /\ Synced(c).born = cell[c].born /\ Synced(c).kept = cell[c].kept
           /\ Synced(c).released = cell[c].released
           /\ Synced(c).input = cell[c].input
           /\ Synced(c).key = Key(c)
           /\ DroppedBySync(c) \in {Nothing, cell[c].result}
           /\ Synced(c).result = IF DroppedBySync(c) = Nothing THEN cell[c].result ELSE Nothing
           /\ Synced(c).result # Nothing /\ ~Synced(c).late =>
                Synced(c).result = KeyMeaning(Key(c))
<1>1. cell[c] \in CellState /\ Key(c) \in Maybe(RecipeKey)
  BY MeaningFacts DEF HoldersSound, HolderTypeOK, Maybe
<1>2. CASE Key(c) = cell[c].key
  BY <1>1, <1>2 DEF Synced, DroppedBySync, HoldersSound, CellsSound
<1>3. CASE Key(c) # cell[c].key
  <2> DEFINE k == Cleared(cell[c])
             r == [k EXCEPT !.key = Key(c)]
  <2>1. k \in CellState
    BY <1>1, ClearedFacts
  <2>2. Synced(c) = r
    BY <1>3 DEF Synced
  <2> HIDE DEF k
  <2>3. /\ r \in CellState /\ r.born = k.born /\ r.kept = k.kept /\ r.released = k.released
        /\ r.input = k.input /\ r.key = Key(c) /\ r.result = k.result
    BY <1>1, <2>1 DEF CellState
  <2>4. DroppedBySync(c) = cell[c].result
    BY <1>3 DEF DroppedBySync
  <2> QED BY <1>1, <2>2, <2>3, <2>4, ClearedFacts DEF k
<1> QED BY <1>2, <1>3

LEMMA InspectInv ==
    ASSUME HoldersSound, Unreleased, NEW c \in Cell, Inspect(c)
    PROVE  HoldersSound' /\ Unreleased' /\ StaysExact
<1>1. cell[c].born /\ ~cell[c].released
  BY KeptIsBorn DEF Inspect, Unreleased
<1>2. PICK r, dropped : r = Synced(c) /\ dropped = DroppedBySync(c)
  OBVIOUS
<1>3. /\ cell' = [cell EXCEPT ![c] = r] /\ Account(<<>>, <<dropped>>)
      /\ UNCHANGED <<expr, flight>>
  BY <1>2 DEF Inspect
<1>4. /\ r \in CellState /\ r.born /\ ~r.released /\ r.input = cell[c].input
      /\ dropped \in {Nothing, cell[c].result}
      /\ r.result = IF dropped = Nothing THEN cell[c].result ELSE Nothing
      /\ r.result # Nothing /\ ~r.late => r.result = KeyMeaning(r.key)
  BY <1>1, <1>2, SyncedFacts
<1> QED BY <1>1, <1>3, <1>4, ResultReplaced

LEMMA BothChanged ==
    ASSUME HoldersSound, NEW c \in Cell, NEW r, GoodCell(c, r), cell' = [cell EXCEPT ![c] = r],
           NEW e \in Expr, NEW x, GoodExpr(x), expr' = [expr EXCEPT ![e] = x],
           r.born, \A y \in Cell \ {c} : flight'[y] = flight[y],
           count' \in [Data -> Nat], FlightsSound',
           flight' \in [Cell -> Maybe([expr : Expr, key : RecipeKey])]
    PROVE  HoldersSound' /\ (Unreleased /\ ~r.released /\ ~x.released => Unreleased')
<1>1. cell' \in [Cell -> CellState] /\ CellsSound'
  BY CellChange DEF HoldersSound
<1>2. expr' \in [Expr -> ExprState] /\ ExprsSound'
  BY ExprChange DEF HoldersSound
<1>3. HolderTypeOK'
  BY <1>1, <1>2 DEF HolderTypeOK
<1>4. Unreleased /\ ~r.released /\ ~x.released => Unreleased'
  BY DEF Unreleased, HoldersSound, HolderTypeOK
<1>5. ComputingBorn'
  BY DEF ComputingBorn, HoldersSound, HolderTypeOK
<1> QED BY <1>1, <1>2, <1>3, <1>4, <1>5 DEF HoldersSound

\* The snapshot of a recipe.
LEMMA BuiltFacts ==
    ASSUME HoldersSound, NEW c \in Cell, NEW wants \in BOOLEAN
    PROVE  /\ Built(c, wants) \in ExprState
           /\ Built(c, wants).born /\ ~Built(c, wants).kept
           /\ Built(c, wants).means = Meaning(c) /\ Built(c, wants).result = Nothing
           /\ Built(c, wants).wants = wants /\ ~Built(c, wants).held
           /\ ~Built(c, wants).released
<1>1. Meaning(c) \in Data \union {Nothing, Fails}
  BY MeaningFacts DEF HoldersSound
<1>2. NoExpr \in ExprState
  BY DEF NoExpr, ExprState, Maybe
<1> QED BY <1>1, <1>2 DEF Built, NoExpr, ExprState

LEMMA ReadInv ==
    ASSUME HoldersSound, Unreleased, NEW c \in Cell, Read(c)
    PROVE  HoldersSound' /\ Unreleased' /\ StaysExact
<1>1. cell[c].born /\ ~cell[c].released
  BY KeptIsBorn DEF Read, Unreleased
<1>2. PICK s, dropped : s = Synced(c) /\ dropped = DroppedBySync(c)
  OBVIOUS
<1>3. PICK e \in Expr, v \in {Meaning(c), Fails, "refused"} :
        /\ ~expr[e].born
        /\ expr' = [expr EXCEPT ![e] = [Built(c, FALSE) EXCEPT
                                          !.result = IF v \in Data THEN v ELSE Nothing]]
        /\ cell' = [cell EXCEPT ![c] = [s EXCEPT
                      !.built = IF v = Nothing THEN Nothing ELSE e,
                      !.failed = v = Fails,
                      !.result = IF v \in Data THEN v ELSE Nothing]]
        /\ Account(<<v>>, <<dropped>>)
  BY <1>2 DEF Read
<1>4. UNCHANGED flight /\ s.result = Nothing
  BY <1>2 DEF Read
<1>5. PICK w : w = IF v \in Data THEN v ELSE Nothing
  OBVIOUS
<1> DEFINE n == IF v = Nothing THEN Nothing ELSE e
           r == [s EXCEPT !.built = n, !.failed = v = Fails, !.result = w]
           x == [Built(c, FALSE) EXCEPT !.result = w]
<1>6. /\ s \in CellState /\ s.born /\ ~s.released /\ s.input = cell[c].input /\ s.key = Key(c)
      /\ dropped \in {Nothing, cell[c].result}
      /\ Nothing = IF dropped = Nothing THEN cell[c].result ELSE Nothing
  BY <1>1, <1>2, <1>4, SyncedFacts
<1>7. cell' = [cell EXCEPT ![c] = r] /\ expr' = [expr EXCEPT ![e] = x]
  BY <1>3, <1>5
<1>8. w \in Maybe(Data) /\ (w # Nothing => w = v /\ w \in Data)
  BY <1>5 DEF Maybe
<1>9. w # Nothing => w = Meaning(c)
  BY <1>8, HolderAssumption
<1>10. /\ r \in CellState /\ r.born /\ ~r.released /\ r.input = cell[c].input
       /\ r.result = w /\ r.key = Key(c)
  <2>1. n \in Maybe(Expr) /\ (v = Fails) \in BOOLEAN
    BY DEF Maybe
  <2> HIDE DEF n
  <2> QED BY <1>6, <1>8, <2>1 DEF CellState
<1>11. GoodCell(c, r)
  <2>1. w # Nothing => w = KeyMeaning(Key(c))
    BY <1>9, MeaningFacts DEF HoldersSound
  <2> HIDE DEF r
  <2> QED BY <1>10, <2>1, SameInput DEF HoldersSound
<1>12. /\ x \in ExprState /\ x.born /\ ~x.kept /\ x.means = Meaning(c) /\ x.result = w
       /\ ~x.wants /\ ~x.held /\ ~x.released
  BY <1>8, BuiltFacts DEF ExprState
<1> HIDE DEF x
<1>13. GoodExpr(x)
  BY <1>9, <1>12 DEF GoodExpr
<1>14. FlightsSound'
  BY <1>3, <1>4, <1>7, NotInFlight, FlightsApart DEF HoldersSound
<1> HIDE DEF r
<1>15. ASSUME NEW d \in Data
       PROVE  /\ Occurrences(<<v>>, d) = b(w = d)
              /\ Occurrences(<<dropped>>, d) = b(cell[c].result = d)
              /\ CellShare(cell[c], d) = b(cell[c].input = d) + b(cell[c].result = d)
              /\ CellShare(r, d) = b(cell[c].input = d) + b(w = d)
              /\ ExprShare(expr[e], d) = 0 /\ ExprShare(x, d) = 0
  <2>1. Occurrences(<<v>>, d) = b(v = d) /\ Occurrences(<<dropped>>, d) = b(dropped = d)
    BY OccurrencesOfOne
  <2>2. (v = d <=> w = d) /\ (dropped = d <=> cell[c].result = d)
    BY <1>5, <1>6, HolderAssumption
  <2>3. /\ CellShare(cell[c], d) = b(cell[c].input = d) + b(cell[c].result = d)
        /\ CellShare(r, d) = b(cell[c].input = d) + b(w = d)
    BY <1>1, <1>10 DEF CellShare, b
  <2>4. ExprShare(expr[e], d) = 0 /\ ExprShare(x, d) = 0
    BY <1>3, <1>12 DEF ExprShare, b
  <2> QED BY <2>1, <2>2, <2>3, <2>4 DEF b
<1>16. BothBalanced(c, r, e, x, <<v>>, <<dropped>>)
  <2>1. \A d \in Data :
          /\ Occurrences(<<v>>, d) \in Nat /\ Occurrences(<<dropped>>, d) \in Nat
          /\ CellShare(r, d) + ExprShare(x, d) =
               CellShare(cell[c], d) + ExprShare(expr[e], d)
               + Occurrences(<<v>>, d) - Occurrences(<<dropped>>, d)
    BY <1>15 DEF b
  <2> QED BY <1>3, <1>7, <2>1 DEF BothBalanced
<1>17. count' \in [Data -> Nat] /\ StaysExact
  BY <1>16, BothBalance DEF HoldersSound
<1>18. /\ flight' \in [Cell -> Maybe([expr : Expr, key : RecipeKey])]
       /\ \A y \in Cell \ {c} : flight'[y] = flight[y]
  BY <1>4 DEF HoldersSound, HolderTypeOK
<1> QED BY <1>7, <1>10, <1>11, <1>12, <1>13, <1>14, <1>17, <1>18, BothChanged

LEMMA OutcomeFacts ==
    ASSUME NEW r \in CellState, NEW v
    PROVE  /\ Outcome(r, v) \in CellState
           /\ Outcome(r, v).born = r.born /\ Outcome(r, v).released = r.released
           /\ Outcome(r, v).input = r.input /\ Outcome(r, v).key = r.key
           /\ Outcome(r, v).late = r.late
           /\ Outcome(r, v).result = IF v \in Data THEN v ELSE Nothing
<1>1. CASE v \in Data
  BY <1>1 DEF Outcome, CellState, Maybe
<1>2. CASE v \notin Data
  BY <1>2 DEF Outcome, CellState, Maybe
<1> QED BY <1>1, <1>2

LEMMA ComputeInv ==
    ASSUME HoldersSound, Unreleased, NEW c \in Cell, Compute(c)
    PROVE  HoldersSound' /\ Unreleased' /\ StaysExact
<1>1. cell[c].born /\ ~cell[c].released
  BY KeptIsBorn DEF Compute, Unreleased
<1>2. PICK s : s = Synced(c)
  OBVIOUS
<1>3. PICK e \in Expr, v \in {Raised(Meaning(c)), Fails} :
        /\ ~expr[e].born
        /\ expr' = [expr EXCEPT ![e] = [Built(c, TRUE) EXCEPT
                                          !.result = IF v \in Data THEN v ELSE Nothing,
                                          !.held = v \in Data]]
        /\ cell' = [cell EXCEPT ![c] = Outcome([s EXCEPT !.built = e, !.late = FALSE], v)]
        /\ Account(<<v, v>>, <<cell[c].result>>)
  BY <1>2 DEF Compute
<1>4. UNCHANGED flight
  BY DEF Compute
<1>5. PICK w : w = IF v \in Data THEN v ELSE Nothing
  OBVIOUS
<1> DEFINE q == [s EXCEPT !.built = e, !.late = FALSE]
           r == Outcome(q, v)
           x == [Built(c, TRUE) EXCEPT !.result = w, !.held = v \in Data]
<1>6. s \in CellState /\ s.born /\ ~s.released /\ s.input = cell[c].input /\ s.key = Key(c)
  BY <1>1, <1>2, SyncedFacts
<1>7. cell' = [cell EXCEPT ![c] = r] /\ expr' = [expr EXCEPT ![e] = x]
  BY <1>3, <1>5
<1>8. w \in Maybe(Data) /\ (w # Nothing <=> v \in Data)
  BY <1>5, HolderAssumption DEF Maybe
<1>9. w # Nothing => w = Meaning(c)
  <2>1. w # Nothing => w = v /\ v # Fails
    BY <1>5, HolderAssumption
  <2>2. Raised(Meaning(c)) \in {Fails, Meaning(c)}
    BY DEF Raised
  <2> QED BY <2>1, <2>2
<1>10. /\ r \in CellState /\ r.born /\ ~r.released /\ r.input = cell[c].input
       /\ r.result = w /\ r.key = Key(c)
  <2>1. /\ q \in CellState /\ q.born = s.born /\ q.released = s.released
        /\ q.input = s.input /\ q.key = s.key
    BY <1>6 DEF CellState, Maybe
  <2> HIDE DEF q
  <2>2. /\ r \in CellState /\ r.born = q.born /\ r.released = q.released
        /\ r.input = q.input /\ r.key = q.key
        /\ r.result = IF v \in Data THEN v ELSE Nothing
    BY <2>1, OutcomeFacts
  <2> HIDE DEF r
  <2> QED BY <1>5, <1>6, <2>1, <2>2
<1> HIDE DEF r
<1>11. GoodCell(c, r)
  <2>1. w # Nothing => w = KeyMeaning(Key(c))
    BY <1>9, MeaningFacts DEF HoldersSound
  <2> QED BY <1>10, <2>1, SameInput DEF HoldersSound
<1>12. /\ x \in ExprState /\ x.born /\ ~x.kept /\ x.means = Meaning(c) /\ x.result = w
       /\ x.wants /\ (x.held <=> w # Nothing) /\ ~x.released
  <2>1. PICK made, holds : made = Built(c, TRUE) /\ holds = (v \in Data)
    OBVIOUS
  <2>2. /\ made \in ExprState /\ made.born /\ ~made.kept /\ made.means = Meaning(c)
        /\ made.wants /\ ~made.released
    BY <2>1, BuiltFacts
  <2>3. x = [made EXCEPT !.result = w, !.held = holds]
    BY <2>1
  <2>4. holds \in BOOLEAN /\ (holds <=> w # Nothing)
    <3>1. (v \in Data) \in BOOLEAN
      OBVIOUS
    <3>2. holds \in BOOLEAN /\ (holds <=> v \in Data)
      BY <2>1, <3>1
    <3> QED BY <1>8, <3>2
  <2>5. w \in Maybe(Data)
    BY <1>5 DEF Maybe
  <2> HIDE DEF x
  <2>6. x \in ExprState
    BY <2>2, <2>3, <2>4, <2>5 DEF ExprState
  <2>7. /\ x.born = made.born /\ x.kept = made.kept /\ x.means = made.means
        /\ x.wants = made.wants /\ x.released = made.released
        /\ x.result = w /\ (x.held <=> holds)
    BY <2>2, <2>3 DEF ExprState
  <2> QED BY <1>8, <2>2, <2>4, <2>6, <2>7
<1> HIDE DEF x
<1>13. GoodExpr(x)
  BY <1>9, <1>12 DEF GoodExpr
<1>14. FlightsSound'
  BY <1>3, <1>4, <1>7, NotInFlight, FlightsApart DEF HoldersSound
<1>15. ASSUME NEW d \in Data
       PROVE  /\ Occurrences(<<v, v>>, d) = b(w = d) + b(w = d)
              /\ Occurrences(<<cell[c].result>>, d) = b(cell[c].result = d)
              /\ CellShare(cell[c], d) = b(cell[c].input = d) + b(cell[c].result = d)
              /\ CellShare(r, d) = b(cell[c].input = d) + b(w = d)
              /\ ExprShare(expr[e], d) = 0 /\ ExprShare(x, d) = b(w = d)
  <2>1. /\ Occurrences(<<v, v>>, d) = b(v = d) + b(v = d)
        /\ Occurrences(<<cell[c].result>>, d) = b(cell[c].result = d)
    BY OccurrencesOfOne, OccurrencesOfTwo
  <2>2. v = d <=> w = d
    BY <1>5, HolderAssumption
  <2>3. /\ CellShare(cell[c], d) = b(cell[c].input = d) + b(cell[c].result = d)
        /\ CellShare(r, d) = b(cell[c].input = d) + b(w = d)
    BY <1>1, <1>10 DEF CellShare, b
  <2>4. ExprShare(expr[e], d) = 0 /\ ExprShare(x, d) = b(w = d)
    BY <1>3, <1>12 DEF ExprShare, b
  <2> QED BY <2>1, <2>2, <2>3, <2>4 DEF b
<1>16. BothBalanced(c, r, e, x, <<v, v>>, <<cell[c].result>>)
  <2>1. \A d \in Data :
          /\ Occurrences(<<v, v>>, d) \in Nat /\ Occurrences(<<cell[c].result>>, d) \in Nat
          /\ CellShare(r, d) + ExprShare(x, d) =
               CellShare(cell[c], d) + ExprShare(expr[e], d)
               + Occurrences(<<v, v>>, d) - Occurrences(<<cell[c].result>>, d)
    BY <1>15 DEF b
  <2> QED BY <1>3, <1>7, <2>1 DEF BothBalanced
<1>17. count' \in [Data -> Nat] /\ StaysExact
  BY <1>16, BothBalance DEF HoldersSound
<1>18. /\ flight' \in [Cell -> Maybe([expr : Expr, key : RecipeKey])]
       /\ \A y \in Cell \ {c} : flight'[y] = flight[y]
  BY <1>4 DEF HoldersSound, HolderTypeOK
<1> QED BY <1>7, <1>10, <1>11, <1>12, <1>13, <1>14, <1>17, <1>18, BothChanged

LEMMA ComputeStartInv ==
    ASSUME HoldersSound, Unreleased, NEW c \in Cell, ComputeStart(c)
    PROVE  HoldersSound' /\ Unreleased' /\ StaysExact
<1>1. cell[c].born /\ ~cell[c].released
  BY KeptIsBorn DEF ComputeStart, Unreleased
<1>2. PICK s, dropped, k : s = Synced(c) /\ dropped = DroppedBySync(c) /\ k = Key(c)
  OBVIOUS
<1>3. PICK e \in Expr :
        /\ ~expr[e].born
        /\ expr' = [expr EXCEPT ![e] = Built(c, TRUE)]
        /\ cell' = [cell EXCEPT ![c] = [s EXCEPT !.built = e]]
        /\ flight' = [flight EXCEPT ![c] = [expr |-> e, key |-> k]]
  BY <1>2 DEF ComputeStart
<1>4. Account(<<>>, <<dropped>>) /\ flight[c] = Nothing
  BY <1>2 DEF ComputeStart
<1>5. PICK x : x = Built(c, TRUE)
  OBVIOUS
<1> DEFINE r == [s EXCEPT !.built = e]
<1>6. /\ s \in CellState /\ s.born /\ ~s.released /\ s.input = cell[c].input /\ s.key = k
      /\ dropped \in {Nothing, cell[c].result}
      /\ s.result = IF dropped = Nothing THEN cell[c].result ELSE Nothing
      /\ s.result # Nothing /\ ~s.late => s.result = KeyMeaning(k)
  BY <1>1, <1>2, SyncedFacts
<1>7. cell' = [cell EXCEPT ![c] = r] /\ expr' = [expr EXCEPT ![e] = x]
  BY <1>3, <1>5
<1>8. k \in RecipeKey /\ KeyMeaning(k) = Meaning(c)
  BY <1>2, MeaningFacts DEF HoldersSound
<1>9. /\ r \in CellState /\ r.born /\ ~r.released /\ r.input = cell[c].input
      /\ r.result = s.result /\ r.key = k /\ r.late = s.late
  BY <1>6 DEF CellState, Maybe
<1> HIDE DEF r
<1>10. GoodCell(c, r)
  BY <1>6, <1>9, SameInput DEF HoldersSound
<1>11. /\ x \in ExprState /\ x.born /\ ~x.kept /\ x.means = Meaning(c) /\ x.result = Nothing
       /\ x.wants /\ ~x.held /\ ~x.released
  BY <1>5, BuiltFacts
<1>12. GoodExpr(x)
  BY <1>11 DEF GoodExpr
<1>13. /\ flight' \in [Cell -> Maybe([expr : Expr, key : RecipeKey])]
       /\ \A y \in Cell \ {c} : flight'[y] = flight[y]
  BY <1>3, <1>8 DEF HoldersSound, HolderTypeOK, Maybe
<1>14. FlightsSound'
  <2>1. /\ flight'[c].expr = e /\ flight'[c].key = k
        /\ \A y \in Cell \ {c} : flight'[y] = flight[y]
        /\ expr'[e] = x /\ \A y \in Expr \ {e} : expr'[y] = expr[y]
    BY <1>3, <1>7 DEF HoldersSound, HolderTypeOK
  <2>2. \A y \in Cell : flight[y] # Nothing => flight[y].expr \in Expr \ {e}
    BY <1>3, NotInFlight DEF HoldersSound, HolderTypeOK, Maybe
  <2> SUFFICES ASSUME NEW y \in Cell, flight'[y] # Nothing, NEW f, f = flight'[y].expr
               PROVE  /\ expr'[f].born /\ ~expr'[f].kept /\ expr'[f].wants
                      /\ expr'[f].result = Nothing
                      /\ expr'[f].means = KeyMeaning(flight'[y].key)
                      /\ \A z \in Cell \ {y} : flight'[z] # Nothing => flight'[z].expr # f
    BY DEF FlightsSound, KeyMeaning
  <2>3. CASE y = c
    BY <1>8, <1>11, <2>1, <2>2, <2>3
  <2>4. CASE y # c
    BY <2>1, <2>2, <2>4 DEF HoldersSound, FlightsSound
  <2> QED BY <2>3, <2>4
<1>15. ASSUME NEW d \in Data
       PROVE  /\ Occurrences(<<>>, d) = 0
              /\ Occurrences(<<dropped>>, d) = b(dropped = d)
              /\ CellShare(cell[c], d) = b(cell[c].input = d) + b(cell[c].result = d)
              /\ CellShare(r, d) = b(cell[c].input = d) + b(s.result = d)
              /\ b(s.result = d) = b(cell[c].result = d) - b(dropped = d)
              /\ ExprShare(expr[e], d) = 0 /\ ExprShare(x, d) = 0
  <2>1. Occurrences(<<>>, d) = 0 /\ Occurrences(<<dropped>>, d) = b(dropped = d)
    BY OccurrencesOfNone, OccurrencesOfOne
  <2>2. b(s.result = d) = b(cell[c].result = d) - b(dropped = d)
    BY <1>6, HolderAssumption DEF b
  <2>3. /\ CellShare(cell[c], d) = b(cell[c].input = d) + b(cell[c].result = d)
        /\ CellShare(r, d) = b(cell[c].input = d) + b(s.result = d)
    BY <1>1, <1>9 DEF CellShare, b
  <2>4. ExprShare(expr[e], d) = 0 /\ ExprShare(x, d) = 0
    BY <1>3, <1>11, HolderAssumption DEF ExprShare, b
  <2> QED BY <2>1, <2>2, <2>3, <2>4
<1>16. BothBalanced(c, r, e, x, <<>>, <<dropped>>)
  <2>1. \A d \in Data :
          /\ Occurrences(<<>>, d) \in Nat /\ Occurrences(<<dropped>>, d) \in Nat
          /\ CellShare(r, d) + ExprShare(x, d) =
               CellShare(cell[c], d) + ExprShare(expr[e], d)
               + Occurrences(<<>>, d) - Occurrences(<<dropped>>, d)
    BY <1>15 DEF b
  <2> QED BY <1>4, <1>7, <2>1 DEF BothBalanced
<1>17. count' \in [Data -> Nat] /\ StaysExact
  BY <1>16, BothBalance DEF HoldersSound
<1> QED BY <1>7, <1>9, <1>10, <1>11, <1>12, <1>13, <1>14, <1>17, BothChanged

LEMMA ExprOnly ==
    ASSUME HoldersSound, NEW e \in Expr, NEW x, GoodExpr(x),
           expr' = [expr EXCEPT ![e] = x], UNCHANGED <<cell, flight>>,
           count' \in [Data -> Nat], FlightsSound'
    PROVE  HoldersSound' /\ (Unreleased /\ ~x.released => Unreleased')
<1>1. expr' \in [Expr -> ExprState] /\ ExprsSound'
  BY ExprChange DEF HoldersSound
<1>2. HolderTypeOK' /\ CellsSound'
  BY <1>1 DEF HoldersSound, HolderTypeOK, CellsSound, KeyMeaning
<1>3. ComputingBorn'
  BY DEF ComputingBorn, HoldersSound
<1>4. Unreleased /\ ~x.released => Unreleased'
  BY DEF Unreleased, HoldersSound, HolderTypeOK
<1> QED BY <1>1, <1>2, <1>3, <1>4 DEF HoldersSound

\* A step that gives an Expression that no computation has a share for which
\* it accounts.
LEMMA ExprStep ==
    ASSUME HoldersSound, Unreleased, NEW e \in Expr, ~expr[e].born \/ expr[e].kept,
           NEW x, GoodExpr(x), ~x.released, UNCHANGED flight,
           NEW plus, NEW minus, ExprBalanced(e, x, plus, minus)
    PROVE  HoldersSound' /\ Unreleased' /\ StaysExact
<1>1. expr' = [expr EXCEPT ![e] = x] /\ UNCHANGED cell
  BY DEF ExprBalanced
<1>2. FlightsSound'
  BY <1>1, NotInFlight, FlightsApart DEF HoldersSound
<1>3. count' \in [Data -> Nat] /\ StaysExact
  BY ExprBalance DEF HoldersSound
<1> QED BY <1>1, <1>2, <1>3, ExprOnly

\* So does one that leaves the accounting and the share as they are.
LEMMA ExprNeutral ==
    ASSUME HoldersSound, Unreleased, NEW e \in Expr, ~expr[e].born \/ expr[e].kept,
           NEW x, GoodExpr(x), ~x.released, UNCHANGED <<cell, flight, count>>,
           expr' = [expr EXCEPT ![e] = x],
           \A d \in Data : ExprShare(x, d) = ExprShare(expr[e], d)
    PROVE  HoldersSound' /\ Unreleased' /\ StaysExact
<1>1. FlightsSound'
  BY NotInFlight, FlightsApart DEF HoldersSound
<1>2. expr'[e] = x /\ \A y \in Expr \ {e} : expr'[y] = expr[y]
  BY DEF HoldersSound, HolderTypeOK
<1>3. \A d \in Data :
        OwnedByExprs(d)' = OwnedByExprs(d) - ExprShare(expr[e], d) + ExprShare(x, d)
  BY <1>2, ExprShareChange
<1>4. \A d \in Data : OwnedByCells(d)' = OwnedByCells(d)
  BY DEF OwnedByCells, InputHolders
<1>5. \A d \in Data : ExprShare(expr[e], d) \in Nat
  BY DEF ExprShare, b
<1>6. \A d \in Data : Owned(d)' = Owned(d)
  BY <1>3, <1>4, <1>5, OwnedParts
<1>7. count' \in [Data -> Nat] /\ StaysExact
  BY <1>6 DEF StaysExact, HoldersSound, HolderTypeOK
<1> QED BY <1>1, <1>7, ExprOnly

LEMMA BuildInv ==
    ASSUME HoldersSound, Unreleased, NEW c \in Cell, NEW e \in Expr, Build(c, e)
    PROVE  HoldersSound' /\ Unreleased' /\ StaysExact
<1> DEFINE x == [Built(c, FALSE) EXCEPT !.kept = TRUE]
<1>1. /\ x \in ExprState /\ x.born /\ x.kept /\ x.result = Nothing
      /\ ~x.wants /\ ~x.held /\ ~x.released
  BY BuiltFacts DEF ExprState
<1>2. /\ expr' = [expr EXCEPT ![e] = x] /\ UNCHANGED <<cell, flight, count>>
      /\ ~expr[e].born
  BY DEF Build
<1> HIDE DEF x
<1>3. GoodExpr(x)
  BY <1>1 DEF GoodExpr
<1>4. \A d \in Data : ExprShare(x, d) = ExprShare(expr[e], d)
  BY <1>1, <1>2 DEF ExprShare, b
<1> QED BY <1>1, <1>2, <1>3, <1>4, ExprNeutral

LEMMA DropExpressionInv ==
    ASSUME HoldersSound, Unreleased, NEW e \in Expr, DropExpression(e)
    PROVE  HoldersSound' /\ Unreleased' /\ StaysExact
<1> DEFINE x == [expr[e] EXCEPT !.kept = FALSE]
<1>1. expr[e] \in ExprState /\ expr[e].kept /\ ~expr[e].released
  BY DEF DropExpression, HoldersSound, HolderTypeOK, Unreleased
<1>2. /\ x \in ExprState /\ x.born = expr[e].born /\ ~x.kept /\ x.result = expr[e].result
      /\ x.means = expr[e].means /\ x.wants = expr[e].wants /\ x.held = expr[e].held
      /\ x.released = expr[e].released
  BY <1>1 DEF ExprState
<1>3. expr' = [expr EXCEPT ![e] = x] /\ UNCHANGED <<cell, flight, count>>
  BY DEF DropExpression
<1> HIDE DEF x
<1>4. GoodExpr(x)
  BY <1>1, <1>2 DEF GoodExpr, HoldersSound, ExprsSound
<1>5. \A d \in Data : ExprShare(x, d) = ExprShare(expr[e], d)
  BY <1>2 DEF ExprShare
<1> QED BY <1>1, <1>2, <1>3, <1>4, <1>5, ExprNeutral

\* The result is held from now on; the claim is made unless it was before.
NowHeld(e, w, plus) ==
    /\ expr[e].kept
    /\ w \in Maybe(Data) /\ (w # Nothing => w = expr[e].means)
    /\ expr[e].held => w = expr[e].result
    /\ expr' = [expr EXCEPT ![e] = Enabled([expr[e] EXCEPT !.result = w])]
    /\ Account(plus, <<>>)
    /\ \A d \in Data : Occurrences(plus, d) = IF expr[e].held THEN 0 ELSE b(w = d)
    /\ UNCHANGED <<cell, flight>>

LEMMA EnabledInv ==
    ASSUME HoldersSound, Unreleased, NEW e \in Expr, NEW w, NEW plus, NowHeld(e, w, plus)
    PROVE  HoldersSound' /\ Unreleased' /\ StaysExact
<1> USE DEF NowHeld
<1> DEFINE q == [expr[e] EXCEPT !.result = w]
           x == Enabled(q)
<1>1. expr[e] \in ExprState /\ ~expr[e].released /\ expr[e].born
  BY KeptIsBorn DEF HoldersSound, HolderTypeOK, Unreleased
<1>2. /\ q \in ExprState /\ q.born = expr[e].born /\ q.kept = expr[e].kept
      /\ q.means = expr[e].means /\ q.result = w /\ q.released = expr[e].released
  BY <1>1 DEF ExprState
<1> HIDE DEF q
<1>3. /\ x \in ExprState /\ x.born = q.born /\ x.kept = q.kept /\ x.means = q.means
      /\ x.result = q.result /\ x.released = q.released /\ x.wants
      /\ (x.held <=> q.result # Nothing)
  BY <1>2 DEF Enabled, ExprState
<1>4. expr' = [expr EXCEPT ![e] = x]
  BY DEF q
<1> HIDE DEF x
<1>5. GoodExpr(x)
  BY <1>1, <1>2, <1>3 DEF GoodExpr
<1>6. expr[e].held <=> expr[e].wants /\ expr[e].result # Nothing
  BY <1>1 DEF HoldersSound, ExprsSound
<1>7. ASSUME NEW d \in Data
      PROVE  /\ Occurrences(plus, d) \in Nat /\ Occurrences(<<>>, d) = 0
             /\ ExprShare(x, d) = ExprShare(expr[e], d) + Occurrences(plus, d)
  <2>1. ExprShare(x, d) = b(w = d)
    BY <1>1, <1>2, <1>3 DEF ExprShare, b
  <2>2. ExprShare(expr[e], d) = IF expr[e].held THEN b(w = d) ELSE 0
    BY <1>1, <1>6, HolderAssumption DEF ExprShare, b
  <2> QED BY <2>1, <2>2, OccurrencesOfNone DEF b
<1>8. ExprBalanced(e, x, plus, <<>>)
  <2>1. \A d \in Data :
          /\ Occurrences(plus, d) \in Nat /\ Occurrences(<<>>, d) \in Nat
          /\ ExprShare(x, d) = ExprShare(expr[e], d) + Occurrences(plus, d) - Occurrences(<<>>, d)
    <3> TAKE d \in Data
    <3>1. ExprShare(expr[e], d) \in Nat
      BY DEF ExprShare, b
    <3> QED BY <1>7, <3>1
  <2> QED BY <1>4, <2>1 DEF ExprBalanced
<1> QED BY <1>1, <1>2, <1>3, <1>5, <1>8, ExprStep

LEMMA ReadResultInv ==
    ASSUME HoldersSound, Unreleased, NEW e \in Expr,
           expr[e].kept, expr' = [expr EXCEPT ![e] = Enabled(expr[e])],
           Account(<<NewlyHeld(expr[e])>>, <<>>), UNCHANGED <<cell, flight>>
    PROVE  HoldersSound' /\ Unreleased' /\ StaysExact
<1>1. PICK w : w = expr[e].result
  OBVIOUS
<1>2. expr[e] \in ExprState
  BY DEF HoldersSound, HolderTypeOK
<1>3. [expr[e] EXCEPT !.result = w] = expr[e] /\ w \in Maybe(Data)
  BY <1>1, <1>2 DEF ExprState
<1>4. w # Nothing => w = expr[e].means
  BY <1>1 DEF HoldersSound, ExprsSound
<1>5. \A d \in Data :
        Occurrences(<<NewlyHeld(expr[e])>>, d) = IF expr[e].held THEN 0 ELSE b(w = d)
  <2> TAKE d \in Data
  <2>1. Occurrences(<<NewlyHeld(expr[e])>>, d) = b(NewlyHeld(expr[e]) = d)
    BY OccurrencesOfOne
  <2> QED BY <1>1, <2>1, HolderAssumption DEF NewlyHeld, b
<1>6. NowHeld(e, w, <<NewlyHeld(expr[e])>>)
  BY <1>1, <1>3, <1>4, <1>5 DEF NowHeld
<1> QED BY <1>6, EnabledInv

LEMMA ComputeExpressionInv ==
    ASSUME HoldersSound, Unreleased, NEW e \in Expr, ComputeExpression(e)
    PROVE  HoldersSound' /\ Unreleased' /\ StaysExact
<1>1. PICK v \in {Raised(expr[e].means), Fails} :
        IF v = Fails
        THEN /\ expr' = [expr EXCEPT ![e] = Enabled(expr[e])]
             /\ Account(<<NewlyHeld(expr[e])>>, <<>>)
        ELSE /\ expr' = [expr EXCEPT ![e] = Enabled([expr[e] EXCEPT !.result = v])]
             /\ Account(IF expr[e].held THEN <<>> ELSE <<v>>, <<>>)
  BY DEF ComputeExpression
<1>2. expr[e].kept /\ UNCHANGED <<cell, flight>> /\ expr[e] \in ExprState /\ ~expr[e].released
  BY DEF ComputeExpression, HoldersSound, HolderTypeOK, Unreleased
<1>3. CASE v = Fails
  BY <1>1, <1>2, <1>3, ReadResultInv
<1>4. CASE v # Fails
  <2>1. v = expr[e].means /\ v \in Data
    <3>1. Raised(expr[e].means) \in {Fails, expr[e].means}
          /\ (expr[e].means = Nothing => Raised(expr[e].means) = Fails)
      BY DEF Raised
    <3> QED BY <1>2, <1>4, <3>1 DEF ExprState
  <2>2. expr[e].held => v = expr[e].result
    BY <1>2, <2>1 DEF HoldersSound, ExprsSound
  <2>3. PICK plus : plus = IF expr[e].held THEN <<>> ELSE <<v>>
    OBVIOUS
  <2>4. \A d \in Data : Occurrences(plus, d) = IF expr[e].held THEN 0 ELSE b(v = d)
    BY <2>3, OccurrencesOfNone, OccurrencesOfOne
  <2>5. NowHeld(e, v, plus)
    BY <1>1, <1>2, <1>4, <2>1, <2>2, <2>3, <2>4 DEF NowHeld, Maybe
  <2> QED BY <2>5, EnabledInv
<1> QED BY <1>3, <1>4

LEMMA CopyExpressionInv ==
    ASSUME HoldersSound, Unreleased, NEW e \in Expr, NEW y \in Expr, CopyExpression(e, y)
    PROVE  HoldersSound' /\ Unreleased' /\ StaysExact
<1>1. PICK x : x = expr[e]
  OBVIOUS
<1>2. PICK plus : plus = IF x.wants THEN <<x.result>> ELSE <<>>
  OBVIOUS
<1>3. /\ expr' = [expr EXCEPT ![y] = x] /\ Account(plus, <<>>) /\ UNCHANGED <<cell, flight>>
      /\ ~expr[y].born
  BY <1>1, <1>2 DEF CopyExpression
<1>4. GoodExpr(x) /\ ~x.released /\ x.born
  BY <1>1, KeptIsBorn DEF CopyExpression, GoodExpr, HoldersSound, HolderTypeOK, ExprsSound, Unreleased
<1>5. \A d \in Data : /\ Occurrences(plus, d) = b(x.wants /\ x.result = d)
                      /\ Occurrences(<<>>, d) = 0
                      /\ ExprShare(x, d) = b(x.wants /\ x.result = d)
                      /\ ExprShare(expr[y], d) = 0
  <2> TAKE d \in Data
  <2>1. Occurrences(plus, d) = IF x.wants THEN b(x.result = d) ELSE 0
    BY <1>2, OccurrencesOfNone, OccurrencesOfOne
  <2>2. Occurrences(plus, d) = b(x.wants /\ x.result = d)
    BY <2>1 DEF b
  <2> QED BY <1>3, <1>4, <2>2, OccurrencesOfNone DEF ExprShare, b
<1>6. ExprBalanced(y, x, plus, <<>>)
  <2>1. \A d \in Data :
          /\ Occurrences(plus, d) \in Nat /\ Occurrences(<<>>, d) \in Nat
          /\ ExprShare(x, d) = ExprShare(expr[y], d) + Occurrences(plus, d) - Occurrences(<<>>, d)
    BY <1>5 DEF b
  <2> QED BY <1>3, <2>1 DEF ExprBalanced
<1> QED BY <1>3, <1>4, <1>6, ExprStep

\* Whatever the program does, the accounting stays exact.
LEMMA UseInv ==
    ASSUME HoldersSound, Unreleased,
           (\E c \in Cell : UseCell(c)) \/ (\E e \in Expr : UseExpression(e))
    PROVE  HoldersSound' /\ Unreleased' /\ StaysExact
<1>1. ASSUME NEW c \in Cell, UseCell(c)
      PROVE  HoldersSound' /\ Unreleased' /\ StaysExact
  BY <1>1, NewCellInv, WriteInv, WriteThroughInv, RetypeInv, ClearOrDropInv, CopyCellInv,
     InspectInv, ReadInv, ComputeInv, ComputeStartInv DEF UseCell
<1>2. ASSUME NEW e \in Expr, ReadResult(e)
      PROVE  HoldersSound' /\ Unreleased' /\ StaysExact
  BY <1>2, ReadResultInv DEF ReadResult
<1>3. ASSUME NEW e \in Expr, UseExpression(e)
      PROVE  HoldersSound' /\ Unreleased' /\ StaysExact
  BY <1>2, <1>3, BuildInv, ComputeExpressionInv, DropExpressionInv, CopyExpressionInv
     DEF UseExpression
<1> QED BY <1>1, <1>3

-----------------------------------------------------------------------------
(* What happens by itself *)

LEMMA ComputeEndInv ==
    ASSUME HoldersSound, NEW c \in Cell, ComputeEnd(c)
    PROVE  HoldersSound' /\ (Unreleased => Unreleased') /\ StaysExact /\ StaysEnough
<1>1. PICK e \in Expr, k \in RecipeKey : e = flight[c].expr /\ k = flight[c].key
  BY DEF ComputeEnd, HoldersSound, HolderTypeOK, Maybe
<1>2. PICK v \in {Raised(expr[e].means), Fails} :
        /\ expr' = [expr EXCEPT ![e].result = IF v \in Data THEN v ELSE @,
                                ![e].held = v \in Data /\ ~expr[e].released]
        /\ cell' = [cell EXCEPT ![c] =
                      Outcome([cell[c] EXCEPT !.late = k # cell[c].key], v)]
        /\ Account(IF expr[e].released THEN <<v>> ELSE <<v, v>>, <<cell[c].result>>)
  BY <1>1 DEF ComputeEnd, NewClaims
<1>3. flight[c] # Nothing /\ flight' = [flight EXCEPT ![c] = Nothing]
  BY DEF ComputeEnd
<1>4. /\ expr[e] \in ExprState /\ expr[e].born /\ ~expr[e].kept /\ expr[e].wants
      /\ expr[e].result = Nothing /\ expr[e].means = KeyMeaning(k)
      /\ \A y \in Cell \ {c} : flight[y] # Nothing => flight[y].expr # e
      /\ cell[c] \in CellState /\ cell[c].born
  BY <1>1, <1>3 DEF HoldersSound, HolderTypeOK, FlightsSound, ComputingBorn
<1>5. PICK w, plus : /\ w = IF v \in Data THEN v ELSE Nothing
                     /\ plus = IF expr[e].released THEN <<v>> ELSE <<v, v>>
  OBVIOUS
<1>6. w \in Maybe(Data) /\ (w # Nothing <=> v \in Data) /\ (\A d \in Data : v = d <=> w = d)
  BY <1>5, HolderAssumption DEF Maybe
<1>7. w # Nothing => w = expr[e].means
  <2>1. w # Nothing => w = v /\ v # Fails
    BY <1>5, HolderAssumption
  <2>2. Raised(expr[e].means) \in {Fails, expr[e].means}
    BY DEF Raised
  <2> QED BY <2>1, <2>2
<1> DEFINE q == [cell[c] EXCEPT !.late = k # cell[c].key]
           r == Outcome(q, v)
           x == [expr[e] EXCEPT !.result = w, !.held = v \in Data /\ ~expr[e].released]
<1>8. /\ r \in CellState /\ r.born /\ r.released = cell[c].released
      /\ r.input = cell[c].input /\ r.result = w /\ r.key = cell[c].key
      /\ r.late <=> k # cell[c].key
  <2>1. /\ q \in CellState /\ q.born = cell[c].born /\ q.released = cell[c].released
        /\ q.input = cell[c].input /\ q.key = cell[c].key
        /\ q.late <=> k # cell[c].key
    <3>1. (k # cell[c].key) \in BOOLEAN
      OBVIOUS
    <3> QED BY <1>4, <3>1 DEF CellState
  <2> HIDE DEF q
  <2> QED BY <1>4, <1>5, <2>1, OutcomeFacts
<1>9. /\ x \in ExprState /\ x.born /\ ~x.kept /\ x.wants /\ x.result = w
      /\ x.means = expr[e].means /\ x.released = expr[e].released
      /\ (x.held <=> w # Nothing /\ ~expr[e].released)
  <2>1. (v \in Data /\ ~expr[e].released) \in BOOLEAN
    OBVIOUS
  <2> QED BY <1>4, <1>6, <2>1 DEF ExprState
<1>10. cell' = [cell EXCEPT ![c] = r]
  BY <1>2
<1>11. expr' = [expr EXCEPT ![e] = x]
  BY <1>2, <1>4, <1>5
<1> HIDE DEF r, x
<1>12. GoodCell(c, r)
  BY <1>4, <1>7, <1>8, SameInput DEF HoldersSound
<1>13. GoodExpr(x)
  BY <1>7, <1>9 DEF GoodExpr
<1>14. /\ flight' \in [Cell -> Maybe([expr : Expr, key : RecipeKey])]
       /\ \A y \in Cell \ {c} : flight'[y] = flight[y]
       /\ flight'[c] = Nothing
  BY <1>3 DEF HoldersSound, HolderTypeOK, Maybe
<1>15. FlightsSound'
  <2>1. \A y \in Cell : flight'[y] # Nothing =>
          flight'[y] = flight[y] /\ flight[y].expr \in Expr \ {e}
    BY <1>4, <1>14 DEF HoldersSound, HolderTypeOK, Maybe
  <2>2. \A y \in Cell : flight'[y] # Nothing => expr'[flight[y].expr] = expr[flight[y].expr]
    BY <1>11, <2>1 DEF HoldersSound, HolderTypeOK
  <2> QED BY <1>14, <2>1, <2>2, FlightsChange DEF HoldersSound
<1>16. ASSUME NEW d \in Data
       PROVE  /\ Occurrences(plus, d) = IF expr[e].released THEN b(w = d) ELSE b(w = d) + b(w = d)
              /\ Occurrences(<<cell[c].result>>, d) = b(cell[c].result = d)
              /\ ExprShare(expr[e], d) = 0
              /\ ExprShare(x, d) = IF expr[e].released THEN 0 ELSE b(w = d)
              /\ CellShare(r, d) = CellShare(cell[c], d) - b(cell[c].result = d) + b(w = d)
              /\ CellShare(cell[c], d) \in Nat
  <2>1. Occurrences(plus, d) = IF expr[e].released THEN b(v = d) ELSE b(v = d) + b(v = d)
    BY <1>5, OccurrencesOfOne, OccurrencesOfTwo
  <2>2. b(v = d) = b(w = d)
    BY <1>6 DEF b
  <2>3. Occurrences(<<cell[c].result>>, d) = b(cell[c].result = d)
    BY OccurrencesOfOne
  <2>4. /\ ExprShare(expr[e], d) = 0
        /\ ExprShare(x, d) = IF expr[e].released THEN 0 ELSE b(w = d)
    BY <1>4, <1>9, HolderAssumption DEF ExprShare, b
  <2>5. /\ CellShare(r, d) = CellShare(cell[c], d) - b(cell[c].result = d) + b(w = d)
        /\ CellShare(cell[c], d) \in Nat
    BY <1>4, <1>8 DEF CellShare, b
  <2> QED BY <2>1, <2>2, <2>3, <2>4, <2>5
<1>17. BothBalanced(c, r, e, x, plus, <<cell[c].result>>)
  <2>1. \A d \in Data :
          /\ Occurrences(plus, d) \in Nat /\ Occurrences(<<cell[c].result>>, d) \in Nat
          /\ CellShare(r, d) + ExprShare(x, d) =
               CellShare(cell[c], d) + ExprShare(expr[e], d)
               + Occurrences(plus, d) - Occurrences(<<cell[c].result>>, d)
    BY <1>16 DEF b
  <2> QED BY <1>2, <1>5, <1>10, <1>11, <2>1 DEF BothBalanced
<1>18. count' \in [Data -> Nat] /\ StaysExact /\ StaysEnough
  BY <1>17, BothBalance DEF HoldersSound
<1>19. Unreleased => ~r.released /\ ~x.released
  BY <1>8, <1>9 DEF Unreleased
<1> QED BY <1>8, <1>10, <1>11, <1>12, <1>13, <1>14, <1>15, <1>18, <1>19, BothChanged

LEMMA ComputeCancelledInv ==
    ASSUME HoldersSound, NEW c \in Cell, ComputeCancelled(c)
    PROVE  HoldersSound' /\ (Unreleased => Unreleased') /\ StaysExact /\ StaysEnough
<1>1. /\ flight' \in [Cell -> Maybe([expr : Expr, key : RecipeKey])]
      /\ \A y \in Cell : flight'[y] \in {flight[y], Nothing}
      /\ UNCHANGED <<cell, expr, count>>
  BY DEF ComputeCancelled, HoldersSound, HolderTypeOK, Maybe
<1>2. FlightsSound'
  BY <1>1, FlightsChange DEF HoldersSound
<1>3. HolderTypeOK' /\ CellsSound' /\ ExprsSound' /\ ComputingBorn'
  BY <1>1 DEF HoldersSound, HolderTypeOK, CellsSound, ExprsSound, ComputingBorn, KeyMeaning
<1>4. \A d \in Data : Owned(d)' = Owned(d)
  BY <1>1 DEF Owned, InputHolders, ExprHolders
<1>5. Unreleased => Unreleased'
  BY <1>1 DEF Unreleased
<1> QED BY <1>1, <1>2, <1>3, <1>4, <1>5 DEF HoldersSound, StaysExact, StaysEnough

\* What a Cell gives back at its end is what it has, unless it did so before.
LEMMA CellHoldsFacts ==
    ASSUME HoldersSound, NEW c \in Cell, NEW d \in Data
    PROVE  /\ Occurrences(CellHolds(c), d) \in Nat
           /\ CellShare(cell[c], d) >= Occurrences(CellHolds(c), d)
           /\ CellShare(cell[c], d) \in Nat
           /\ (cell[c].released => cell[c].result = Nothing) =>
                 CellShare(cell[c], d) = Occurrences(CellHolds(c), d)
<1>1. CASE cell[c].released
  <2>1. Occurrences(CellHolds(c), d) = 0
    BY <1>1, OccurrencesOfNone DEF CellHolds
  <2> QED BY <1>1, <2>1, HolderAssumption DEF CellShare, b
<1>2. CASE ~cell[c].released
  <2>1. Occurrences(CellHolds(c), d) = b(cell[c].input = d) + b(cell[c].result = d)
    BY <1>2, OccurrencesOfTwo DEF CellHolds
  <2>2. ~cell[c].born => cell[c].input # d
    BY HolderAssumption DEF HoldersSound, CellsSound
  <2> QED BY <1>2, <2>1, <2>2 DEF CellShare, b
<1> QED BY <1>1, <1>2

LEMMA ExprHoldsFacts ==
    ASSUME HoldersSound, NEW e \in Expr, NEW d \in Data
    PROVE  /\ Occurrences(ExprHolds(e), d) \in Nat
           /\ ExprShare(expr[e], d) = Occurrences(ExprHolds(e), d)
<1>1. CASE expr[e].held /\ ~expr[e].released
  <2>1. Occurrences(ExprHolds(e), d) = b(expr[e].result = d)
    BY <1>1, OccurrencesOfOne DEF ExprHolds
  <2>2. expr[e].wants
    BY <1>1 DEF HoldersSound, ExprsSound
  <2>3. expr[e].born
    BY <2>2 DEF HoldersSound, ExprsSound
  <2> QED BY <1>1, <2>1, <2>2, <2>3 DEF ExprShare, b
<1>2. CASE ~(expr[e].held /\ ~expr[e].released)
  <2>1. Occurrences(ExprHolds(e), d) = 0
    BY <1>2, OccurrencesOfNone DEF ExprHolds
  <2>2. expr[e].released \/ ~expr[e].wants \/ expr[e].result = Nothing
    BY <1>2 DEF HoldersSound, ExprsSound
  <2> QED BY <2>1, <2>2, HolderAssumption DEF ExprShare, b
<1> QED BY <1>1, <1>2

\* A Cell that is released or finalized has no share left.
LEMMA CellEndsInv ==
    ASSUME HoldersSound, NEW c \in Cell, NEW r, GoodCell(c, r),
           cell' = [cell EXCEPT ![c] = r], Account(<<>>, CellHolds(c)),
           UNCHANGED <<expr, flight>>, r.born \/ flight[c] = Nothing,
           ~r.born \/ r.released, r.result = Nothing
    PROVE  /\ HoldersSound' /\ StaysEnough
           /\ ReleasedEmpty => StaysExact /\ ReleasedEmpty'
           /\ Unreleased /\ ~r.released => Unreleased'
<1>1. cell'[c] = r /\ \A x \in Cell \ {c} : cell'[x] = cell[x]
  BY DEF HoldersSound, HolderTypeOK
<1>2. \A d \in Data : CellShare(r, d) = 0
  BY HolderAssumption DEF CellShare, b
<1>3. \A d \in Data :
        OwnedByCells(d)' = OwnedByCells(d) - CellShare(cell[c], d) + CellShare(r, d)
  BY <1>1, CellShareChange
<1>4. \A d \in Data : OwnedByExprs(d)' = OwnedByExprs(d)
  BY DEF OwnedByExprs, ExprHolders
<1>5. PICK minus : minus = CellHolds(c)
  OBVIOUS
<1>6. \A d \in Data :
        /\ Occurrences(<<>>, d) = 0
        /\ Occurrences(minus, d) \in Nat
        /\ CellShare(cell[c], d) >= Occurrences(minus, d)
        /\ CellShare(cell[c], d) \in Nat
        /\ (cell[c].released => cell[c].result = Nothing) =>
              CellShare(cell[c], d) = Occurrences(minus, d)
  BY <1>5, OccurrencesOfNone, CellHoldsFacts
<1>7. \A d \in Data : Owned(d)' <= Owned(d) + Occurrences(<<>>, d) - Occurrences(minus, d)
  BY <1>2, <1>3, <1>4, <1>6, OwnedParts
<1>8. ReleasedEmpty =>
        \A d \in Data : Owned(d)' = Owned(d) + Occurrences(<<>>, d) - Occurrences(minus, d)
  BY <1>2, <1>3, <1>4, <1>6, OwnedParts DEF ReleasedEmpty
<1>9. Account(<<>>, minus)
  BY <1>5
<1>10. /\ count' \in [Data -> Nat]
       /\ StaysEnough
       /\ ReleasedEmpty => StaysExact
  BY <1>6, <1>7, <1>8, <1>9, AccountFacts DEF HoldersSound
<1>11. ReleasedEmpty => ReleasedEmpty'
  BY <1>1 DEF ReleasedEmpty
<1> QED BY <1>10, <1>11, CellOnly

LEMMA FinalizeCellInv ==
    ASSUME HoldersSound, NEW c \in Cell, FinalizeCell(c)
    PROVE  /\ HoldersSound' /\ StaysEnough
           /\ ReleasedEmpty => StaysExact
           /\ Unreleased => Unreleased'
<1>1. /\ cell' = [cell EXCEPT ![c] = NoCell] /\ Account(<<>>, CellHolds(c))
      /\ UNCHANGED <<expr, flight>> /\ flight[c] = Nothing
      /\ \A x \in Cell : cell[x].input # c
  BY DEF FinalizeCell, CellReferred
<1>2. /\ NoCell \in CellState /\ ~NoCell.born /\ ~NoCell.kept /\ ~NoCell.released
      /\ NoCell.input = Nothing /\ NoCell.result = Nothing
  BY DEF NoCell, CellState, Maybe
<1>3. GoodCell(c, NoCell)
  BY <1>1, <1>2, HolderAssumption DEF GoodCell
<1> QED BY <1>1, <1>2, <1>3, CellEndsInv

LEMMA ReleaseCellInv ==
    ASSUME HoldersSound, NEW c \in Cell, ReleaseCell(c)
    PROVE  HoldersSound' /\ StaysEnough /\ (ReleasedEmpty => StaysExact /\ ReleasedEmpty')
<1> DEFINE r == [cell[c] EXCEPT !.released = TRUE, !.result = Nothing, !.built = Nothing]
<1>1. cell[c] \in CellState
  BY DEF HoldersSound, HolderTypeOK
<1>2. /\ cell' = [cell EXCEPT ![c] = r] /\ Account(<<>>, CellHolds(c))
      /\ UNCHANGED <<expr, flight>>
  BY DEF ReleaseCell
<1>3. /\ r \in CellState /\ r.born = cell[c].born /\ r.kept = cell[c].kept
      /\ r.input = cell[c].input /\ r.released /\ r.result = Nothing
  BY <1>1 DEF CellState, Maybe
<1> HIDE DEF r
<1>4. GoodCell(c, r)
  BY <1>3 DEF GoodCell, HoldersSound, CellsSound
<1>5. r.born \/ flight[c] = Nothing
  BY <1>3 DEF HoldersSound, ComputingBorn
<1> QED BY <1>2, <1>3, <1>4, <1>5, CellEndsInv

\* An Expression that is released or finalized gives back its share.
LEMMA ExprEndsInv ==
    ASSUME HoldersSound, NEW e \in Expr, NEW x, GoodExpr(x),
           expr' = [expr EXCEPT ![e] = x], Account(<<>>, ExprHolds(e)),
           UNCHANGED <<cell, flight>>, FlightsSound', ~x.born \/ x.released
    PROVE  /\ HoldersSound' /\ StaysExact /\ StaysEnough
           /\ Unreleased /\ ~x.released => Unreleased'
<1>1. PICK minus : minus = ExprHolds(e)
  OBVIOUS
<1>2. \A d \in Data :
        /\ Occurrences(<<>>, d) = 0
        /\ Occurrences(minus, d) \in Nat
        /\ ExprShare(expr[e], d) = Occurrences(minus, d)
        /\ ExprShare(x, d) = 0
  BY <1>1, OccurrencesOfNone, ExprHoldsFacts DEF ExprShare, b
<1>3. ExprBalanced(e, x, <<>>, minus)
  BY <1>1, <1>2 DEF ExprBalanced
<1>4. count' \in [Data -> Nat] /\ StaysExact /\ StaysEnough
  BY <1>3, ExprBalance DEF HoldersSound
<1> QED BY <1>4, ExprOnly

LEMMA FinalizeExpressionInv ==
    ASSUME HoldersSound, NEW e \in Expr, FinalizeExpression(e)
    PROVE  /\ HoldersSound' /\ StaysExact /\ StaysEnough
           /\ Unreleased => Unreleased'
<1>1. /\ expr' = [expr EXCEPT ![e] = NoExpr] /\ Account(<<>>, ExprHolds(e))
      /\ UNCHANGED <<cell, flight>>
      /\ \A c \in Cell : flight[c] # Nothing => flight[c].expr # e
  BY DEF FinalizeExpression, ExprReferred
<1>2. GoodExpr(NoExpr) /\ ~NoExpr.born /\ ~NoExpr.released
  BY DEF GoodExpr, NoExpr, ExprState, Maybe
<1>3. FlightsSound'
  BY <1>1, FlightsApart DEF HoldersSound
<1> QED BY <1>1, <1>2, <1>3, ExprEndsInv

LEMMA ReleaseExpressionInv ==
    ASSUME HoldersSound, NEW e \in Expr, ReleaseExpression(e)
    PROVE  HoldersSound' /\ StaysEnough /\ StaysExact
<1> DEFINE x == [expr[e] EXCEPT !.released = TRUE, !.held = FALSE]
<1>1. expr[e] \in ExprState
  BY DEF HoldersSound, HolderTypeOK
<1>2. /\ expr' = [expr EXCEPT ![e] = x] /\ Account(<<>>, ExprHolds(e))
      /\ UNCHANGED <<cell, flight>>
  BY DEF ReleaseExpression
<1>3. /\ x \in ExprState /\ x.born = expr[e].born /\ x.kept = expr[e].kept
      /\ x.wants = expr[e].wants /\ x.result = expr[e].result /\ x.means = expr[e].means
      /\ x.released
  BY <1>1 DEF ExprState
<1> HIDE DEF x
<1>4. GoodExpr(x)
  BY <1>3 DEF GoodExpr, HoldersSound, ExprsSound
<1>5. \A y \in Expr : /\ expr'[y].born = expr[y].born /\ expr'[y].kept = expr[y].kept
                      /\ expr'[y].wants = expr[y].wants /\ expr'[y].result = expr[y].result
                      /\ expr'[y].means = expr[y].means
  BY <1>2, <1>3 DEF HoldersSound, HolderTypeOK
<1>6. FlightsSound'
  <2>1. \A c \in Cell : flight[c] # Nothing => flight[c].expr \in Expr
    BY DEF HoldersSound, HolderTypeOK, Maybe
  <2> QED BY <1>2, <1>5, <2>1, FlightsChange DEF HoldersSound
<1> QED BY <1>2, <1>3, <1>4, <1>6, ExprEndsInv

\* Computations that end and finalizers keep the accounting as it is.
LEMMA BackgroundInv ==
    ASSUME HoldersSound, Background
    PROVE  /\ HoldersSound' /\ StaysEnough
           /\ ReleasedEmpty => StaysExact
           /\ Unreleased => Unreleased'
BY ComputeEndInv, ComputeCancelledInv, FinalizeCellInv, FinalizeExpressionInv DEF Background

-----------------------------------------------------------------------------
(* The inductive invariant *)

LEMMA InitInv ==
    ASSUME Init
    PROVE  IndInv
<1> USE DEF Init, HolderInit
<1>1. NoCell \in CellState /\ NoExpr \in ExprState
  BY DEF NoCell, CellState, NoExpr, ExprState, Maybe
<1>2. /\ ~NoCell.born /\ ~NoCell.kept /\ NoCell.input = Nothing /\ NoCell.result = Nothing
      /\ ~NoCell.released
      /\ ~NoExpr.born /\ ~NoExpr.kept /\ ~NoExpr.wants /\ ~NoExpr.held /\ ~NoExpr.released
      /\ NoExpr.result = Nothing
  BY DEF NoCell, NoExpr
<1>3. HolderTypeOK
  BY <1>1 DEF HolderTypeOK, Maybe
<1>4. CellsSound /\ ExprsSound /\ FlightsSound /\ ComputingBorn
  BY <1>2, HolderAssumption DEF CellsSound, ExprsSound, FlightsSound, ComputingBorn
<1>5. TypeOK
  <2>1. uses \in 0 .. MaxUses
    BY BoundAssumption
  <2>2. phase \in Phase /\ holders \subseteq Cell \union Expr /\ straggler \in BOOLEAN
    BY DEF Phase
  <2> QED BY <1>3, <2>1, <2>2 DEF TypeOK
<1>6. NoneReleased /\ ReleasedEmpty
  BY <1>2 DEF NoneReleased, ReleasedEmpty
<1>7. ASSUME NEW d \in Data
      PROVE  Owned(d) = 0
  <2>1. InputHolders(d) = {} /\ {c \in Cell : cell[c].result = d} = {} /\ ExprHolders(d) = {}
    BY <1>2, HolderAssumption DEF InputHolders, ExprHolders
  <2>2. Cardinality({}) = 0
    BY FS_EmptySet
  <2> QED BY <2>1, <2>2 DEF Owned
<1>8. Accounted
  BY <1>7 DEF Accounted
<1> QED BY <1>3, <1>4, <1>5, <1>6, <1>8 DEF IndInv, HoldersSound

LEMMA UseStep ==
    ASSUME IndInv, Use
    PROVE  IndInv'
<1>1. Unreleased /\ phase = "open" /\ ~straggler /\ UNCHANGED <<phase, holders, straggler>>
  BY DEF Use, IndInv, NoneReleased, Unreleased
<1>2. HoldersSound' /\ Unreleased' /\ StaysExact
  BY <1>1, UseInv DEF Use, IndInv
<1>3. TypeOK'
  BY <1>1, <1>2, BoundAssumption DEF Use, IndInv, TypeOK, HoldersSound
<1>4. NoneReleased' /\ ReleasedEmpty'
  BY <1>1, <1>2 DEF NoneReleased, Unreleased, ReleasedEmpty
<1>5. \A d \in Data : count'[d] = Owned(d)' /\ Owned(d)' \in Nat
  <2>1. \A d \in Data : count[d] = Owned(d)
    BY <1>1 DEF IndInv, Accounted
  <2>2. \A d \in Data : count'[d] \in Nat
    BY <1>2 DEF HoldersSound, HolderTypeOK
  <2> QED BY <1>2, <2>1, <2>2 DEF StaysExact
<1>6. Accounted'
  BY <1>5 DEF Accounted
<1> QED BY <1>2, <1>3, <1>4, <1>6 DEF IndInv

\* A straggler is noted when it leaves a result with a Cell that was released.
LEMMA GoOnStep ==
    ASSUME IndInv, GoOn
    PROVE  IndInv'
<1>1. /\ Background /\ UNCHANGED <<uses, phase, holders>>
      /\ straggler' = (straggler \/ \E c \in Cell : cell'[c].released /\ cell'[c].result # Nothing)
  BY DEF GoOn
<1>2. /\ HoldersSound' /\ StaysEnough
      /\ ReleasedEmpty => StaysExact
      /\ Unreleased => Unreleased'
  BY <1>1, BackgroundInv DEF IndInv
<1>3. straggler' \in BOOLEAN /\ (~straggler' => ~straggler /\ ReleasedEmpty')
  BY <1>1 DEF IndInv, TypeOK, ReleasedEmpty
<1>4. TypeOK'
  BY <1>1, <1>2, <1>3 DEF IndInv, TypeOK, HoldersSound
<1>5. NoneReleased'
  <2> SUFFICES ASSUME phase' \in {"open", "settled"}
               PROVE  Unreleased' /\ ~straggler'
    BY DEF NoneReleased, Unreleased
  <2>1. Unreleased /\ ~straggler
    BY <1>1 DEF IndInv, NoneReleased, Unreleased
  <2>2. Unreleased'
    BY <1>2, <2>1
  <2> QED BY <1>1, <2>1, <2>2 DEF Unreleased
<1>6. Accounted'
  <2> SUFFICES ASSUME phase' # "closed", NEW d \in Data
               PROVE  /\ ~straggler' => count'[d] = Owned(d)'
                      /\ count'[d] >= Owned(d)'
    BY DEF Accounted
  <2>1. /\ ~straggler => count[d] = Owned(d) /\ ReleasedEmpty
        /\ count[d] >= Owned(d)
    BY <1>1 DEF IndInv, Accounted
  <2> QED BY <1>2, <1>3, <2>1 DEF StaysExact, StaysEnough
<1> QED BY <1>2, <1>3, <1>4, <1>5, <1>6 DEF IndInv

\* The steps of close that touch no holder.
LEMMA OwnedSame ==
    ASSUME UNCHANGED <<cell, expr>>, NEW d
    PROVE  Owned(d)' = Owned(d)
BY DEF Owned, InputHolders, ExprHolders

LEMMA QuietStep ==
    ASSUME IndInv, CloseWorkers \/ CloseAudit \/ CloseClear
    PROVE  IndInv'
<1>1. /\ UNCHANGED <<cell, expr, flight, uses, straggler>>
      /\ phase' \in Phase /\ holders' \subseteq Cell \union Expr
  BY DEF CloseWorkers, CloseAudit, CloseClear, holderVars, Phase, Registered, IndInv, TypeOK
<1>2. count' \in [Data -> Nat]
  BY DEF CloseWorkers, CloseAudit, CloseClear, holderVars, IndInv, TypeOK, HolderTypeOK
<1>3. HoldersSound'
  BY <1>1, <1>2 DEF IndInv, HoldersSound, HolderTypeOK, CellsSound, ExprsSound, FlightsSound,
                    ComputingBorn, KeyMeaning
<1>4. TypeOK' /\ (~straggler' => ReleasedEmpty')
  BY <1>1, <1>3 DEF IndInv, TypeOK, HoldersSound, ReleasedEmpty
<1>5. \A d \in Data : Owned(d)' = Owned(d)
  BY <1>1, OwnedSame
<1>6. CASE CloseWorkers \/ CloseAudit
  <2>1. /\ UNCHANGED count
        /\ \/ phase = "open" /\ phase' = "settled"
           \/ phase = "settled" /\ phase' = "release"
    BY <1>6 DEF CloseWorkers, CloseAudit, holderVars
  <2>2. NoneReleased'
    BY <1>1, <2>1 DEF IndInv, NoneReleased
  <2>3. Accounted'
    BY <1>1, <1>5, <2>1 DEF IndInv, Accounted
  <2> QED BY <1>3, <1>4, <2>2, <2>3 DEF IndInv
<1>7. CASE CloseClear
  <2>1. phase' = "closed"
    BY <1>7 DEF CloseClear
  <2> QED BY <1>3, <1>4, <2>1 DEF IndInv, NoneReleased, Accounted
<1> QED BY <1>6, <1>7

LEMMA ReleaseStep ==
    ASSUME IndInv, NEW h \in Cell \union Expr, CloseRelease(h)
    PROVE  IndInv'
<1>1. /\ phase = "release" /\ UNCHANGED <<uses, phase, straggler>>
      /\ holders' = holders \ {h}
  BY DEF CloseRelease
<1>2. ASSUME h \in Expr, ReleaseExpression(h)
      PROVE  ReleasedEmpty => ReleasedEmpty'
  BY <1>2 DEF ReleaseExpression, ReleasedEmpty
<1>3. HoldersSound' /\ StaysEnough /\ (ReleasedEmpty => StaysExact /\ ReleasedEmpty')
  BY <1>2, ReleaseCellInv, ReleaseExpressionInv DEF CloseRelease, IndInv
<1>4. TypeOK'
  BY <1>1, <1>3 DEF IndInv, TypeOK, HoldersSound
<1>5. NoneReleased' /\ (~straggler' => ReleasedEmpty')
  BY <1>1, <1>3 DEF IndInv, NoneReleased
<1>6. Accounted'
  BY <1>1, <1>3 DEF IndInv, Accounted, StaysEnough, StaysExact
<1> QED BY <1>3, <1>4, <1>5, <1>6 DEF IndInv

LEMMA NextInv ==
    ASSUME IndInv, [Next]_vars
    PROVE  IndInv'
<1>1. CASE Next
  BY <1>1, UseStep, GoOnStep, QuietStep, ReleaseStep DEF Next, Close
<1>2. CASE UNCHANGED vars
  <2>1. UNCHANGED <<cell, expr, flight, count, uses, phase, holders, straggler>>
    BY <1>2 DEF vars, holderVars, shutVars
  <2>2. \A d \in Data : Owned(d)' = Owned(d)
    BY <2>1, OwnedSame
  <2>3. HoldersSound'
    BY <2>1 DEF IndInv, HoldersSound, HolderTypeOK, CellsSound, ExprsSound, FlightsSound,
                ComputingBorn, KeyMeaning
  <2>4. TypeOK' /\ NoneReleased' /\ (~straggler' => ReleasedEmpty')
    BY <2>1, <2>3 DEF IndInv, TypeOK, HoldersSound, NoneReleased, ReleasedEmpty
  <2>5. Accounted'
    BY <2>1, <2>2 DEF IndInv, Accounted
  <2> QED BY <2>3, <2>4, <2>5 DEF IndInv
<1> QED BY <1>1, <1>2

-----------------------------------------------------------------------------
(* The theorems *)

\* Holders are consistent, and what they own is accounted for, in every state
\* that the program, its computations, finalizers and close can reach.
THEOREM SpecIndInv == Spec => []IndInv
<1>1. Init => IndInv
  BY InitInv
<1>2. IndInv /\ [Next]_vars => IndInv'
  BY NextInv
<1> QED BY <1>1, <1>2, PTL DEF Spec

\* A claim is owned; unless a released Cell has a result, what is owned is
\* claimed.
LEMMA ClaimsOwned ==
    ASSUME HoldersSound, NEW d \in Data
    PROVE  /\ Claims(d) \in Nat /\ Claims(d) <= Owned(d)
           /\ ReleasedEmpty => Claims(d) = Owned(d)
<1> DEFINE R == {c \in Cell : cell[c].result = d}
<1>1. /\ InputHolders(d) \subseteq Cell /\ R \subseteq Cell /\ ExprHolders(d) \subseteq Expr
      /\ ResultHolders(d) \subseteq R
  BY DEF InputHolders, ExprHolders, ResultHolders
<1>2. IsFiniteSet(InputHolders(d)) /\ IsFiniteSet(R) /\ IsFiniteSet(ExprHolders(d))
  BY <1>1, HolderAssumption, FS_Subset
<1>3. IsFiniteSet(ResultHolders(d)) /\ Cardinality(ResultHolders(d)) <= Cardinality(R)
  BY <1>1, <1>2, FS_Subset
<1>4. /\ Cardinality(InputHolders(d)) \in Nat /\ Cardinality(R) \in Nat
      /\ Cardinality(ExprHolders(d)) \in Nat /\ Cardinality(ResultHolders(d)) \in Nat
  BY <1>2, <1>3, FS_CardinalityType
<1>5. ReleasedEmpty => ResultHolders(d) = R
  <2>1. \A c \in Cell : cell[c].result = d => cell[c].born
    BY HolderAssumption DEF HoldersSound, CellsSound
  <2> QED BY <2>1, HolderAssumption DEF ReleasedEmpty, ResultHolders
<1>6. /\ Claims(d) = Cardinality(InputHolders(d)) + Cardinality(ResultHolders(d))
                        + Cardinality(ExprHolders(d))
      /\ Owned(d) = Cardinality(InputHolders(d)) + Cardinality(R) + Cardinality(ExprHolders(d))
  BY DEF Claims, Owned
<1> HIDE DEF R
<1> QED BY <1>3, <1>4, <1>5, <1>6

\* Until close releases holders, refholder_counts are what the registered
\* holders say they hold: the audit has nothing to report.
THEOREM AccountingCorrect == Spec => []AccountingMatches
<1>1. IndInv => AccountingMatches
  BY ClaimsOwned DEF IndInv, Accounted, NoneReleased, AccountingMatches
<1> QED BY <1>1, SpecIndInv, PTL

\* No holder gives back what another one claims, while close releases holders
\* and finalizers run.
THEOREM ClaimsStayBacked == Spec => []ClaimsBacked
<1>1. ASSUME IndInv
      PROVE  ClaimsBacked
  <2> SUFFICES ASSUME phase # "closed", NEW d \in Data
               PROVE  count[d] >= Claims(d)
    BY DEF ClaimsBacked
  <2>1. /\ HoldersSound /\ count[d] \in Nat
    BY <1>1 DEF IndInv, HoldersSound, HolderTypeOK
  <2>2. Owned(d) \in Nat
    BY OwnedParts
  <2>3. Claims(d) \in Nat /\ Claims(d) <= Owned(d)
    BY <2>1, ClaimsOwned
  <2>4. count[d] >= Owned(d)
    BY <1>1, <2>1, <2>2 DEF IndInv, Accounted, TypeOK, Phase
  <2> QED BY <2>1, <2>2, <2>3, <2>4
<1> QED BY <1>1, SpecIndInv, PTL

\* While close releases holders, what is accounted is what the others claim, so
\* that after the last one nothing is left for force_clear_reference_accounting,
\* unless a computation gave a result to a Cell that was released already.
THEOREM ReleasesAreComplete == Spec => []ReleasesSuffice
<1>1. IndInv => ReleasesSuffice
  BY ClaimsOwned DEF IndInv, Accounted, ReleasesSuffice
<1> QED BY <1>1, SpecIndInv, PTL

\* A Cell whose key is up to date has the result of its recipe, unless a
\* compute_async was overtaken by a change of it.
THEOREM ResultsCurrent == Spec => []ResultCurrent
<1>1. ASSUME IndInv
      PROVE  ResultCurrent
  <2> SUFFICES ASSUME NEW c \in Cell, cell[c].result # Nothing, cell[c].key = Key(c),
                      ~cell[c].late
               PROVE  cell[c].result = Meaning(c)
    BY DEF ResultCurrent
  <2>1. cell[c].result = KeyMeaning(Key(c))
    BY <1>1 DEF IndInv, HoldersSound, CellsSound
  <2>2. KeyMeaning(Key(c)) = Meaning(c)
    BY <1>1, MeaningFacts DEF IndInv, HoldersSound
  <2> QED BY <2>1, <2>2
<1> QED BY <1>1, SpecIndInv, PTL
=============================================================================
