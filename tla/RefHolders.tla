------------------------------ MODULE RefHolders ------------------------------
(***************************************************************************)
(* Owners of results: standalone Cells (src/seamless/cell_class.py),       *)
(* Expressions (src/seamless/expression_class.py) and CellJoins            *)
(* (src/seamless/celljoin_class.py, an Expression in this respect), and    *)
(* the audit that compares what they say they hold with the accounting of  *)
(* the buffer cache (src/seamless/reference_lifecycle.py).                 *)
(*                                                                         *)
(* A Cell is a mutable recipe: an input (a checksum or another Cell), two  *)
(* types and a path.  It claims its input and its result.  The result is   *)
(* that of an Expression, a snapshot of the recipe, which may claim it as  *)
(* well.  A claim is one in the cache's refholder_counts.                  *)
(*                                                                         *)
(* Synchronous calls are single steps: a Cell is used by one thread at a   *)
(* time.  compute_async has two, before and after its await, and anything  *)
(* may happen in between.  A finalizer runs at some time after the last    *)
(* reference is gone.  What a recipe produces is given by Produces;        *)
(* evaluation may fail at any time.  Cells that are bound to a workflow    *)
(* keep no state of their own and are left out, as are the publication of  *)
(* results (scratch) and validators, which are not implemented.            *)
(***************************************************************************)
EXTENDS Integers, FiniteSets, Sequences

CONSTANTS
    Cell, Expr,    \* objects that exist at the same time
    Data,          \* checksums
    Celltype,
    Produces(_, _),   \* Produces(d, how): the checksum of d converted, or of
                      \* an item of d
    Nothing, Fails

ASSUME HolderAssumption ==
    /\ IsFiniteSet(Cell) /\ IsFiniteSet(Expr) /\ IsFiniteSet(Data)
    /\ \A d \in Data, how \in {"convert", "item"} : Produces(d, how) \in Data \union {Fails}
    /\ Nothing \notin Data \union Cell \union Expr /\ Fails \notin Data \union {Nothing}
    /\ Data \intersect Cell = {} /\ "refused" \notin Data

VARIABLES
    cell,     \* the Cells
    expr,     \* the Expressions
    flight,   \* compute_async calls that are at their await
    count     \* refholder_counts of the buffer cache

holderVars == <<cell, expr, flight, count>>

-----------------------------------------------------------------------------
(* State *)

Maybe(S) == S \union {Nothing}

\* What _cell_recipe_key returns: see Key.
Config == Maybe(Celltype) \X Maybe(Celltype) \X BOOLEAN
ObjectKey == {"object"} \X Maybe(Data \union Cell) \X Config
RecipeKey == ObjectKey \union ({"cell"} \X ObjectKey \X Config)

\* born: the object exists.  kept: the program refers to it.  failed: there is
\* a _standalone_exception.  built: _standalone_expression.  late (history):
\* the result was computed for another recipe than the key says.
CellState ==
    [born : BOOLEAN, kept : BOOLEAN, input : Maybe(Data \union Cell),
     intype : Maybe(Celltype), type : Maybe(Celltype), path : BOOLEAN, key : Maybe(RecipeKey),
     result : Maybe(Data), failed : BOOLEAN, built : Maybe(Expr),
     released : BOOLEAN, late : BOOLEAN]

\* means: what the recipe produces.  wants: _refhold_result.  held:
\* _result_refheld.
ExprState ==
    [born : BOOLEAN, kept : BOOLEAN, means : Data \union {Nothing, Fails},
     result : Maybe(Data), wants : BOOLEAN, held : BOOLEAN, released : BOOLEAN]

NoCell == [born |-> FALSE, kept |-> FALSE, input |-> Nothing, intype |-> Nothing,
           type |-> Nothing, path |-> FALSE, key |-> Nothing, result |-> Nothing,
           failed |-> FALSE, built |-> Nothing, released |-> FALSE, late |-> FALSE]
NoExpr == [born |-> FALSE, kept |-> FALSE, means |-> Nothing, result |-> Nothing,
           wants |-> FALSE, held |-> FALSE, released |-> FALSE]

HolderTypeOK ==
    /\ cell \in [Cell -> CellState]
    /\ expr \in [Expr -> ExprState]
    /\ flight \in [Cell -> Maybe([expr : Expr, key : RecipeKey])]
    /\ count \in [Data -> Nat]

HolderInit ==
    /\ cell = [c \in Cell |-> NoCell]
    /\ expr = [e \in Expr |-> NoExpr]
    /\ flight = [c \in Cell |-> Nothing]
    /\ count = [d \in Data |-> 0]

\* incref_refholder for each checksum in plus, then decref_refholder for each
\* in minus, which has no effect where there is no claim.
Occurrences(s, d) == Cardinality({i \in DOMAIN s : s[i] = d})
Account(plus, minus) ==
    count' = [d \in Data |->
                LET n == count[d] + Occurrences(plus, d) - Occurrences(minus, d)
                IN  IF n > 0 THEN n ELSE 0]

-----------------------------------------------------------------------------
(* Recipes *)

\* input_celltype follows a source, otherwise it is the declared one.
InType(c) == IF cell[c].input \in Cell THEN cell[cell[c].input].type ELSE cell[c].intype

\* What is done to an input: an item of it is taken, or it is converted.
HowTo(intype, type, path) ==
    IF path THEN "item" ELSE IF intype = type THEN "same" ELSE "convert"
How(c) == HowTo(InType(c), cell[c].type, cell[c].path)

\* _miswired: a projection that would convert, here or upstream.
MiswiredSelf(c) == cell[c].path /\ InType(c) # cell[c].type
Miswired(c) ==
    MiswiredSelf(c) \/ (cell[c].input \in Cell /\ MiswiredSelf(cell[c].input))

\* The input is the result: a checksum of the right type.
Literal(c) == cell[c].input \in Data /\ How(c) = "same"

\* What the recipe of c, as it is now, produces.  A source has no source
\* itself (NewCell).
Made(v, how) == IF v \in {Nothing, Fails} \/ how = "same" THEN v ELSE Produces(v, how)
OwnMeaning(c) == Made(cell[c].input, How(c))
Meaning(c) ==
    IF cell[c].input \in Cell THEN Made(OwnMeaning(cell[c].input), How(c)) ELSE OwnMeaning(c)

\* _cell_recipe_key: the configuration, with that of the source or, if there
\* is none, the identity of the input.  The faulty form has the identity of a
\* source too.
Configuration(c) == <<InType(c), cell[c].type, cell[c].path>>
OwnKey(c) == <<"object", cell[c].input, Configuration(c)>>
FaultyKey(c) == OwnKey(c)
Key(c) ==
    IF cell[c].input \in Cell THEN <<"cell", OwnKey(cell[c].input), Configuration(c)>>
    ELSE OwnKey(c)

-----------------------------------------------------------------------------
(* Who holds what *)

\* _refheld_checksums of the registered holders: inputs and results of Cells,
\* results of Expressions.
InputHolders(d) == {c \in Cell : cell[c].born /\ ~cell[c].released /\ cell[c].input = d}
ResultHolders(d) == {c \in Cell : cell[c].born /\ ~cell[c].released /\ cell[c].result = d}
ExprHolders(d) ==
    {e \in Expr : expr[e].born /\ ~expr[e].released /\ expr[e].wants /\ expr[e].result = d}
Claims(d) ==
    Cardinality(InputHolders(d)) + Cardinality(ResultHolders(d)) + Cardinality(ExprHolders(d))

CellReferred(c) ==
    cell[c].kept \/ flight[c] # Nothing \/ \E x \in Cell : cell[x].input = c
ExprReferred(e) ==
    \/ expr[e].kept
    \/ \E c \in Cell : cell[c].built = e \/ (flight[c] # Nothing /\ flight[c].expr = e)

-----------------------------------------------------------------------------
(* Cells: configuration *)

\* _set_result_checksum(None), which also forgets the Expression.
Cleared(r) == [r EXCEPT !.result = Nothing, !.failed = FALSE, !.built = Nothing, !.late = FALSE]

\* Cell(checksum=...), item and as_celltype (a Cell with a source, here one
\* that has no source itself).
NewCell(c, input, type, path) ==
    /\ ~cell[c].born
    /\ input \in Cell => cell[input].kept /\ cell[input].input \notin Cell
    /\ path => input \in Cell /\ type = cell[input].type
    /\ cell' = [cell EXCEPT ![c] = [NoCell EXCEPT
                  !.born = TRUE, !.kept = TRUE, !.input = input,
                  !.intype = IF input \in Data THEN type ELSE Nothing,
                  !.type = type, !.path = path]]
    /\ Account(<<input>>, <<>>)
    /\ UNCHANGED <<expr, flight>>

\* _replace_input_ref.
FaultyReplaced(c, d, intype) ==
    /\ cell' = [cell EXCEPT ![c] = [Cleared(@) EXCEPT !.input = d, !.intype = intype]]
    /\ Account(<<d>>, <<cell[c].input>>)
Replaced(c, d, intype) ==
    /\ cell' = [cell EXCEPT ![c] = [Cleared(@) EXCEPT !.input = d, !.intype = intype]]
    /\ Account(<<d>>, <<cell[c].result, cell[c].input>>)

\* .value, .buffer and .checksum of a root; set and its like are refused if
\* there is a source.  The declared type is that of the Cell; another one is
\* like a later Retype.
Write(c, d) ==
    /\ cell[c].kept /\ ~cell[c].path
    /\ Replaced(c, d, IF d = Nothing THEN Nothing ELSE cell[c].type)
    /\ UNCHANGED <<expr, flight>>

\* A write through a projection goes to its root, which has no source of its
\* own and whose value is read before: the recipe key is brought up to date.
WriteThrough(h, d) ==
    /\ cell[h].kept /\ cell[h].path /\ cell[h].input \in Cell
    /\ LET c == cell[h].input IN
       /\ cell[c].input \notin Cell /\ Meaning(c) # Fails
       /\ cell' = [cell EXCEPT ![c] = [Cleared(@) EXCEPT !.input = d, !.intype = cell[c].type,
                                                         !.key = Key(c)]]
       /\ Account(<<d>>, <<cell[c].result, cell[c].input>>)
    /\ UNCHANGED <<expr, flight>>

\* celltype = t.
Retype(c, t) ==
    /\ cell[c].kept
    /\ cell[c].path => t = InType(c)
    /\ cell' = [cell EXCEPT ![c] = [Cleared(@) EXCEPT !.type = t]]
    /\ Account(<<>>, <<cell[c].result>>)
    /\ UNCHANGED <<expr, flight>>

ClearException(c) ==
    /\ cell[c].kept /\ cell[c].failed
    /\ cell' = [cell EXCEPT ![c].failed = FALSE]
    /\ UNCHANGED <<expr, flight, count>>

\* copy.copy: the duplicate claims the input and the result for itself and
\* shares the Expression.
CopyCell(c, x) ==
    /\ cell[c].kept /\ ~cell[x].born /\ cell[c].input # x
    /\ cell' = [cell EXCEPT ![x] = cell[c]]
    /\ Account(<<cell[c].input, cell[c].result>>, <<>>)
    /\ UNCHANGED <<expr, flight>>

-----------------------------------------------------------------------------
(* Cells: reading and computing *)

\* _sync_recipe: a result for another recipe is dropped.
Synced(c) == IF Key(c) = cell[c].key THEN cell[c] ELSE [Cleared(cell[c]) EXCEPT !.key = Key(c)]
DroppedBySync(c) == IF Key(c) = cell[c].key THEN Nothing ELSE cell[c].result

\* The snapshot that build makes.
Built(c, wants) == [NoExpr EXCEPT !.born = TRUE, !.means = Meaning(c), !.wants = wants]

\* state, exception, and every read or computation that ends at once.
Inspect(c) ==
    /\ cell[c].kept /\ Key(c) # cell[c].key
    /\ cell' = [cell EXCEPT ![c] = Synced(c)]
    /\ Account(<<>>, <<DroppedBySync(c)>>)
    /\ UNCHANGED <<expr, flight>>

\* checksum (and buffer and value): if there is neither a result nor an
\* exception the recipe is evaluated; the Expression claims nothing.  On a
\* running loop a remote evaluation is refused.
Read(c) ==
    /\ cell[c].kept
    /\ LET s == Synced(c) IN
       /\ s.input # Nothing /\ ~Miswired(c) /\ ~s.failed /\ s.result = Nothing /\ ~Literal(c)
       /\ \E e \in Expr, v \in {Meaning(c), Fails, "refused"} :
            /\ ~expr[e].born
            /\ expr' = [expr EXCEPT ![e] = [Built(c, FALSE) EXCEPT
                                              !.result = IF v \in Data THEN v ELSE Nothing]]
            /\ cell' = [cell EXCEPT ![c] = [s EXCEPT
                          !.built = IF v = Nothing THEN Nothing ELSE e,
                          !.failed = v = Fails,
                          !.result = IF v \in Data THEN v ELSE Nothing]]
            /\ Account(<<v>>, <<DroppedBySync(c)>>)
    /\ UNCHANGED flight

\* What a Cell keeps of the outcome of a computation.
Outcome(r, v) ==
    IF v \in Data THEN [r EXCEPT !.result = v, !.failed = FALSE]
    ELSE [r EXCEPT !.result = Nothing, !.failed = TRUE, !.built = Nothing]

\* An Expression without a concrete input raises.
Raised(v) == IF v = Nothing THEN Fails ELSE v

\* compute: the Expression claims its result, and the Cell does.  A literal has
\* nothing to compute, unless a compute_async of it failed.
Compute(c) ==
    /\ cell[c].kept
    /\ LET s == Synced(c) IN
       /\ ~Miswired(c) /\ (Literal(c) => s.failed)
       /\ \E e \in Expr, v \in {Raised(Meaning(c)), Fails} :
            /\ ~expr[e].born
            /\ expr' = [expr EXCEPT ![e] = [Built(c, TRUE) EXCEPT
                                              !.result = IF v \in Data THEN v ELSE Nothing,
                                              !.held = v \in Data]]
            /\ cell' = [cell EXCEPT ![c] = Outcome([s EXCEPT !.built = e, !.late = FALSE], v)]
            /\ Account(<<v, v>>, <<cell[c].result>>)
    /\ UNCHANGED flight

\* compute_async up to its await.
ComputeStart(c) ==
    /\ cell[c].kept /\ flight[c] = Nothing /\ ~Miswired(c)
    /\ \E e \in Expr :
        /\ ~expr[e].born
        /\ expr' = [expr EXCEPT ![e] = Built(c, TRUE)]
        /\ cell' = [cell EXCEPT ![c] = [Synced(c) EXCEPT !.built = e]]
        /\ flight' = [flight EXCEPT ![c] = [expr |-> e, key |-> Key(c)]]
    /\ Account(<<>>, <<DroppedBySync(c)>>)

\* The claims of a result v: that of the Cell and, in _hold_result, that of the
\* Expression, unless it has been released.
FaultyNewClaims(e, v) == <<v, v>>
NewClaims(e, v) == IF expr[e].released THEN <<v>> ELSE <<v, v>>

\* compute_async after it: the result is stored whatever the recipe is now.
ComputeEnd(c) ==
    /\ flight[c] # Nothing
    /\ LET e == flight[c].expr
           old == cell[c].result
       IN  \E v \in {Raised(expr[e].means), Fails} :
            /\ expr' = [expr EXCEPT ![e].result = IF v \in Data THEN v ELSE @,
                                    ![e].held = v \in Data /\ ~expr[e].released]
            /\ cell' = [cell EXCEPT ![c] =
                   Outcome([@ EXCEPT !.late = flight[c].key # cell[c].key], v)]
            /\ Account(NewClaims(e, v), <<old>>)
    /\ flight' = [flight EXCEPT ![c] = Nothing]

\* The caller of compute_async is cancelled: CancelledError goes through.
ComputeCancelled(c) ==
    /\ flight[c] # Nothing
    /\ flight' = [flight EXCEPT ![c] = Nothing]
    /\ UNCHANGED <<cell, expr, count>>

-----------------------------------------------------------------------------
(* Expressions *)

Build(c, e) ==
    /\ cell[c].kept /\ ~expr[e].born
    /\ expr' = [expr EXCEPT ![e] = [Built(c, FALSE) EXCEPT !.kept = TRUE]]
    /\ UNCHANGED <<cell, flight, count>>

\* _enable_result_holding, by result and at the start of compute and run.
Enabled(x) == [x EXCEPT !.wants = TRUE, !.held = x.result # Nothing]
NewlyHeld(x) == IF x.held THEN Nothing ELSE x.result

ReadResult(e) ==
    /\ expr[e].kept
    /\ expr' = [expr EXCEPT ![e] = Enabled(@)]
    /\ Account(<<NewlyHeld(expr[e])>>, <<>>)
    /\ UNCHANGED <<cell, flight>>

\* compute, with _hold_result for a result that is new or known.
ComputeExpression(e) ==
    /\ expr[e].kept
    /\ \E v \in {Raised(expr[e].means), Fails} :
        IF v = Fails
        THEN expr' = [expr EXCEPT ![e] = Enabled(@)] /\ Account(<<NewlyHeld(expr[e])>>, <<>>)
        ELSE /\ expr' = [expr EXCEPT ![e] = Enabled([@ EXCEPT !.result = v])]
             /\ Account(IF expr[e].held THEN <<>> ELSE <<v>>, <<>>)
    /\ UNCHANGED <<cell, flight>>

CopyExpression(e, x) ==
    /\ expr[e].kept /\ ~expr[x].born
    /\ expr' = [expr EXCEPT ![x] = expr[e]]
    /\ Account(IF expr[e].wants THEN <<expr[e].result>> ELSE <<>>, <<>>)
    /\ UNCHANGED <<cell, flight>>

-----------------------------------------------------------------------------
(* The end of a holder *)

DropCell(c) ==
    /\ cell[c].kept
    /\ cell' = [cell EXCEPT ![c].kept = FALSE]
    /\ UNCHANGED <<expr, flight, count>>
DropExpression(e) ==
    /\ expr[e].kept
    /\ expr' = [expr EXCEPT ![e].kept = FALSE]
    /\ UNCHANGED <<cell, flight, count>>

\* What _release_refholds gives back, once.
FaultyCellHolds(c) == <<cell[c].input, cell[c].result>>
CellHolds(c) == IF cell[c].released THEN <<>> ELSE <<cell[c].input, cell[c].result>>
ExprHolds(e) == IF expr[e].held /\ ~expr[e].released THEN <<expr[e].result>> ELSE <<>>

\* _release_refholds, by the shutdown; a holder is in its snapshot once.
ReleaseCell(c) ==
    /\ cell' = [cell EXCEPT ![c].released = TRUE, ![c].result = Nothing, ![c].built = Nothing]
    /\ Account(<<>>, CellHolds(c))
    /\ UNCHANGED <<expr, flight>>
ReleaseExpression(e) ==
    /\ expr' = [expr EXCEPT ![e].released = TRUE, ![e].held = FALSE]
    /\ Account(<<>>, ExprHolds(e))
    /\ UNCHANGED <<cell, flight>>

\* __del__: the holder is released and gone.
FinalizeCell(c) ==
    /\ cell[c].born /\ ~CellReferred(c)
    /\ cell' = [cell EXCEPT ![c] = NoCell]
    /\ Account(<<>>, CellHolds(c))
    /\ UNCHANGED <<expr, flight>>
FinalizeExpression(e) ==
    /\ expr[e].born /\ ~ExprReferred(e)
    /\ expr' = [expr EXCEPT ![e] = NoExpr]
    /\ Account(<<>>, ExprHolds(e))
    /\ UNCHANGED <<cell, flight>>

-----------------------------------------------------------------------------
(* What the program does, and what happens by itself *)

UseCell(c) ==
    \/ \E input \in Maybe(Data \union Cell), type \in Celltype, path \in BOOLEAN :
           NewCell(c, input, type, path)
    \/ \E d \in Maybe(Data) : Write(c, d)
    \/ \E d \in Data : WriteThrough(c, d)
    \/ \E t \in Celltype : Retype(c, t)
    \/ ClearException(c) \/ DropCell(c)
    \/ \E x \in Cell : CopyCell(c, x)
    \/ Inspect(c) \/ Read(c) \/ Compute(c) \/ ComputeStart(c)

UseExpression(e) ==
    \/ \E c \in Cell : Build(c, e)
    \/ ReadResult(e) \/ ComputeExpression(e) \/ DropExpression(e)
    \/ \E x \in Expr : CopyExpression(e, x)

Background ==
    \/ \E c \in Cell : ComputeEnd(c) \/ ComputeCancelled(c) \/ FinalizeCell(c)
    \/ \E e \in Expr : FinalizeExpression(e)

-----------------------------------------------------------------------------
(* Properties of the holders *)

\* The result of a Cell is the one that its recipe produces, as long as its
\* key is up to date: a change of the recipe, or of the recipe of a source,
\* drops it (_sync_recipe).  Only a compute_async that was overtaken by a
\* change may leave another one.
ResultCurrent ==
    \A c \in Cell :
        cell[c].result # Nothing /\ cell[c].key = Key(c) /\ ~cell[c].late =>
            cell[c].result = Meaning(c)

\* What the recipe behind a key produces.
KeyMeaning(k) ==
    LET Does(config) == HowTo(config[1], config[2], config[3])
    IN  IF k[1] = "object" THEN Made(k[2], Does(k[3]))
        ELSE Made(Made(k[2][2], Does(k[2][3])), Does(k[3]))

\* The inductive invariant of the holders.  An object that does not exist holds
\* nothing; sources exist and have no source; a result is that of the recipe
\* whose key is noted, unless it came late.
CellsSound ==
    \A c \in Cell :
        /\ ~cell[c].born => ~cell[c].kept /\ cell[c].input = Nothing /\ cell[c].result = Nothing
        /\ cell[c].input \in Cell =>
              cell[cell[c].input].born /\ cell[cell[c].input].input \notin Cell
        /\ cell[c].result # Nothing /\ ~cell[c].late => cell[c].result = KeyMeaning(cell[c].key)

\* An Expression has the result of its recipe, and what it wants to hold it
\* holds.
ExprsSound ==
    \A e \in Expr :
        /\ ~expr[e].born => ~expr[e].kept /\ ~expr[e].wants
        /\ expr[e].result # Nothing => expr[e].result = expr[e].means
        /\ ~expr[e].released => (expr[e].held <=> expr[e].wants /\ expr[e].result # Nothing)

\* A computation under way has an Expression of its own, without a result.
FlightsSound ==
    \A c \in Cell : flight[c] # Nothing =>
        LET e == flight[c].expr IN
        /\ expr[e].born /\ ~expr[e].kept /\ expr[e].wants /\ expr[e].result = Nothing
        /\ expr[e].means = KeyMeaning(flight[c].key)
        /\ \A x \in Cell \ {c} : flight[x] # Nothing => flight[x].expr # e

ComputingBorn == \A c \in Cell : flight[c] # Nothing => cell[c].born

HoldersSound ==
    HolderTypeOK /\ CellsSound /\ ExprsSound /\ FlightsSound /\ ComputingBorn

\* README: celltype always describes the produced checksum, and retyping
\* converts the stored input.  So what a read returns is what the recipe
\* produces.
ReadsProduced ==
    \A c \in Cell :
        cell[c].result # Nothing /\ cell[c].key = Key(c) => cell[c].result = Meaning(c)
=============================================================================
