------------------------------ MODULE Fingertip ------------------------------
(***************************************************************************)
(* Recovery of a buffer: Checksum.fingertip in                             *)
(* src/seamless/checksum_class.py.                                         *)
(*                                                                         *)
(* fingertip resolves the checksum; on a miss it tries every recipe that   *)
(* is known to give the checksum: first expressions, then celljoins, then  *)
(* transformations.  The inputs of an expression or a celljoin are         *)
(* fingertipped first, one for an expression, all at once for a celljoin.  *)
(* A recipe that fails leaves a category behind and the next one is tried; *)
(* the highest category is reported in the end.                            *)
(*                                                                         *)
(* A frame is one invocation; it is named by the path of checksums that    *)
(* leads to it from the caller's.  An action is a stretch between awaits.  *)
(* The order of recipes of one kind is that of dictionaries and database   *)
(* rows: any order.  What an evaluation or a recomputation yields is a     *)
(* choice, and so is the loss of a buffer at any moment.                   *)
(***************************************************************************)
EXTENDS Integers, FiniteSets, SequencesExt

CONSTANTS
    Checksum,
    Recipe,        \* recorded recipes: [id, kind, inputs, def, gives]
    Asked,         \* the checksums that callers fingertip
    Malformed,     \* celljoins whose definition does not parse, or is not itself
    Always,        \* checksums whose buffers are at hand from the start
    InWorker,      \* is_worker, without Dask
    RecursionLimit,
    MaxLost,       \* bound: buffers that vanish
    None

Kind == <<"expression", "celljoin", "transformation">>

ASSUME RecipeAssumption ==
    /\ \A r \in Recipe : /\ r.kind \in Range(Kind) /\ r.gives \in Checksum
                         /\ r.inputs \subseteq Checksum
                         /\ r.kind = "expression" => Cardinality(r.inputs) = 1
    /\ Asked \union Always \subseteq Checksum /\ Malformed \subseteq Recipe
    /\ InWorker \in BOOLEAN
    /\ RecursionLimit \in Nat \ {0} /\ MaxLost \in Nat

VARIABLES
    here,      \* checksums that resolution can resolve
    known,     \* recipes in the caches of this process
    stored,    \* recipes that the database has
    frames,    \* the invocations: path -> frame
    lost,      \* number of buffers that vanished
    atHand,    \* history: what resolution could resolve when the callers asked
    failures   \* history: failures met by invocations that found no buffer, with
               \* the invocation that has them to report

vars == <<here, known, stored, frames, lost, atHand, failures>>

-----------------------------------------------------------------------------
(* State *)

\* FingertipCategory, an IntEnum.
Materialization == 1
FailedTransformation == 2
IrreproducibleTransformation == 3
IrreproducibleExpression == 4
Category == Materialization .. IrreproducibleExpression

Higher(a, b) == IF a > b THEN a ELSE b

\* resolving: before the first resolution.  choosing: the next recipe is due.
\* inputs: the inputs of the recipe are being fingertipped.  evaluating: they
\* are here.  confirming: the evaluation gave the checksum.  done: returned or
\* raised.  depth: the invocations on the stack; those of a celljoin's inputs are
\* gathered as tasks, and each has a stack of its own.
Frame ==
    [at : {"resolving", "choosing", "inputs", "evaluating", "confirming", "done"},
     todo : SUBSET Recipe, trying : Recipe \union {None}, category : Category,
     outcome : {"open", "buffer", "miss", "error", "recursion"},
     depth : 1 .. RecursionLimit]

NewFrame(depth) == [at |-> "resolving", todo |-> {}, trying |-> None,
                    category |-> Materialization, outcome |-> "open", depth |-> depth]

TypeOK ==
    /\ here \subseteq Checksum
    /\ known \subseteq Recipe /\ stored \subseteq Recipe
    /\ \A p \in DOMAIN frames : p \in Seq(Checksum) /\ frames[p] \in Frame
    /\ lost \in 0 .. MaxLost /\ atHand \subseteq Checksum

\* Callers ask; any buffers and recipes may be there.
Init ==
    /\ \E s \in SUBSET (Checksum \ Asked) : here = s \union Always
    /\ known \in SUBSET Recipe
    /\ stored \in {{}, Recipe}
    /\ frames = [p \in {<<c>> : c \in Asked} |-> NewFrame(1)]
    /\ lost = 0
    /\ atHand = here
    /\ failures = {}

Active(p) == p \in DOMAIN frames /\ frames[p].at # "done"
Child(p, c) == Append(p, c)
Children(p) == {q \in DOMAIN frames : Len(q) = Len(p) + 1 /\ Front(q) = p}
Below(p) == {q \in DOMAIN frames : IsStrictPrefix(p, q)}

Finish(p, outcome) ==
    frames' = [frames EXCEPT ![p].at = "done", ![p].outcome = outcome,
                             ![p].todo = {}, ![p].trying = None]

\* fs, and new invocations.
Opened(paths, depth, fs) ==
    [q \in paths \union DOMAIN fs |-> IF q \in paths THEN NewFrame(depth) ELSE fs[q]]

-----------------------------------------------------------------------------
(* One invocation *)

\* The reverse lookups in the caches and in the database; what the database
\* adds is recorded in the caches.
Candidates(c) == {r \in known \union stored : r.gives = c}

\* A miss in the first resolution collects the recipes.
Resolve(p) ==
    /\ Active(p) /\ frames[p].at = "resolving"
    /\ IF Last(p) \in here
       THEN Finish(p, "buffer") /\ UNCHANGED known
       ELSE /\ frames' = [frames EXCEPT ![p].at = "choosing", ![p].todo = Candidates(Last(p))]
            /\ known' = known \union Candidates(Last(p))
    /\ UNCHANGED <<here, stored, lost, atHand, failures>>

\* The kind that is tried next.
Due(todo) ==
    LET k == CHOOSE i \in 1 .. 3 : /\ \E r \in todo : r.kind = Kind[i]
                                   /\ \A j \in 1 .. i - 1 : \A r \in todo : r.kind # Kind[j]
    IN  {r \in todo : r.kind = Kind[k]}

\* The definition of a celljoin resolves, parses and is the one that was asked for.
Readable(r) == r.kind = "celljoin" => r.def \in here /\ r \notin Malformed

\* The depth of the invocations of a recipe's inputs.
NestedDepth(p, r) == IF r.kind = "celljoin" THEN 1 ELSE frames[p].depth + 1

\* The next recipe.  Its inputs are fingertipped before it is evaluated; an
\* invocation that is nested too deeply raises RecursionError.  A celljoin
\* whose definition cannot be read is passed over.
FaultyTryRecipe(p) ==
    /\ Active(p) /\ frames[p].at = "choosing"
    /\ \E r \in Due(frames[p].todo) :
        LET todo == {}
            chosen == [frames EXCEPT ![p].todo = todo, ![p].trying = r]
            depth == NestedDepth(p, r)
        IN  IF ~Readable(r)
            THEN frames' = [frames EXCEPT ![p].todo = todo]
            ELSE IF r.kind = "transformation" \/ r.inputs = {}
            THEN frames' = [chosen EXCEPT ![p].at = "evaluating"]
            ELSE IF depth > RecursionLimit
            THEN Finish(p, "recursion")
            ELSE frames' = Opened({Child(p, c) : c \in r.inputs}, depth,
                                  [chosen EXCEPT ![p].at = "inputs"])
    /\ UNCHANGED <<here, known, stored, lost, atHand, failures>>

TryRecipe(p) ==
    /\ Active(p) /\ frames[p].at = "choosing"
    /\ \E r \in Due(frames[p].todo) :
        LET todo == frames[p].todo \ {r}
            chosen == [frames EXCEPT ![p].todo = todo, ![p].trying = r]
            depth == NestedDepth(p, r)
        IN  IF ~Readable(r)
            THEN frames' = [frames EXCEPT ![p].todo = todo]
            ELSE IF r.kind = "transformation" \/ r.inputs = {}
            THEN frames' = [chosen EXCEPT ![p].at = "evaluating"]
            ELSE IF depth > RecursionLimit
            THEN Finish(p, "recursion")
            ELSE frames' = Opened({Child(p, c) : c \in r.inputs}, depth,
                                  [chosen EXCEPT ![p].at = "inputs"])
    /\ UNCHANGED <<here, known, stored, lost, atHand, failures>>

\* The frames without those below p.
Joined(p) == Restrict(frames, DOMAIN frames \ Below(p))

\* All inputs have come back (asyncio.gather for a celljoin).  An exception
\* other than a cache miss goes through; a cache miss ends this recipe.
FaultyInputsBack(p) ==
    /\ Active(p) /\ frames[p].at = "inputs"
    /\ \A q \in Children(p) : frames[q].at = "done"
    /\ LET missed == {q \in Children(p) : frames[q].outcome = "miss"}
           raised == {frames[q].outcome : q \in Children(p)} \ {"buffer", "miss"}
       IN  IF raised # {}
           THEN \E e \in raised :
                  frames' = [Joined(p) EXCEPT ![p].at = "done", ![p].outcome = e,
                                              ![p].todo = {}, ![p].trying = None]
           ELSE IF missed = {}
           THEN frames' = [Joined(p) EXCEPT ![p].at = "evaluating"]
           ELSE frames' = [Joined(p) EXCEPT ![p].at = "choosing", ![p].trying = None]
    /\ failures' = {IF IsPrefix(p, f[1]) THEN <<p, f[2]>> ELSE f : f \in failures}
    /\ UNCHANGED <<here, known, stored, lost, atHand>>
InputsBack(p) ==
    /\ Active(p) /\ frames[p].at = "inputs"
    /\ \A q \in Children(p) : frames[q].at = "done"
    /\ LET missed == {q \in Children(p) : frames[q].outcome = "miss"}
           raised == {frames[q].outcome : q \in Children(p)} \ {"buffer", "miss"}
       IN  IF raised # {}
           THEN \E e \in raised :
                  frames' = [Joined(p) EXCEPT ![p].at = "done", ![p].outcome = e,
                                              ![p].todo = {}, ![p].trying = None]
           ELSE IF missed = {}
           THEN frames' = [Joined(p) EXCEPT ![p].at = "evaluating"]
           ELSE frames' = [Joined(p) EXCEPT ![p].at = "choosing", ![p].trying = None,
                             ![p].category = Max({@} \union {frames[q].category : q \in missed})]
    /\ failures' = {IF IsPrefix(p, f[1]) THEN <<p, f[2]>> ELSE f : f \in failures}
    /\ UNCHANGED <<here, known, stored, lost, atHand>>

\* The recipe failed: the category rises and the next recipe is due.
FaultyRecipeFails(p, category) ==
    /\ frames' = [frames EXCEPT ![p].at = "choosing", ![p].trying = None,
                                ![p].todo = @ \union {frames[p].trying},
                                ![p].category = Higher(@, category)]
    /\ failures' = failures \union {<<p, category>>}
RecipeFails(p, category) ==
    /\ frames' = [frames EXCEPT ![p].at = "choosing", ![p].trying = None,
                                ![p].category = Higher(@, category)]
    /\ failures' = failures \union {<<p, category>>}

\* What a failing recipe of each kind counts as.  An expression reports every
\* exception as irreproducible, a cache miss of its input included; a celljoin
\* that joins another evaluation may miss a buffer there; a transformation may
\* report what it met itself.
CategoriesOf(r, event) ==
    CASE event = "other" -> IF r.kind = "transformation" THEN {IrreproducibleTransformation}
                            ELSE {IrreproducibleExpression}
      [] event = "raises" -> IF r.kind = "transformation" THEN {FailedTransformation}
                             ELSE {IrreproducibleExpression}
      [] event = "miss" -> IF r.kind = "expression" THEN {IrreproducibleExpression}
                           ELSE IF r.kind = "celljoin" THEN {Materialization} ELSE Category

\* An expression finds its input again; a celljoin has the buffers in hand.
InputsHere(r) == r.kind = "expression" => r.inputs \subseteq here

\* evaluate_expression_local_async, evaluate_celljoin_local_async or
\* recompute_from_transformation_checksum: it gives the checksum, with its
\* buffer or (a deep member, an identity) without; another checksum; nothing;
\* or it raises.  Cancellation and infrastructure errors go through.
Evaluate(p) ==
    /\ Active(p) /\ frames[p].at = "evaluating"
    /\ LET r == frames[p].trying IN
       \/ /\ InputsHere(r)
          /\ frames' = [frames EXCEPT ![p].at = "confirming"]
          /\ \/ here' = here \union {Last(p)}
             \/ r.kind = "expression" /\ here' = here
          /\ UNCHANGED failures
       \/ /\ \E event \in {"other", "raises"} \union
                          (IF r.kind # "expression" \/ ~InputsHere(r) THEN {"miss"} ELSE {}) :
               /\ event = "other" => InputsHere(r)
               /\ \E category \in CategoriesOf(r, event) : RecipeFails(p, category)
          /\ UNCHANGED here
       \/ /\ r.kind = "transformation"
          /\ RecipeFails(p, Materialization)
          /\ UNCHANGED here
       \/ Finish(p, "error") /\ UNCHANGED <<here, failures>>
    /\ UNCHANGED <<known, stored, lost, atHand>>

\* The second resolution.
Confirm(p) ==
    /\ Active(p) /\ frames[p].at = "confirming"
    /\ IF Last(p) \in here
       THEN /\ Finish(p, "buffer")
            /\ failures' = {f \in failures : ~IsPrefix(p, f[1])}
       ELSE RecipeFails(p, Materialization)
    /\ UNCHANGED <<here, known, stored, lost, atHand>>

\* No recipe is left.
GiveUp(p) ==
    /\ Active(p) /\ frames[p].at = "choosing" /\ frames[p].todo = {}
    /\ Finish(p, IF InWorker THEN "error" ELSE "miss")
    /\ UNCHANGED <<here, known, stored, lost, atHand, failures>>

\* A buffer that nobody holds is evicted, or a store is no longer reachable.
Vanish(c) ==
    /\ c \in here /\ lost < MaxLost
    /\ here' = here \ {c}
    /\ lost' = lost + 1
    /\ UNCHANGED <<known, stored, frames, atHand, failures>>

-----------------------------------------------------------------------------
Run(p) == Resolve(p) \/ TryRecipe(p) \/ InputsBack(p) \/ Evaluate(p) \/ Confirm(p) \/ GiveUp(p)

Next ==
    \/ \E p \in DOMAIN frames : Run(p)
    \/ \E c \in Checksum : Vanish(c)

Spec == Init /\ [][Next]_vars

\* The loop runs every invocation that can go on.
Step == \E p \in DOMAIN frames : Run(p)
FairSpec == Spec /\ WF_vars(Step)

-----------------------------------------------------------------------------
(* Properties *)

Missed(c) == frames[<<c>>].outcome = "miss"

\* The category that a caller gets is the highest failure encountered in
\* recovery, at whatever depth, among the invocations that found no buffer
\* (the docstring of fingertip).
HighestReported ==
    \A c \in Asked : Missed(c) =>
        frames[<<c>>].category =
            Max({Materialization} \union {f[2] : f \in {g \in failures : Head(g[1]) = c}})

\* The inductive invariant.  An invocation that has others below it waits for
\* them.  One that has no buffer reports the highest failure it has to report;
\* one that has not begun, or has its buffer, has none.
CategoriesAt(p) == {k \in Category : <<p, k>> \in failures}

FrameSound(p) ==
    /\ frames[p].at = "done" <=> frames[p].outcome # "open"
    /\ frames[p].at = "resolving" \/ frames[p].outcome = "buffer" => CategoriesAt(p) = {}
    /\ frames[p].outcome \in {"open", "miss"} =>
          /\ frames[p].category \in {Materialization} \union CategoriesAt(p)
          /\ \A k \in CategoriesAt(p) : k <= frames[p].category

Nested ==
    \A q \in DOMAIN frames :
        /\ q # <<>>
        /\ \A n \in 1 .. Len(q) - 1 : LET p == SubSeq(q, 1, n) IN
              p \in DOMAIN frames /\ frames[p].at = "inputs"

IndInv ==
    /\ TypeOK /\ Nested
    /\ \A c \in Asked : <<c>> \in DOMAIN frames
    /\ failures \subseteq (DOMAIN frames) \X Category
    /\ \A p \in DOMAIN frames : FrameSound(p)

\* What can be made, by recipes, from the buffers that were at hand when the
\* callers asked: what every set has that is closed under them.  The definition
\* of a celljoin is not recovered, and must be at hand; a transformation finds
\* its inputs itself.
Usable(r) == r.kind = "celljoin" => r.def \in atHand /\ r \notin Malformed
LeadsFrom(S, r) == r.kind = "transformation" \/ r.inputs \subseteq S
Closed(S) ==
    /\ atHand \subseteq S
    /\ \A r \in known \union stored : Usable(r) /\ LeadsFrom(S, r) => r.gives \in S
Derivable == {c \in Checksum : \A S \in SUBSET Checksum : Closed(S) => c \in S}

\* If every evaluation goes well and no buffer vanishes, fingertip fails only
\* for a checksum that no chain of recipes leads to.
RecoverableRecovered ==
    \A c \in Asked : Missed(c) /\ failures = {} /\ lost = 0 => c \notin Derivable

\* What the induction for it rests on, while no buffer vanishes.  An invocation
\* goes beyond its resolution for what was not at hand.  The recipes that it is
\* done with were of no use, unless it has a failure to report; the inputs of
\* the one it tries are those that it waits for.
Useful(r) == Usable(r) /\ LeadsFrom(Derivable, r)
Tried(p) ==
    {r \in Candidates(Last(p)) \ frames[p].todo :
        frames[p].at = "choosing" \/ r # frames[p].trying}
Trying == {"inputs", "evaluating", "confirming"}

FrameRecovers(p) ==
    LET f == frames[p]
        c == Last(p) IN
    /\ f.todo \subseteq Candidates(c)
    /\ f.at \in Trying => f.trying \in Candidates(c)
    /\ f.at = "inputs" => /\ f.trying.kind # "transformation"
                          /\ Children(p) = {Child(p, d) : d \in f.trying.inputs}
    /\ f.at # "resolving" /\ f.outcome # "buffer" => c \notin atHand
    /\ f.at \in {"choosing"} \union Trying /\ CategoriesAt(p) = {} =>
          \A r \in Tried(p) : ~Useful(r)
    /\ f.outcome = "miss" /\ CategoriesAt(p) = {} => c \notin Derivable

Recovers == atHand \subseteq here /\ \A p \in DOMAIN frames : FrameRecovers(p)

RecoveryInv == lost = 0 => Recovers

\* The README says that fingertip falls back to recomputation if a
\* transformation produced the checksum; so a recipe that is tried before it
\* may not end the call with a RecursionError.  The code does not keep track
\* of the checksums that it is recovering.
FallsBack ==
    \A c \in Asked :
        (\E r \in known : r.gives = c /\ r.kind = "transformation") =>
            frames[<<c>>].outcome # "recursion"

\* Every call comes back, with a buffer or an exception, though the code does not
\* keep track of what it is recovering: Python's limit ends every cycle of
\* expressions.  It does not end one through a celljoin, whose inputs are tasks
\* of their own: there must be none.
FingertipEnds == \A c \in Asked : <>(frames[<<c>>].at = "done")

\* Python's limit bounds the number of invocations nested in one another.
NestingBounded == \A p \in DOMAIN frames : Len(p) <= RecursionLimit
=============================================================================
