--------------------------- MODULE FingertipProofs ---------------------------
(***************************************************************************)
(* Proofs about Fingertip, for any checksums and recipes, any recursion    *)
(* limit and any number of vanishing buffers: whoever gets no buffer gets  *)
(* the highest failure among the invocations that found none either, and   *)
(* without failures and losses gets none only for what cannot be derived.  *)
(***************************************************************************)
EXTENDS Fingertip, SequenceTheorems, TLAPS

-----------------------------------------------------------------------------
(* Paths *)

Paths == Seq(Checksum)

LEMMA StrictPrefix ==
    ASSUME NEW p \in Paths, NEW q \in Paths, IsStrictPrefix(p, q)
    PROVE  Len(p) < Len(q) /\ p = SubSeq(q, 1, Len(p))
<1>1. /\ Len(p) <= Len(q) /\ p # q
      /\ SubSeq(p, 1, Len(p)) = SubSeq(q, 1, Len(p))
  BY DEF IsStrictPrefix, IsPrefix
<1>2. SubSeq(p, 1, Len(p)) = p /\ SubSeq(q, 1, Len(q)) = q
  BY SubSeqFull DEF Paths
<1>3. Len(p) \in Nat /\ Len(q) \in Nat
  BY LenProperties DEF Paths
<1> QED BY <1>1, <1>2, <1>3

LEMMA PrefixOfItself ==
    ASSUME NEW p \in Paths
    PROVE  IsPrefix(p, p)
BY LenProperties DEF IsPrefix, Paths

\* The path of a caller.
LEMMA CallerPath ==
    ASSUME NEW c \in Checksum
    PROVE  /\ <<c>> \in Paths /\ Len(<<c>>) = 1 /\ <<c>> # <<>>
           /\ \A q \in Paths : q # <<>> /\ Head(q) = c => IsPrefix(<<c>>, q)
<1>1. <<c>> \in Paths /\ Len(<<c>>) = 1 /\ <<c>>[1] = c
  BY DEF Paths
<1>2. ASSUME NEW q \in Paths, q # <<>>, Head(q) = c
      PROVE  IsPrefix(<<c>>, q)
  <2>1. Len(q) \in Nat \ {0} /\ q[1] = c
    BY <1>2, EmptySeq DEF Paths
  <2> DEFINE s == SubSeq(q, 1, 1)
  <2>2. s \in Paths /\ Len(s) = 1 /\ s[1] = c
    BY <2>1, SubSeqProperties DEF Paths
  <2> HIDE DEF s
  <2>3. s = <<c>>
    BY <1>1, <2>2, SeqEqual DEF Paths
  <2>4. SubSeq(<<c>>, 1, 1) = <<c>>
    BY <1>1, SubSeqFull DEF Paths
  <2> QED BY <1>1, <2>1, <2>3, <2>4 DEF IsPrefix, s
<1>3. <<c>> # <<>>
  BY <1>1, EmptySeq
<1> QED BY <1>1, <1>2, <1>3

\* The initial parts of a path and of its child.
LEMMA Parts ==
    ASSUME NEW q \in Paths, NEW n \in 1 .. Len(q)
    PROVE  /\ SubSeq(q, 1, n) \in Paths /\ Len(SubSeq(q, 1, n)) = n
           /\ \A i \in 1 .. n : SubSeq(q, 1, n)[i] = q[i]
BY DEF Paths

LEMMA ChildParts ==
    ASSUME NEW p \in Paths, NEW c \in Checksum
    PROVE  /\ Child(p, c) \in Paths /\ Child(p, c) # <<>>
           /\ Len(Child(p, c)) = Len(p) + 1
           /\ \A n \in 1 .. Len(p) : SubSeq(Child(p, c), 1, n) = SubSeq(p, 1, n)
           /\ SubSeq(p, 1, Len(p)) = p
<1>1. /\ Child(p, c) \in Paths
      /\ Len(Child(p, c)) = Len(p) + 1
      /\ \A i \in 1 .. Len(p) : Child(p, c)[i] = p[i]
  BY DEF Child, Paths
<1>2. Len(p) \in Nat
  BY DEF Paths
<1>3. Child(p, c) # <<>>
  BY <1>1, <1>2
<1>4. ASSUME NEW n \in 1 .. Len(p)
      PROVE  SubSeq(Child(p, c), 1, n) = SubSeq(p, 1, n)
  <2> DEFINE s == SubSeq(Child(p, c), 1, n)
             t == SubSeq(p, 1, n)
  <2>1. n \in 1 .. Len(Child(p, c))
    BY <1>1, <1>2
  <2>2. /\ s \in Paths /\ Len(s) = n /\ \A i \in 1 .. n : s[i] = Child(p, c)[i]
        /\ t \in Paths /\ Len(t) = n /\ \A i \in 1 .. n : t[i] = p[i]
    BY <1>1, <2>1, Parts
  <2>3. \A i \in 1 .. n : s[i] = t[i]
    BY <1>1, <1>2, <2>2
  <2> HIDE DEF s, t
  <2>4. s = t
    BY <2>2, <2>3, SeqEqual DEF Paths
  <2> QED BY <2>4 DEF s, t
<1>5. SubSeq(p, 1, Len(p)) = p
  BY SubSeqFull DEF Paths
<1> QED BY <1>1, <1>3, <1>4, <1>5

\* What the invariant says of paths.
LEMMA PathFacts ==
    ASSUME IndInv, NEW q \in DOMAIN frames
    PROVE  /\ q \in Paths /\ q # <<>> /\ Len(q) \in Nat \ {0}
           /\ frames[q] \in Frame
           /\ \A p \in Paths \ {<<>>} : IsStrictPrefix(p, q) =>
                p \in DOMAIN frames /\ frames[p].at = "inputs"
<1>1. q \in Paths /\ q # <<>> /\ frames[q] \in Frame
  BY DEF IndInv, TypeOK, Nested, Paths
<1>2. Len(q) \in Nat \ {0}
  BY <1>1 DEF Paths
<1>3. ASSUME NEW p \in Paths \ {<<>>}, IsStrictPrefix(p, q)
      PROVE  p \in DOMAIN frames /\ frames[p].at = "inputs"
  <2>1. Len(p) < Len(q) /\ p = SubSeq(q, 1, Len(p))
    BY <1>1, <1>3, StrictPrefix
  <2>2. Len(p) \in 1 .. Len(q) - 1
    BY <1>2, <2>1 DEF Paths
  <2> QED BY <2>1, <2>2 DEF IndInv, Nested
<1> QED BY <1>1, <1>2, <1>3

\* Nobody is below an invocation that does not wait for inputs.
LEMMA NobodyBelow ==
    ASSUME IndInv, NEW p \in DOMAIN frames, frames[p].at # "inputs"
    PROVE  /\ Below(p) = {}
           /\ \A q \in DOMAIN frames : IsPrefix(p, q) => p = q
<1>1. \A q \in DOMAIN frames : ~IsStrictPrefix(p, q)
  BY PathFacts
<1> QED BY <1>1 DEF Below, IsStrictPrefix

\* Whoever is below an invocation is below one of its children, or is one.
LEMMA BelowAChild ==
    ASSUME IndInv, NEW p \in DOMAIN frames, NEW q \in Below(p)
    PROVE  \E r \in Children(p) : r = q \/ (IsStrictPrefix(r, q) /\ frames[r].at = "inputs")
<1>1. /\ p \in Paths /\ q \in Paths /\ q \in DOMAIN frames /\ IsStrictPrefix(p, q)
      /\ Len(p) \in Nat \ {0} /\ Len(q) \in Nat \ {0}
  BY PathFacts DEF Below
<1>2. Len(p) < Len(q) /\ p = SubSeq(q, 1, Len(p))
  BY <1>1, StrictPrefix
<1> DEFINE r == SubSeq(q, 1, Len(p) + 1)
<1>3. Len(p) + 1 \in 1 .. Len(q)
  BY <1>1, <1>2
<1>4. r \in Paths /\ Len(r) = Len(p) + 1 /\ \A i \in 1 .. Len(p) + 1 : r[i] = q[i]
  BY <1>1, <1>3, Parts
<1>5. SubSeq(q, 1, Len(q)) = q
  BY <1>1, SubSeqFull DEF Paths
<1>6. r = q \/ (r \in DOMAIN frames /\ frames[r].at = "inputs")
  <2>1. CASE Len(p) + 1 = Len(q)
    BY <1>5, <2>1, Zenon
  <2>2. CASE Len(p) + 1 # Len(q)
    <3>1. Len(p) + 1 \in 1 .. Len(q) - 1
      BY <1>1, <1>3, <2>2
    <3> QED BY <1>1, <3>1 DEF IndInv, Nested
  <2> QED BY <2>1, <2>2
<1>7. Front(r) = p
  <2>1. Front(r) = SubSeq(r, 1, Len(p))
    BY <1>1, <1>4 DEF Front
  <2>2. \A i \in 1 .. Len(p) : r[i] = p[i]
    BY <1>1, <1>2, <1>4 DEF Paths
  <2>3. Len(p) \in 1 .. Len(r)
    BY <1>1, <1>4
  <2> HIDE DEF r
  <2>4. SubSeq(r, 1, Len(p)) \in Paths /\ Len(SubSeq(r, 1, Len(p))) = Len(p)
        /\ \A i \in 1 .. Len(p) : SubSeq(r, 1, Len(p))[i] = r[i]
    BY <1>4, <2>3, Parts
  <2>5. SubSeq(r, 1, Len(p)) = p
    BY <1>1, <2>2, <2>4, SeqEqual DEF Paths
  <2> QED BY <2>1, <2>5
<1>8. r # q => IsStrictPrefix(r, q)
  <2>1. SubSeq(r, 1, Len(r)) = r
    BY <1>4, SubSeqFull DEF Paths
  <2> QED BY <1>1, <1>2, <1>4, <2>1 DEF IsStrictPrefix, IsPrefix
<1>9. r \in Children(p)
  BY <1>1, <1>4, <1>6, <1>7 DEF Children
<1> HIDE DEF r
<1> QED BY <1>6, <1>8, <1>9

\* A child is below its parent.
LEMMA ChildBelow ==
    ASSUME IndInv, NEW p \in DOMAIN frames, NEW q \in Children(p)
    PROVE  q \in Below(p)
<1>1. /\ q \in DOMAIN frames /\ Len(q) = Len(p) + 1 /\ Front(q) = p
      /\ p \in Paths /\ q \in Paths /\ Len(p) \in Nat \ {0}
  BY PathFacts DEF Children
<1>2. SubSeq(q, 1, Len(p)) = p
  BY <1>1 DEF Front
<1>3. SubSeq(p, 1, Len(p)) = p
  BY <1>1, SubSeqFull DEF Paths
<1> QED BY <1>1, <1>2, <1>3 DEF Below, IsStrictPrefix, IsPrefix

-----------------------------------------------------------------------------
(* One invocation goes on *)

\* Everything but the frames and the failures.
RestTyped ==
    /\ here \subseteq Checksum /\ known \subseteq Recipe /\ stored \subseteq Recipe
    /\ lost \in 0 .. MaxLost /\ atHand \subseteq Checksum

\* p goes on, and nobody else does.
Advance(p) ==
    /\ p \in DOMAIN frames /\ frames[p].at # "inputs"
    /\ DOMAIN frames' = DOMAIN frames
    /\ \A q \in DOMAIN frames \ {p} : frames'[q] = frames[q]
    /\ frames'[p] \in Frame
    /\ failures' \subseteq (DOMAIN frames) \X Category
    /\ \A q \in DOMAIN frames \ {p} : \A k : <<q, k>> \in failures' <=> <<q, k>> \in failures

LEMMA AdvanceInv ==
    ASSUME IndInv, NEW p, Advance(p), RestTyped', FrameSound(p)'
    PROVE  IndInv'
<1>1. /\ p \in DOMAIN frames /\ frames[p].at # "inputs"
      /\ DOMAIN frames' = DOMAIN frames
      /\ \A q \in DOMAIN frames \ {p} : frames'[q] = frames[q]
      /\ frames'[p] \in Frame
      /\ failures' \subseteq (DOMAIN frames) \X Category
  BY DEF Advance
<1>2. TypeOK'
  BY <1>1 DEF IndInv, TypeOK, RestTyped
<1>3. Nested'
  <2> SUFFICES ASSUME NEW q \in DOMAIN frames, NEW n \in 1 .. Len(q) - 1
               PROVE  /\ SubSeq(q, 1, n) \in DOMAIN frames
                      /\ frames'[SubSeq(q, 1, n)].at = "inputs"
    BY <1>1 DEF Nested, IndInv
  <2>1. SubSeq(q, 1, n) \in DOMAIN frames /\ frames[SubSeq(q, 1, n)].at = "inputs"
    BY DEF IndInv, Nested
  <2> QED BY <1>1, <2>1
<1>4. ASSUME NEW q \in DOMAIN frames PROVE FrameSound(q)'
  <2>1. CASE q = p
    BY <2>1
  <2>2. CASE q # p
    <3>1. frames'[q] = frames[q] /\ CategoriesAt(q)' = CategoriesAt(q)
      BY <1>1, <2>2 DEF Advance, CategoriesAt
    <3>2. FrameSound(q)
      BY DEF IndInv
    <3> QED BY <3>1, <3>2 DEF FrameSound
  <2> QED BY <2>1, <2>2
<1> QED BY <1>1, <1>2, <1>3, <1>4 DEF IndInv

\* Its frame changes and nothing is reported.
LEMMA QuietAdvance ==
    ASSUME IndInv, NEW p \in DOMAIN frames, frames[p].at # "inputs",
           NEW g \in Frame, frames' = [frames EXCEPT ![p] = g], failures' = failures
    PROVE  Advance(p) /\ CategoriesAt(p)' = CategoriesAt(p) /\ frames'[p] = g
<1>1. /\ DOMAIN frames' = DOMAIN frames /\ frames'[p] = g
      /\ \A q \in DOMAIN frames \ {p} : frames'[q] = frames[q]
  OBVIOUS
<1> QED BY <1>1 DEF Advance, CategoriesAt, IndInv

LEMMA FrameFields ==
    ASSUME NEW f \in Frame
    PROVE  /\ f.at \in {"resolving", "choosing", "inputs", "evaluating", "confirming", "done"}
           /\ f.todo \subseteq Recipe /\ f.trying \in Recipe \union {None}
           /\ f.category \in Category
           /\ f.outcome \in {"open", "buffer", "miss", "error", "recursion"}
           /\ f.depth \in 1 .. RecursionLimit
BY DEF Frame

\* An invocation returns or raises.
LEMMA FinishInv ==
    ASSUME IndInv, NEW p \in DOMAIN frames, frames[p].at \notin {"inputs", "done"},
           NEW outcome \in {"buffer", "miss", "error", "recursion"},
           Finish(p, outcome), RestTyped',
           \/ failures' = failures /\ (outcome = "buffer" => CategoriesAt(p) = {})
           \/ failures' = {f \in failures : ~IsPrefix(p, f[1])}
              /\ outcome = "buffer"
    PROVE  IndInv'
<1> DEFINE g == [frames[p] EXCEPT !.at = "done", !.outcome = outcome, !.todo = {}, !.trying = None]
<1>1. frames[p] \in Frame /\ FrameSound(p) /\ p \in Paths
  BY PathFacts DEF IndInv
<1>2. g \in Frame /\ g.at = "done" /\ g.outcome = outcome /\ g.category = frames[p].category
  BY <1>1 DEF Frame
<1>3. frames' = [frames EXCEPT ![p] = g]
  BY DEF Finish
<1>4. frames[p].outcome = "open"
  BY <1>1, FrameFields DEF FrameSound
<1> HIDE DEF g
<1>5. CASE failures' = failures /\ (outcome = "buffer" => CategoriesAt(p) = {})
  <2>1. Advance(p) /\ CategoriesAt(p)' = CategoriesAt(p) /\ frames'[p] = g
    BY <1>2, <1>3, <1>5, QuietAdvance
  <2>2. FrameSound(p)'
    BY <1>1, <1>2, <1>4, <1>5, <2>1 DEF FrameSound
  <2> QED BY <2>1, <2>2, AdvanceInv
<1>6. CASE failures' = {f \in failures : ~IsPrefix(p, f[1])} /\ outcome = "buffer"
  <2>1. /\ DOMAIN frames' = DOMAIN frames /\ frames'[p] = g
        /\ \A q \in DOMAIN frames \ {p} : frames'[q] = frames[q]
    BY <1>3
  <2>2. \A q \in DOMAIN frames : IsPrefix(p, q) => p = q
    BY NobodyBelow
  <2>3. Advance(p)
    BY <1>2, <1>6, <2>1, <2>2 DEF Advance, IndInv
  <2>4. CategoriesAt(p)' = {}
    BY <1>1, <1>6, PrefixOfItself DEF CategoriesAt
  <2>5. FrameSound(p)'
    BY <1>2, <1>6, <2>1, <2>4 DEF FrameSound
  <2> QED BY <2>3, <2>5, AdvanceInv
<1> QED BY <1>5, <1>6

\* An invocation whose recipe failed tries the next one.
LEMMA RecipeFailsInv ==
    ASSUME IndInv, NEW p \in DOMAIN frames, frames[p].at \in {"evaluating", "confirming"},
           NEW k \in Category, RecipeFails(p, k), RestTyped'
    PROVE  IndInv'
<1> DEFINE top == Higher(frames[p].category, k)
           g == [frames[p] EXCEPT !.at = "choosing", !.trying = None, !.category = top]
<1>1. frames[p] \in Frame /\ FrameSound(p)
  BY PathFacts DEF IndInv
<1>2. frames[p].outcome = "open" /\ frames[p].category \in Category
  BY <1>1, FrameFields DEF FrameSound
<1>3. /\ top \in Category /\ top \in {frames[p].category, k}
      /\ frames[p].category <= top /\ k <= top
  BY <1>2 DEF Higher, Category, Materialization, IrreproducibleExpression
<1> HIDE DEF top
<1>4. g \in Frame /\ g.at = "choosing" /\ g.outcome = "open" /\ g.category = top
  BY <1>1, <1>2, <1>3 DEF Frame
<1>5. frames' = [frames EXCEPT ![p] = g] /\ failures' = failures \union {<<p, k>>}
  BY DEF RecipeFails, top
<1> HIDE DEF g
<1>6. /\ DOMAIN frames' = DOMAIN frames /\ frames'[p] = g
      /\ \A q \in DOMAIN frames \ {p} : frames'[q] = frames[q]
  BY <1>5
<1>7. Advance(p)
  BY <1>1, <1>4, <1>5, <1>6 DEF Advance, IndInv
<1>8. CategoriesAt(p)' = CategoriesAt(p) \union {k}
  BY <1>5 DEF CategoriesAt
<1>9. FrameSound(p)'
  <2>1. /\ frames[p].category \in {Materialization} \union CategoriesAt(p)
        /\ \A j \in CategoriesAt(p) : j <= frames[p].category
    BY <1>1, <1>2 DEF FrameSound
  <2>2. \A j \in CategoriesAt(p) : j <= top
    BY <1>2, <1>3, <2>1 DEF CategoriesAt, Category, Materialization, IrreproducibleExpression
  <2> QED BY <1>3, <1>4, <1>6, <1>8, <2>1, <2>2 DEF FrameSound
<1> QED BY <1>7, <1>9, AdvanceInv

\* An invocation takes another point of its code, and reports what it did.
LEMMA GoOnInv ==
    ASSUME IndInv, NEW p \in DOMAIN frames, frames[p].at \notin {"inputs", "done"},
           NEW g \in Frame, frames' = [frames EXCEPT ![p] = g], failures' = failures, RestTyped',
           g.at \in {"choosing", "evaluating", "confirming"},
           g.outcome = frames[p].outcome, g.category = frames[p].category
    PROVE  IndInv'
<1>1. Advance(p) /\ CategoriesAt(p)' = CategoriesAt(p) /\ frames'[p] = g
  BY QuietAdvance
<1>2. frames[p] \in Frame /\ FrameSound(p)
  BY PathFacts DEF IndInv
<1>3. FrameSound(p)'
  BY <1>1, <1>2, FrameFields DEF FrameSound
<1> QED BY <1>1, <1>3, AdvanceInv

LEMMA RestUnchanged ==
    ASSUME IndInv, UNCHANGED <<here, known, stored, lost, atHand>>
    PROVE  RestTyped'
BY DEF IndInv, TypeOK, RestTyped

LEMMA ResolveInv ==
    ASSUME IndInv, NEW p \in DOMAIN frames, Resolve(p)
    PROVE  IndInv'
<1>1. /\ frames[p] \in Frame /\ frames[p].at = "resolving" /\ CategoriesAt(p) = {}
      /\ failures' = failures
  BY PathFacts DEF Resolve, IndInv, FrameSound
<1>2. Candidates(Last(p)) \subseteq Recipe
  BY DEF Candidates, IndInv, TypeOK
<1>3. RestTyped'
  BY <1>2 DEF Resolve, IndInv, TypeOK, RestTyped
<1>4. CASE Last(p) \in here
  BY <1>1, <1>3, <1>4, FinishInv DEF Resolve
<1>5. CASE Last(p) \notin here
  <2> DEFINE g == [frames[p] EXCEPT !.at = "choosing", !.todo = Candidates(Last(p))]
  <2>1. frames' = [frames EXCEPT ![p] = g]
    BY <1>5 DEF Resolve
  <2>2. /\ g \in Frame /\ g.at = "choosing" /\ g.outcome = frames[p].outcome
        /\ g.category = frames[p].category
    BY <1>1, <1>2 DEF Frame
  <2> HIDE DEF g
  <2> QED BY <1>1, <1>3, <2>1, <2>2, GoOnInv
<1> QED BY <1>4, <1>5

\* The invocations of the inputs of a recipe.
LEMMA OpenedInv ==
    ASSUME IndInv, NEW p \in DOMAIN frames, frames[p].at = "choosing",
           NEW inputs \in SUBSET Checksum,
           NEW g \in Frame, g.at = "inputs",
           g.outcome = frames[p].outcome, g.category = frames[p].category,
           NEW depth \in 1 .. RecursionLimit,
           frames' = Opened({Child(p, c) : c \in inputs}, depth, [frames EXCEPT ![p] = g]),
           failures' = failures, RestTyped'
    PROVE  IndInv'
<1> DEFINE children == {Child(p, c) : c \in inputs}
<1>1. /\ p \in Paths /\ frames[p] \in Frame /\ FrameSound(p) /\ Len(p) \in Nat \ {0}
      /\ \A q \in DOMAIN frames : IsPrefix(p, q) => p = q
  BY PathFacts, NobodyBelow DEF IndInv
<1>2. ASSUME NEW q \in children
      PROVE  /\ q \in Paths /\ q # <<>> /\ q # p /\ q \notin DOMAIN frames
             /\ Len(q) = Len(p) + 1 /\ SubSeq(q, 1, Len(p)) = p
             /\ \A n \in 1 .. Len(p) : SubSeq(q, 1, n) = SubSeq(p, 1, n)
  <2>1. PICK c \in inputs : q = Child(p, c)
    OBVIOUS
  <2>2. /\ q \in Paths /\ q # <<>> /\ Len(q) = Len(p) + 1
        /\ \A n \in 1 .. Len(p) : SubSeq(q, 1, n) = SubSeq(p, 1, n)
        /\ SubSeq(p, 1, Len(p)) = p
    BY <1>1, <2>1, ChildParts
  <2>3. SubSeq(q, 1, Len(p)) = p /\ Len(p) <= Len(q) /\ q # p
    BY <1>1, <2>2
  <2>4. IsPrefix(p, q)
    BY <2>2, <2>3 DEF IsPrefix
  <2> QED BY <1>1, <2>2, <2>3, <2>4
<1> HIDE DEF children
<1>3. /\ DOMAIN frames' = children \union DOMAIN frames /\ frames'[p] = g
      /\ \A q \in children : frames'[q] = NewFrame(depth)
      /\ \A q \in DOMAIN frames \ {p} : frames'[q] = frames[q]
  BY <1>2 DEF Opened, children
<1>4. NewFrame(depth) \in Frame
  BY DEF NewFrame, Frame, Category, Materialization, IrreproducibleExpression
<1>5. TypeOK'
  <2>1. \A q \in DOMAIN frames' : q \in Seq(Checksum) /\ frames'[q] \in Frame
    BY <1>2, <1>3, <1>4 DEF IndInv, TypeOK, Paths
  <2> QED BY <2>1 DEF TypeOK, RestTyped
<1>6. Nested'
  <2>1. ASSUME NEW q \in DOMAIN frames, NEW n \in 1 .. Len(q) - 1
        PROVE  /\ SubSeq(q, 1, n) \in DOMAIN frames'
               /\ frames'[SubSeq(q, 1, n)].at = "inputs"
    <3>1. SubSeq(q, 1, n) \in DOMAIN frames /\ frames[SubSeq(q, 1, n)].at = "inputs"
      BY DEF IndInv, Nested
    <3> QED BY <1>3, <3>1
  <2>2. ASSUME NEW q \in children, NEW n \in 1 .. Len(q) - 1
        PROVE  /\ SubSeq(q, 1, n) \in DOMAIN frames'
               /\ frames'[SubSeq(q, 1, n)].at = "inputs"
    <3>1. CASE n = Len(p)
      BY <1>2, <1>3, <3>1
    <3>2. CASE n # Len(p)
      <4>1. n \in 1 .. Len(p) - 1 /\ SubSeq(q, 1, n) = SubSeq(p, 1, n)
        BY <1>1, <1>2, <3>2
      <4> QED BY <2>1, <4>1
    <3> QED BY <3>1, <3>2
  <2>3. \A q \in DOMAIN frames' : q # <<>>
    BY <1>2, <1>3 DEF IndInv, Nested
  <2> QED BY <1>3, <2>1, <2>2, <2>3 DEF Nested
<1>7. \A q : CategoriesAt(q)' = CategoriesAt(q)
  BY DEF CategoriesAt
<1>8. ASSUME NEW q \in DOMAIN frames' PROVE FrameSound(q)'
  <2>1. CASE q \in children
    <3>1. CategoriesAt(q) = {}
      BY <1>2, <2>1 DEF CategoriesAt, IndInv
    <3>2. /\ NewFrame(depth).at = "resolving" /\ NewFrame(depth).outcome = "open"
          /\ NewFrame(depth).category = Materialization
      BY DEF NewFrame
    <3>3. frames'[q] = NewFrame(depth) /\ CategoriesAt(q)' = {}
      BY <1>3, <1>7, <2>1, <3>1
    <3> QED BY <3>2, <3>3 DEF FrameSound
  <2>2. CASE q = p
    BY <1>1, <1>3, <1>7, <2>2, FrameFields DEF FrameSound
  <2>3. CASE q \in DOMAIN frames \ {p}
    <3>1. FrameSound(q)
      BY <2>3 DEF IndInv
    <3> QED BY <1>3, <1>7, <2>3, <3>1 DEF FrameSound
  <2> QED BY <1>3, <2>1, <2>2, <2>3
<1> QED BY <1>3, <1>5, <1>6, <1>8 DEF IndInv

LEMMA TryRecipeInv ==
    ASSUME IndInv, NEW p \in DOMAIN frames, TryRecipe(p)
    PROVE  IndInv'
<1>1. frames[p] \in Frame /\ frames[p].at = "choosing" /\ RestTyped' /\ failures' = failures
  BY PathFacts, RestUnchanged DEF TryRecipe
<1>2. PICK r \in Due(frames[p].todo) :
        LET todo == frames[p].todo \ {r}
            chosen == [frames EXCEPT ![p].todo = todo, ![p].trying = r]
            depth == NestedDepth(p, r)
        IN  IF ~Readable(r)
            THEN frames' = [frames EXCEPT ![p].todo = todo]
            ELSE IF r.kind = "transformation" \/ r.inputs = {}
            THEN frames' = [chosen EXCEPT ![p].at = "evaluating"]
            ELSE IF depth > RecursionLimit
            THEN Finish(p, "recursion")
            ELSE frames' = Opened({Child(p, c) : c \in r.inputs}, depth,
                                  [chosen EXCEPT ![p].at = "inputs"])
  BY Zenon DEF TryRecipe
<1>3. r \in Recipe /\ frames[p].todo \ {r} \subseteq Recipe
  BY <1>1, FrameFields DEF Due
<1>4. r.inputs \in SUBSET Checksum
  BY <1>3, RecipeAssumption
<1> DEFINE todo == frames[p].todo \ {r}
           g(at, trying) == [frames[p] EXCEPT !.todo = todo, !.trying = trying, !.at = at]
<1>5. ASSUME NEW at \in {"choosing", "evaluating", "inputs"}, NEW trying \in Recipe \union {None}
      PROVE  /\ g(at, trying) \in Frame /\ g(at, trying).at = at
             /\ g(at, trying).outcome = frames[p].outcome
             /\ g(at, trying).category = frames[p].category
  BY <1>1, <1>3 DEF Frame
<1>6. CASE frames' = [frames EXCEPT ![p].todo = todo]
  <2> DEFINE h == g("choosing", frames[p].trying)
  <2>1. frames' = [frames EXCEPT ![p] = h]
    BY <1>1, <1>6 DEF Frame
  <2>2. /\ h \in Frame /\ h.at = "choosing" /\ h.outcome = frames[p].outcome
        /\ h.category = frames[p].category
    BY <1>1, <1>5, FrameFields
  <2> HIDE DEF h
  <2> QED BY <1>1, <2>1, <2>2, GoOnInv
<1>7. CASE frames' = [[frames EXCEPT ![p].todo = todo, ![p].trying = r] EXCEPT ![p].at = "evaluating"]
  <2> DEFINE h == g("evaluating", r)
  <2>1. frames' = [frames EXCEPT ![p] = h]
    BY <1>7
  <2>2. /\ h \in Frame /\ h.at = "evaluating" /\ h.outcome = frames[p].outcome
        /\ h.category = frames[p].category
    BY <1>3, <1>5
  <2> HIDE DEF h
  <2> QED BY <1>1, <2>1, <2>2, GoOnInv
<1>8. CASE Finish(p, "recursion")
  BY <1>1, <1>8, FinishInv
<1>9. CASE /\ ~(NestedDepth(p, r) > RecursionLimit)
           /\ frames' = Opened({Child(p, c) : c \in r.inputs}, NestedDepth(p, r),
                [[frames EXCEPT ![p].todo = todo, ![p].trying = r] EXCEPT ![p].at = "inputs"])
  <2> DEFINE h == g("inputs", r)
  <2>1. frames' = Opened({Child(p, c) : c \in r.inputs}, NestedDepth(p, r), [frames EXCEPT ![p] = h])
    BY <1>9
  <2>2. /\ h \in Frame /\ h.at = "inputs" /\ h.outcome = frames[p].outcome
        /\ h.category = frames[p].category
    BY <1>3, <1>5
  <2> HIDE DEF h
  <2>3. PICK inputs \in SUBSET Checksum : inputs = r.inputs
    BY <1>4
  <2>4. PICK depth \in 1 .. RecursionLimit : depth = NestedDepth(p, r)
    <3>1. frames[p].depth \in 1 .. RecursionLimit
      BY <1>1, FrameFields
    <3> QED BY <1>9, <3>1, RecipeAssumption DEF NestedDepth
  <2> QED BY <1>1, <2>1, <2>2, <2>3, <2>4, OpenedInv
<1> QED BY <1>2, <1>6, <1>7, <1>8, <1>9

-----------------------------------------------------------------------------
(* The inputs come back *)

LEMMA TopCategory ==
    ASSUME NEW S \in SUBSET Category, S # {}
    PROVE  Max(S) \in S /\ \A k \in S : k <= Max(S)
<1>1. \E m \in S : \A k \in S : m >= k
  <2>1. S \subseteq 1 .. 4
    BY DEF Category, Materialization, IrreproducibleExpression
  <2>2. CASE 4 \in S
    BY <2>1, <2>2
  <2>3. CASE 4 \notin S /\ 3 \in S
    BY <2>1, <2>3
  <2>4. CASE 4 \notin S /\ 3 \notin S /\ 2 \in S
    BY <2>1, <2>4
  <2>5. CASE 4 \notin S /\ 3 \notin S /\ 2 \notin S
    <3>1. \A k \in S : k = 1
      BY <2>1, <2>5
    <3> QED BY <3>1
  <2> QED BY <2>2, <2>3, <2>4, <2>5
<1>2. Max(S) \in S /\ \A k \in S : Max(S) >= k
  BY <1>1 DEF Max
<1> QED BY <1>2 DEF Category, Materialization, IrreproducibleExpression

\* The invocations of the inputs of p are over.
LEMMA ChildrenOver ==
    ASSUME IndInv, NEW p \in DOMAIN frames, frames[p].at = "inputs",
           \A q \in Children(p) : frames[q].at = "done"
    PROVE  /\ Below(p) = Children(p) /\ p \notin Below(p)
           /\ \A q \in DOMAIN frames : IsPrefix(p, q) <=> q = p \/ q \in Children(p)
           /\ \A q \in Children(p) : q \in DOMAIN frames /\ FrameSound(q)
<1>1. Below(p) = Children(p)
  BY BelowAChild, ChildBelow
<1>2. IsPrefix(p, p)
  BY PathFacts, PrefixOfItself
<1>3. \A q \in Children(p) : q \in DOMAIN frames /\ FrameSound(q)
  BY DEF Children, IndInv
<1> QED BY <1>1, <1>2, <1>3 DEF Below, IsStrictPrefix

\* What the others keep, and what p has to report now.
LEMMA JoinedFailures ==
    ASSUME IndInv, NEW p \in DOMAIN frames, frames[p].at = "inputs", InputsBack(p)
    PROVE  /\ \A q \in DOMAIN frames \ (Below(p) \union {p}) : CategoriesAt(q)' = CategoriesAt(q)
           /\ CategoriesAt(p)' =
                CategoriesAt(p) \union UNION {CategoriesAt(q) : q \in Children(p)}
           /\ failures' \subseteq (DOMAIN frames \ Below(p)) \X Category
<1>1. /\ failures' = {IF IsPrefix(p, f[1]) THEN <<p, f[2]>> ELSE f : f \in failures}
      /\ \A q \in Children(p) : frames[q].at = "done"
  BY DEF InputsBack
<1>2. failures \subseteq (DOMAIN frames) \X Category
  BY DEF IndInv
<1>3. /\ Below(p) = Children(p) /\ p \notin Below(p)
      /\ \A q \in DOMAIN frames : IsPrefix(p, q) <=> q = p \/ q \in Children(p)
      /\ Children(p) \subseteq DOMAIN frames
  BY <1>1, ChildrenOver
<1>4. ASSUME NEW q \in DOMAIN frames \ (Below(p) \union {p}), NEW k
      PROVE  <<q, k>> \in failures' <=> <<q, k>> \in failures
  <2>1. ~IsPrefix(p, q)
    BY <1>3
  <2>2. ASSUME <<q, k>> \in failures PROVE <<q, k>> \in failures'
    BY <1>1, <2>1, <2>2
  <2>3. ASSUME <<q, k>> \in failures' PROVE <<q, k>> \in failures
    <3>1. PICK f \in failures : <<q, k>> = IF IsPrefix(p, f[1]) THEN <<p, f[2]>> ELSE f
      BY <1>1, <2>3
    <3> QED BY <3>1
  <2> QED BY <2>2, <2>3
<1>5. ASSUME NEW k \in Category
      PROVE  <<p, k>> \in failures' <=>
                <<p, k>> \in failures \/ \E q \in Children(p) : <<q, k>> \in failures
  <2>1. ASSUME NEW q \in Children(p) \union {p}, <<q, k>> \in failures
        PROVE  <<p, k>> \in failures'
    <3>1. IsPrefix(p, q)
      BY <1>3, <2>1
    <3> QED BY <1>1, <2>1, <3>1
  <2>2. ASSUME <<p, k>> \in failures'
        PROVE  \E q \in Children(p) \union {p} : <<q, k>> \in failures
    <3>1. PICK f \in failures : <<p, k>> = IF IsPrefix(p, f[1]) THEN <<p, f[2]>> ELSE f
      BY <1>1, <2>2
    <3>2. f = <<f[1], f[2]>> /\ f[1] \in DOMAIN frames
      BY <1>2
    <3> QED BY <1>3, <3>1, <3>2
  <2> QED BY <2>1, <2>2
<1>6. failures' \subseteq (DOMAIN frames \ Below(p)) \X Category
  <2> SUFFICES ASSUME NEW f \in failures
               PROVE  (IF IsPrefix(p, f[1]) THEN <<p, f[2]>> ELSE f)
                        \in (DOMAIN frames \ Below(p)) \X Category
    BY <1>1
  <2>1. f = <<f[1], f[2]>> /\ f[1] \in DOMAIN frames /\ f[2] \in Category
    BY <1>2
  <2> QED BY <1>3, <2>1
<1>7. CategoriesAt(p)' = {k \in Category : <<p, k>> \in failures'}
  BY DEF CategoriesAt
<1>8. CategoriesAt(p)' = CategoriesAt(p) \union UNION {CategoriesAt(q) : q \in Children(p)}
  <2>1. ASSUME NEW k \in Category
        PROVE  k \in CategoriesAt(p)' <=>
                 k \in CategoriesAt(p) \/ \E q \in Children(p) : k \in CategoriesAt(q)
    BY <1>5, <1>7 DEF CategoriesAt
  <2>2. /\ CategoriesAt(p)' \subseteq Category
        /\ \A q : CategoriesAt(q) \subseteq Category
    BY <1>7 DEF CategoriesAt
  <2> QED BY <2>1, <2>2
<1>9. \A q \in DOMAIN frames \ (Below(p) \union {p}) : CategoriesAt(q)' = CategoriesAt(q)
  BY <1>4 DEF CategoriesAt
<1> QED BY <1>6, <1>8, <1>9

LEMMA InputsBackInv ==
    ASSUME IndInv, NEW p \in DOMAIN frames, InputsBack(p)
    PROVE  IndInv'
<1> DEFINE missed == {q \in Children(p) : frames[q].outcome = "miss"}
           raised == {frames[q].outcome : q \in Children(p)} \ {"buffer", "miss"}
           top == Max({frames[p].category} \union {frames[q].category : q \in missed})
           g(at, outcome, todo, category) ==
             [frames[p] EXCEPT !.at = at, !.outcome = outcome, !.todo = todo, !.trying = None,
                               !.category = category]
<1>1. /\ frames[p].at = "inputs" /\ frames[p] \in Frame /\ FrameSound(p) /\ p \in Paths
      /\ Len(p) \in Nat \ {0}
      /\ \A q \in Children(p) : frames[q].at = "done"
      /\ RestTyped'
  BY PathFacts, RestUnchanged DEF InputsBack, IndInv
<1>2. /\ Below(p) = Children(p) /\ p \notin Below(p)
      /\ \A q \in DOMAIN frames : IsPrefix(p, q) <=> q = p \/ q \in Children(p)
      /\ \A q \in Children(p) : q \in DOMAIN frames /\ FrameSound(q) /\ frames[q] \in Frame
  BY <1>1, ChildrenOver, PathFacts
<1>3. /\ \A q \in DOMAIN frames \ (Below(p) \union {p}) : CategoriesAt(q)' = CategoriesAt(q)
      /\ CategoriesAt(p)' =
           CategoriesAt(p) \union UNION {CategoriesAt(q) : q \in Children(p)}
      /\ failures' \subseteq (DOMAIN frames \ Below(p)) \X Category
  BY <1>1, JoinedFailures
<1>4. frames[p].outcome = "open"
  BY <1>1 DEF FrameSound
<1>5. \A q \in Children(p) : frames[q].outcome \in {"buffer", "miss", "error", "recursion"}
  BY <1>1, <1>2, FrameFields DEF FrameSound
<1>6. top \in {frames[p].category} \union {frames[q].category : q \in missed}
      /\ frames[p].category <= top /\ (\A q \in missed : frames[q].category <= top)
      /\ top \in Category
  <2> DEFINE S == {frames[p].category} \union {frames[q].category : q \in missed}
  <2>1. S \in SUBSET Category /\ S # {}
    BY <1>1, <1>2, FrameFields
  <2>2. Max(S) \in S /\ \A k \in S : k <= Max(S)
    BY <2>1, TopCategory
  <2> QED BY <2>1, <2>2
<1> HIDE DEF top
<1>7. /\ DOMAIN frames' = DOMAIN frames \ Below(p)
      /\ \A q \in DOMAIN frames \ (Below(p) \union {p}) : frames'[q] = frames[q]
      /\ frames'[p] \in Frame /\ frames'[p].at # "inputs" /\ FrameSound(p)'
  <2>1. DOMAIN Joined(p) = DOMAIN frames \ Below(p)
        /\ \A q \in DOMAIN frames \ Below(p) : Joined(p)[q] = frames[q]
    BY DEF Joined, Restrict
  <2>2. CASE raised # {}
    <3>1. PICK e \in raised :
            frames' = [Joined(p) EXCEPT ![p].at = "done", ![p].outcome = e,
                                        ![p].todo = {}, ![p].trying = None]
      BY <2>2 DEF InputsBack
    <3>2. e \in {"error", "recursion"}
      BY <1>5
    <3>3. /\ DOMAIN frames' = DOMAIN frames \ Below(p)
          /\ \A q \in DOMAIN frames \ (Below(p) \union {p}) : frames'[q] = frames[q]
          /\ frames'[p] = [frames[p] EXCEPT !.at = "done", !.outcome = e, !.todo = {}, !.trying = None]
      BY <1>2, <2>1, <3>1
    <3>4. frames'[p] \in Frame /\ frames'[p].at = "done" /\ frames'[p].outcome = e
      BY <1>1, <3>2, <3>3 DEF Frame
    <3> QED BY <3>2, <3>3, <3>4 DEF FrameSound
  <2>3. CASE raised = {} /\ missed = {}
    <3>1. frames' = [Joined(p) EXCEPT ![p].at = "evaluating"]
      BY <2>3 DEF InputsBack
    <3>2. /\ DOMAIN frames' = DOMAIN frames \ Below(p)
          /\ \A q \in DOMAIN frames \ (Below(p) \union {p}) : frames'[q] = frames[q]
          /\ frames'[p] = [frames[p] EXCEPT !.at = "evaluating"]
      BY <1>2, <2>1, <3>1
    <3>3. /\ frames'[p] \in Frame /\ frames'[p].at = "evaluating" /\ frames'[p].outcome = "open"
          /\ frames'[p].category = frames[p].category
      BY <1>1, <1>4, <3>2 DEF Frame
    <3>4. \A q \in Children(p) : CategoriesAt(q) = {}
      BY <1>2, <1>5, <2>3 DEF FrameSound
    <3>5. CategoriesAt(p)' = CategoriesAt(p)
      BY <1>3, <3>4
    <3> QED BY <1>1, <1>4, <3>2, <3>3, <3>5 DEF FrameSound
  <2>4. CASE raised = {} /\ missed # {}
    <3>1. frames' = [Joined(p) EXCEPT ![p].at = "choosing", ![p].trying = None,
                       ![p].category = Max({@} \union {frames[q].category : q \in missed})]
      BY <2>4 DEF InputsBack
    <3>2. /\ DOMAIN frames' = DOMAIN frames \ Below(p)
          /\ \A q \in DOMAIN frames \ (Below(p) \union {p}) : frames'[q] = frames[q]
          /\ frames'[p] = [frames[p] EXCEPT !.at = "choosing", !.trying = None, !.category = top]
      BY <1>1, <1>2, <2>1, <3>1 DEF top, Frame
    <3>3. /\ frames'[p] \in Frame /\ frames'[p].at = "choosing" /\ frames'[p].outcome = "open"
          /\ frames'[p].category = top
      BY <1>1, <1>4, <1>6, <3>2 DEF Frame
    <3>4. top \in {Materialization} \union CategoriesAt(p)'
      <4>1. frames[p].category \in {Materialization} \union CategoriesAt(p)
        BY <1>1, <1>4 DEF FrameSound
      <4>2. \A q \in missed : frames[q].category \in {Materialization} \union CategoriesAt(q)
        BY <1>2 DEF FrameSound
      <4> QED BY <1>3, <1>6, <4>1, <4>2
    <3>5. ASSUME NEW k \in CategoriesAt(p)' PROVE k <= top
      <4>1. k \in Category /\ Category \subseteq Nat
        BY DEF CategoriesAt, Category, Materialization, IrreproducibleExpression
      <4>2. CASE k \in CategoriesAt(p)
        <5>1. k <= frames[p].category /\ frames[p].category \in Category
          BY <1>1, <1>4, <4>2, FrameFields DEF FrameSound
        <5>2. frames[p].category <= top /\ top \in Category
          BY <1>6
        <5>3. k \in Nat /\ frames[p].category \in Nat /\ top \in Nat
          BY <4>1, <5>1, <5>2
        <5> QED BY <5>1, <5>2, <5>3
      <4>3. CASE \E q \in Children(p) : k \in CategoriesAt(q)
        <5>1. PICK q \in Children(p) : k \in CategoriesAt(q)
          BY <4>3
        <5>2. frames[q].outcome \in {"buffer", "miss"}
          BY <2>4
        <5>3. frames[q].outcome # "buffer"
          BY <1>2, <5>1 DEF FrameSound
        <5>4. q \in missed
          BY <5>2, <5>3
        <5>5. k <= frames[q].category /\ frames[q].category \in Category
          BY <1>2, <5>1, <5>2, <5>3, FrameFields DEF FrameSound
        <5>6. frames[q].category <= top /\ top \in Category
          BY <1>6, <5>4
        <5>7. k \in Nat /\ frames[q].category \in Nat /\ top \in Nat
          BY <4>1, <5>5, <5>6
        <5> QED BY <5>5, <5>6, <5>7
      <4>4. k \in CategoriesAt(p) \/ \E q \in Children(p) : k \in CategoriesAt(q)
        BY <1>3, <3>5
      <4> QED BY <4>2, <4>3, <4>4
    <3> QED BY <3>2, <3>3, <3>4, <3>5 DEF FrameSound
  <2> QED BY <2>2, <2>3, <2>4
<1> HIDE DEF missed, raised, g
<1>8. TypeOK'
  BY <1>1, <1>2, <1>7 DEF IndInv, TypeOK, RestTyped
<1>9. Nested'
  <2> SUFFICES ASSUME NEW q \in DOMAIN frames \ Below(p), NEW n \in 1 .. Len(q) - 1
               PROVE  /\ SubSeq(q, 1, n) \in DOMAIN frames \ Below(p)
                      /\ frames'[SubSeq(q, 1, n)].at = "inputs"
    BY <1>7 DEF Nested, IndInv
  <2>1. SubSeq(q, 1, n) \in DOMAIN frames /\ frames[SubSeq(q, 1, n)].at = "inputs"
    BY DEF IndInv, Nested
  <2>2. SubSeq(q, 1, n) \notin Below(p)
    BY <1>1, <1>2, <2>1
  <2>3. SubSeq(q, 1, n) # p
    <3> SUFFICES ASSUME SubSeq(q, 1, n) = p PROVE FALSE
      OBVIOUS
    <3>1. q \in Paths /\ Len(q) \in Nat \ {0} /\ n \in 1 .. Len(q)
      BY PathFacts
    <3>2. Len(p) = n /\ SubSeq(p, 1, Len(p)) = p
      BY <1>1, <3>1, Parts, SubSeqFull DEF Paths
    <3>3. IsPrefix(p, q) /\ q # p
      BY <3>1, <3>2 DEF IsPrefix
    <3> QED BY <1>2, <3>3
  <2> QED BY <1>7, <2>1, <2>2, <2>3
<1>10. \A c \in Asked : <<c>> \in DOMAIN frames'
  <2> SUFFICES ASSUME NEW c \in Asked PROVE <<c>> \in DOMAIN frames /\ <<c>> \notin Below(p)
    BY <1>7
  <2>1. <<c>> \in DOMAIN frames
    BY DEF IndInv
  <2>2. ~IsStrictPrefix(p, <<c>>)
    <3>1. <<c>> \in Paths /\ Len(<<c>>) = 1
      BY <2>1, PathFacts
    <3> QED BY <1>1, <3>1, StrictPrefix
  <2> QED BY <2>1, <2>2 DEF Below
<1>11. ASSUME NEW q \in DOMAIN frames' PROVE FrameSound(q)'
  <2>1. CASE q = p
    BY <1>7, <2>1
  <2>2. CASE q # p
    <3>1. frames'[q] = frames[q] /\ CategoriesAt(q)' = CategoriesAt(q) /\ FrameSound(q)
      BY <1>3, <1>7, <2>2 DEF IndInv
    <3> QED BY <3>1 DEF FrameSound
  <2> QED BY <2>1, <2>2
<1> QED BY <1>3, <1>7, <1>8, <1>9, <1>10, <1>11 DEF IndInv

-----------------------------------------------------------------------------
(* Evaluation *)

LEMMA CategoriesOfRecipes ==
    ASSUME NEW r, NEW event \in {"other", "raises", "miss"}
    PROVE  CategoriesOf(r, event) \subseteq Category
<1>1. CASE event = "other"
  BY <1>1 DEF CategoriesOf, Category, Materialization, IrreproducibleTransformation,
              IrreproducibleExpression
<1>2. CASE event = "raises"
  BY <1>2 DEF CategoriesOf, Category, Materialization, FailedTransformation,
              IrreproducibleExpression
<1>3. CASE event = "miss"
  BY <1>3 DEF CategoriesOf, Category, Materialization, IrreproducibleExpression
<1> QED BY <1>1, <1>2, <1>3

LEMMA EvaluateInv ==
    ASSUME IndInv, NEW p \in DOMAIN frames, Evaluate(p)
    PROVE  IndInv'
<1>1. /\ frames[p] \in Frame /\ frames[p].at = "evaluating"
      /\ p \in Paths /\ Len(p) \in Nat \ {0}
  BY PathFacts DEF Evaluate
<1>2. RestTyped'
  <2>1. Last(p) \in Checksum
    BY <1>1 DEF Last, Paths
  <2>2. here' = here \/ here' = here \union {Last(p)}
    BY DEF Evaluate
  <2> QED BY <2>1, <2>2 DEF Evaluate, RestTyped, IndInv, TypeOK
<1>3. CASE frames' = [frames EXCEPT ![p].at = "confirming"] /\ failures' = failures
  <2> DEFINE g == [frames[p] EXCEPT !.at = "confirming"]
  <2>1. frames' = [frames EXCEPT ![p] = g]
    BY <1>3
  <2>2. /\ g \in Frame /\ g.at = "confirming" /\ g.outcome = frames[p].outcome
        /\ g.category = frames[p].category
    BY <1>1 DEF Frame
  <2> HIDE DEF g
  <2> QED BY <1>1, <1>2, <1>3, <2>1, <2>2, GoOnInv
<1>4. ASSUME NEW k \in Category, RecipeFails(p, k) PROVE IndInv'
  BY <1>1, <1>2, <1>4, RecipeFailsInv
<1>5. CASE Finish(p, "error") /\ failures' = failures
  BY <1>1, <1>2, <1>5, FinishInv
<1>6. \/ frames' = [frames EXCEPT ![p].at = "confirming"] /\ failures' = failures
      \/ \E event \in {"other", "raises", "miss"} :
            \E k \in CategoriesOf(frames[p].trying, event) : RecipeFails(p, k)
      \/ RecipeFails(p, Materialization)
      \/ Finish(p, "error") /\ failures' = failures
  BY DEF Evaluate
<1>7. Materialization \in Category
  BY DEF Category, Materialization, IrreproducibleExpression
<1> QED BY <1>3, <1>4, <1>5, <1>6, <1>7, CategoriesOfRecipes

LEMMA ConfirmInv ==
    ASSUME IndInv, NEW p \in DOMAIN frames, Confirm(p)
    PROVE  IndInv'
<1>1. frames[p].at = "confirming" /\ RestTyped'
  BY RestUnchanged DEF Confirm
<1>2. CASE Finish(p, "buffer") /\ failures' = {f \in failures : ~IsPrefix(p, f[1])}
  BY <1>1, <1>2, FinishInv
<1>3. CASE RecipeFails(p, Materialization)
  <2>1. Materialization \in Category
    BY DEF Category, Materialization, IrreproducibleExpression
  <2> QED BY <1>1, <1>3, <2>1, RecipeFailsInv
<1> QED BY <1>2, <1>3 DEF Confirm

LEMMA GiveUpInv ==
    ASSUME IndInv, NEW p \in DOMAIN frames, GiveUp(p)
    PROVE  IndInv'
<1>1. frames[p].at = "choosing" /\ RestTyped' /\ failures' = failures
  BY RestUnchanged DEF GiveUp
<1>2. Finish(p, "error") \/ Finish(p, "miss")
  BY DEF GiveUp
<1> QED BY <1>1, <1>2, FinishInv

LEMMA InitInv == Init => IndInv
<1> SUFFICES ASSUME Init PROVE IndInv
  OBVIOUS
<1>1. /\ DOMAIN frames = {<<c>> : c \in Asked} /\ failures = {}
      /\ \A p \in DOMAIN frames : frames[p] = NewFrame(1)
  BY DEF Init
<1>2. /\ NewFrame(1) \in Frame /\ NewFrame(1).at = "resolving" /\ NewFrame(1).outcome = "open"
      /\ NewFrame(1).category = Materialization
  BY RecipeAssumption DEF NewFrame, Frame, Category, Materialization, IrreproducibleExpression
<1>3. ASSUME NEW p \in DOMAIN frames
      PROVE  p \in Seq(Checksum) /\ Len(p) = 1 /\ p # <<>>
  <2>1. PICK c \in Checksum : p = <<c>>
    BY <1>1, RecipeAssumption
  <2> QED BY <2>1, CallerPath DEF Paths
<1>4. TypeOK
  BY <1>1, <1>2, <1>3, RecipeAssumption DEF Init, TypeOK
<1>5. Nested
  <2>1. ASSUME NEW p \in DOMAIN frames, NEW n \in 1 .. Len(p) - 1
        PROVE  FALSE
    <3>1. Len(p) = 1
      BY <1>3
    <3> QED BY <2>1, <3>1
  <2> QED BY <1>3, <2>1 DEF Nested
<1>6. ASSUME NEW p \in DOMAIN frames PROVE FrameSound(p)
  BY <1>1, <1>2 DEF FrameSound, CategoriesAt
<1> QED BY <1>1, <1>4, <1>5, <1>6 DEF IndInv

LEMMA NextInv == IndInv /\ [Next]_vars => IndInv'
<1> SUFFICES ASSUME IndInv, [Next]_vars PROVE IndInv'
  OBVIOUS
<1>1. ASSUME NEW p \in DOMAIN frames, Run(p) PROVE IndInv'
  BY <1>1, ResolveInv, TryRecipeInv, InputsBackInv, EvaluateInv, ConfirmInv, GiveUpInv DEF Run
<1>2. CASE here' \subseteq here /\ lost' \in 0 .. MaxLost
           /\ UNCHANGED <<known, stored, frames, atHand, failures>>
  <2>1. TypeOK'
    BY <1>2 DEF IndInv, TypeOK
  <2>2. Nested' /\ \A p : FrameSound(p)' = FrameSound(p)
    BY <1>2 DEF IndInv, Nested, FrameSound, CategoriesAt
  <2> QED BY <1>2, <2>1, <2>2 DEF IndInv
<1>3. ASSUME NEW c \in Checksum, Vanish(c)
      PROVE  here' \subseteq here /\ lost' \in 0 .. MaxLost
             /\ UNCHANGED <<known, stored, frames, atHand, failures>>
  BY <1>3, RecipeAssumption DEF Vanish, IndInv, TypeOK
<1>4. CASE UNCHANGED vars
  BY <1>2, <1>4 DEF vars, IndInv, TypeOK
<1> QED BY <1>1, <1>2, <1>3, <1>4 DEF Next

-----------------------------------------------------------------------------
(* The theorems *)

\* Every invocation that found no buffer has the highest failure it has to
\* report, in every state that the invocations can reach together.
THEOREM SpecIndInv == Spec => []IndInv
<1> QED BY InitInv, NextInv, PTL DEF Spec

\* Every variable keeps its type.
THEOREM TypeCorrect == Spec => []TypeOK
<1>1. IndInv => TypeOK
  BY DEF IndInv
<1> QED BY <1>1, SpecIndInv, PTL

\* A caller that gets no buffer gets the category of the highest failure met
\* on its behalf, at whatever depth, by an invocation that found no buffer.
THEOREM HighestIsReported == Spec => []HighestReported
<1>1. ASSUME IndInv
      PROVE  HighestReported
  <2> SUFFICES ASSUME NEW c \in Asked, Missed(c)
               PROVE  frames[<<c>>].category =
                        Max({Materialization} \union
                              {f[2] : f \in {g \in failures : Head(g[1]) = c}})
    BY DEF HighestReported
  <2> DEFINE path == <<c>>
             found == {f[2] : f \in {g \in failures : Head(g[1]) = c}}
             S == {Materialization} \union found
             k == frames[path].category
  <2>1. /\ path \in DOMAIN frames /\ path \in Paths /\ FrameSound(path)
        /\ frames[path].outcome = "miss" /\ frames[path] \in Frame
    BY <1>1, PathFacts DEF IndInv, Missed
  <2>2. frames[path].at # "inputs"
    BY <2>1 DEF FrameSound
  <2>3. ASSUME NEW f \in failures, Head(f[1]) = c
        PROVE  f = <<path, f[2]>> /\ f[2] \in CategoriesAt(path)
    <3>1. f[1] \in DOMAIN frames /\ f[2] \in Category /\ f = <<f[1], f[2]>>
      BY <1>1 DEF IndInv
    <3>2. f[1] \in Paths /\ f[1] # <<>>
      BY <1>1, <3>1, PathFacts
    <3>3. c \in Checksum
      BY RecipeAssumption
    <3>4. IsPrefix(path, f[1])
      BY <2>3, <3>2, <3>3, CallerPath
    <3>5. f[1] = path
      BY <1>1, <2>1, <2>2, <3>1, <3>4, NobodyBelow
    <3> QED BY <3>1, <3>5 DEF CategoriesAt
  <2>4. ASSUME NEW j \in CategoriesAt(path) PROVE j \in found
    <3>1. <<path, j>> \in failures /\ Head(path) = c
      BY DEF CategoriesAt
    <3> QED BY <3>1
  <2>5. found = CategoriesAt(path)
    BY <2>3, <2>4
  <2>6. k \in S /\ \A j \in found : j <= k
    BY <2>1, <2>5 DEF FrameSound
  <2>7. S \in SUBSET Category /\ S # {}
    <3>1. CategoriesAt(path) \subseteq Category /\ Materialization \in Category
      BY DEF CategoriesAt, Category, Materialization, IrreproducibleExpression
    <3> QED BY <2>5, <3>1
  <2> HIDE DEF found, k
  <2>8. Max(S) \in S /\ \A j \in S : j <= Max(S)
    BY <2>7, TopCategory
  <2>9. S \subseteq Nat /\ Materialization = 1 /\ k \in 1 .. 4
    BY <2>6, <2>7 DEF Category, Materialization, IrreproducibleExpression
  <2>10. k <= Max(S) /\ Max(S) <= k /\ Max(S) \in Nat
    BY <2>6, <2>8, <2>9
  <2>11. k = Max(S)
    BY <2>9, <2>10
  <2> QED BY <2>11 DEF k, found
<1> QED BY <1>1, SpecIndInv, PTL

-----------------------------------------------------------------------------
(* What can be derived *)

\* The induction: what FrameRecovers says of every invocation.
AllRecover == \A q \in DOMAIN frames : FrameRecovers(q)

LEMMA RecipeGives ==
    ASSUME IndInv
    PROVE  \A r \in known \union stored : r \in Recipe /\ r.gives \in Checksum
BY RecipeAssumption DEF IndInv, TypeOK

\* Derivable has nothing that was not at hand or is made from it.
LEMMA DerivableFacts ==
    ASSUME IndInv
    PROVE  \A c \in Derivable \ atHand : \E r \in Candidates(c) : Useful(r)
<1> SUFFICES ASSUME NEW c \in Derivable \ atHand, \A r \in Candidates(c) : ~Useful(r)
             PROVE  FALSE
  OBVIOUS
<1> DEFINE S == Derivable \ {c}
<1>1. atHand \subseteq Derivable
  BY DEF Derivable, Closed, IndInv, TypeOK
<1>2. S \in SUBSET Checksum /\ atHand \subseteq S
  BY <1>1 DEF Derivable
<1>3. ASSUME NEW r \in known \union stored, Usable(r), LeadsFrom(S, r)
      PROVE  r.gives \in S
  <2>1. Useful(r)
    BY <1>3 DEF Useful, LeadsFrom
  <2>2. r.gives # c
    BY <2>1 DEF Candidates
  <2>3. ASSUME NEW T \in SUBSET Checksum, Closed(T) PROVE r.gives \in T
    <3>1. Derivable \subseteq T
      BY <2>3 DEF Derivable
    <3>2. LeadsFrom(T, r)
      BY <2>1, <3>1 DEF Useful, LeadsFrom
    <3> QED BY <1>3, <2>3, <3>2 DEF Closed
  <2>4. r.gives \in Derivable
    BY <2>3, RecipeGives DEF Derivable
  <2> QED BY <2>2, <2>4
<1>4. Closed(S)
  BY <1>2, <1>3 DEF Closed
<1> QED BY <1>2, <1>4 DEF Derivable

\* What was at hand and the recipes that can be found stay what they are.
Same == atHand' = atHand /\ known' \union stored' = known \union stored

LEMMA RunSame ==
    ASSUME NEW p, Run(p)
    PROVE  Same /\ lost' = lost /\ here \subseteq here'
<1>1. CASE Resolve(p)
  BY <1>1 DEF Resolve, Same, Candidates
<1>2. CASE ~Resolve(p)
  BY <1>2 DEF Run, TryRecipe, InputsBack, Evaluate, Confirm, GiveUp, Same
<1> QED BY <1>1, <1>2

\* So nothing gets derivable, and no recipe of use.
LEMMA SameRecipes ==
    ASSUME Same
    PROVE  /\ Derivable' = Derivable
           /\ \A c : Candidates(c)' = Candidates(c)
           /\ \A r : Useful(r)' <=> Useful(r)
<1>1. \A r : Usable(r)' <=> Usable(r)
  BY DEF Same, Usable
<1>2. \A S : Closed(S)' <=> Closed(S)
  BY <1>1 DEF Same, Closed
<1>3. Derivable' = Derivable
  BY <1>2 DEF Derivable
<1>4. \A r : Useful(r)' <=> Useful(r)
  BY <1>1, <1>3 DEF Useful, LeadsFrom
<1>5. \A c : Candidates(c)' = Candidates(c)
  BY DEF Candidates, Same
<1> QED BY <1>3, <1>4, <1>5

-----------------------------------------------------------------------------
(* One invocation goes on *)

\* Whoever does not move keeps what was found out.
LEMMA KeptFrame ==
    ASSUME Same, NEW q \in DOMAIN frames, FrameRecovers(q),
           frames'[q] = frames[q], CategoriesAt(q)' = CategoriesAt(q),
           frames[q].at = "inputs" => Children(q)' = Children(q)
    PROVE  FrameRecovers(q)'
<1>1. /\ Derivable' = Derivable /\ Candidates(Last(q))' = Candidates(Last(q))
      /\ Tried(q)' = Tried(q) /\ atHand' = atHand
      /\ \A r : Useful(r)' <=> Useful(r)
  BY SameRecipes DEF Tried, Same
<1> QED BY <1>1 DEF FrameRecovers, Trying

LEMMA AdvanceRecovers ==
    ASSUME IndInv, Same, AllRecover, NEW p, Advance(p), FrameRecovers(p)'
    PROVE  AllRecover'
<1> SUFFICES ASSUME NEW q \in DOMAIN frames, q # p PROVE FrameRecovers(q)'
  BY DEF Advance, AllRecover
<1>1. /\ frames'[q] = frames[q] /\ CategoriesAt(q)' = CategoriesAt(q)
      /\ Children(q)' = Children(q)
  BY DEF Advance, CategoriesAt, Children
<1> QED BY <1>1, KeptFrame DEF AllRecover

\* It returns or raises.
LEMMA FinishRecovers ==
    ASSUME IndInv, Same, AllRecover,
           NEW p \in DOMAIN frames, frames[p].at \in {"choosing", "evaluating", "confirming"},
           NEW outcome \in {"miss", "error", "recursion"}, Finish(p, outcome),
           failures' = failures,
           outcome = "miss" => frames[p].at = "choosing" /\ frames[p].todo = {}
    PROVE  AllRecover'
<1> DEFINE g == [frames[p] EXCEPT !.at = "done", !.outcome = outcome, !.todo = {}, !.trying = None]
           c == Last(p)
<1>1. frames[p] \in Frame /\ FrameSound(p) /\ FrameRecovers(p)
  BY PathFacts DEF IndInv, AllRecover
<1>2. frames[p].outcome = "open"
  BY <1>1, FrameFields DEF FrameSound
<1>3. g \in Frame /\ g.at = "done" /\ g.outcome = outcome /\ g.todo = {}
  BY <1>1 DEF Frame
<1>4. frames' = [frames EXCEPT ![p] = g]
  BY DEF Finish
<1> HIDE DEF g
<1>5. Advance(p) /\ CategoriesAt(p)' = CategoriesAt(p) /\ frames'[p] = g
  BY <1>3, <1>4, QuietAdvance
<1>6. c \notin atHand /\ Derivable' = Derivable /\ atHand' = atHand
  BY <1>1, <1>2, SameRecipes DEF FrameRecovers, Same
<1>7. ASSUME outcome = "miss", CategoriesAt(p) = {} PROVE c \notin Derivable
  <2>1. \A r \in Candidates(c) : ~Useful(r)
    BY <1>1, <1>7 DEF FrameRecovers, Tried
  <2> QED BY <1>6, <2>1, DerivableFacts
<1>8. FrameRecovers(p)'
  BY <1>3, <1>5, <1>6, <1>7 DEF FrameRecovers, Trying
<1> QED BY <1>5, <1>8, AdvanceRecovers

\* A recipe failed: from now on there is a failure to report.
LEMMA RecipeFailsRecovers ==
    ASSUME IndInv, IndInv', Same, AllRecover,
           NEW p \in DOMAIN frames, frames[p].at \in {"evaluating", "confirming"},
           NEW k \in Category, RecipeFails(p, k)
    PROVE  AllRecover'
<1> DEFINE g == [frames[p] EXCEPT !.at = "choosing", !.trying = None,
                                  !.category = Higher(frames[p].category, k)]
           c == Last(p)
<1>1. frames[p] \in Frame /\ FrameSound(p) /\ FrameRecovers(p)
  BY PathFacts DEF IndInv, AllRecover
<1>2. frames[p].outcome = "open"
  BY <1>1, FrameFields DEF FrameSound
<1>3. g.at = "choosing" /\ g.outcome = "open" /\ g.todo = frames[p].todo
  BY <1>1, <1>2 DEF Frame
<1>4. frames' = [frames EXCEPT ![p] = g] /\ failures' = failures \union {<<p, k>>}
  BY DEF RecipeFails
<1> HIDE DEF g
<1>5. /\ DOMAIN frames' = DOMAIN frames /\ frames'[p] = g
      /\ \A q \in DOMAIN frames \ {p} : frames'[q] = frames[q]
  BY <1>4
<1>6. Advance(p)
  <2>1. frames'[p] \in Frame /\ failures' \subseteq (DOMAIN frames) \X Category
    BY <1>5 DEF IndInv, TypeOK
  <2> QED BY <1>1, <1>4, <1>5, <2>1 DEF Advance
<1>7. CategoriesAt(p)' # {}
  BY <1>4 DEF CategoriesAt
<1>8. Candidates(c)' = Candidates(c) /\ atHand' = atHand /\ c \notin atHand
  BY <1>1, <1>2, SameRecipes DEF FrameRecovers, Same
<1>9. FrameRecovers(p)'
  BY <1>1, <1>3, <1>5, <1>7, <1>8 DEF FrameRecovers, Trying
<1> QED BY <1>6, <1>9, AdvanceRecovers

\* A resolution that finds nothing: the checksum was not at hand.
LEMMA ResolveRecovers ==
    ASSUME IndInv, Same, AllRecover, atHand \subseteq here,
           NEW p \in DOMAIN frames, Resolve(p)
    PROVE  AllRecover'
<1> DEFINE c == Last(p)
<1>1. /\ frames[p] \in Frame /\ FrameSound(p) /\ FrameRecovers(p) /\ frames[p].at = "resolving"
      /\ failures' = failures
  BY PathFacts DEF Resolve, IndInv, AllRecover
<1>2. Candidates(c)' = Candidates(c) /\ atHand' = atHand
  BY SameRecipes DEF Same
<1>3. frames[p].outcome = "open"
  BY <1>1, FrameFields DEF FrameSound
<1>4. CASE c \in here
  <2> DEFINE g == [frames[p] EXCEPT !.at = "done", !.outcome = "buffer", !.todo = {}, !.trying = None]
  <2>1. frames' = [frames EXCEPT ![p] = g]
    BY <1>4 DEF Resolve, Finish
  <2>2. g \in Frame /\ g.at = "done" /\ g.outcome = "buffer" /\ g.todo = {}
    BY <1>1 DEF Frame
  <2> HIDE DEF g
  <2>3. Advance(p) /\ frames'[p] = g
    BY <1>1, <2>1, <2>2, QuietAdvance
  <2>4. FrameRecovers(p)'
    BY <2>2, <2>3 DEF FrameRecovers, Trying
  <2> QED BY <2>3, <2>4, AdvanceRecovers
<1>5. CASE c \notin here
  <2> DEFINE g == [frames[p] EXCEPT !.at = "choosing", !.todo = Candidates(c)]
  <2>1. frames' = [frames EXCEPT ![p] = g]
    BY <1>5 DEF Resolve
  <2>2. g \in Frame /\ g.at = "choosing" /\ g.outcome = "open" /\ g.todo = Candidates(c)
    BY <1>1, <1>3, RecipeGives DEF Frame, Candidates
  <2> HIDE DEF g
  <2>3. Advance(p) /\ frames'[p] = g
    BY <1>1, <2>1, <2>2, QuietAdvance
  <2>4. Tried(p)' = {}
    BY <1>2, <2>2, <2>3 DEF Tried
  <2>5. FrameRecovers(p)'
    BY <1>2, <1>5, <2>2, <2>3, <2>4 DEF FrameRecovers, Trying
  <2> QED BY <2>3, <2>5, AdvanceRecovers
<1> QED BY <1>4, <1>5

\* The invocations of the inputs of a recipe.
LEMMA OpenedRecovers ==
    ASSUME IndInv, Same, AllRecover,
           NEW p \in DOMAIN frames, frames[p].at = "choosing",
           NEW r \in Candidates(Last(p)), r.kind # "transformation", r.inputs \subseteq Checksum,
           NEW g, g.at = "inputs", g.trying = r, g.todo = frames[p].todo \ {r},
           g.outcome = frames[p].outcome, NEW depth,
           frames' = Opened({Child(p, d) : d \in r.inputs}, depth, [frames EXCEPT ![p] = g]),
           failures' = failures
    PROVE  AllRecover'
<1> DEFINE children == {Child(p, d) : d \in r.inputs}
           c == Last(p)
<1>1. /\ p \in Paths /\ FrameRecovers(p) /\ Len(p) \in Nat \ {0} /\ FrameSound(p)
      /\ frames[p] \in Frame
      /\ \A q \in DOMAIN frames : IsPrefix(p, q) => p = q
  BY PathFacts, NobodyBelow DEF IndInv, AllRecover
<1>2. ASSUME NEW q \in children
      PROVE  /\ q \in Paths /\ q # p /\ q \notin DOMAIN frames
             /\ Len(q) = Len(p) + 1 /\ Front(q) = p
  <2>1. PICK d \in r.inputs : q = Child(p, d)
    OBVIOUS
  <2>2. /\ q \in Paths /\ q # <<>> /\ Len(q) = Len(p) + 1
        /\ \A n \in 1 .. Len(p) : SubSeq(q, 1, n) = SubSeq(p, 1, n)
        /\ SubSeq(p, 1, Len(p)) = p
    BY <1>1, <2>1, ChildParts
  <2>3. SubSeq(q, 1, Len(p)) = p /\ Len(p) <= Len(q) /\ q # p
    BY <1>1, <2>2
  <2>4. IsPrefix(p, q)
    BY <2>2, <2>3 DEF IsPrefix
  <2>5. Front(q) = p
    BY <1>1, <2>2, <2>3 DEF Front
  <2> QED BY <1>1, <2>2, <2>3, <2>4, <2>5
<1> HIDE DEF children
<1>3. /\ DOMAIN frames' = children \union DOMAIN frames /\ frames'[p] = g
      /\ \A q \in children : frames'[q] = NewFrame(depth)
      /\ \A q \in DOMAIN frames \ {p} : frames'[q] = frames[q]
  BY <1>2 DEF Opened, children
<1>4. \A q : CategoriesAt(q)' = CategoriesAt(q)
  BY DEF CategoriesAt
<1>5. Children(p) = {}
  <2>1. \A q \in Children(p) : q \in Below(p)
    BY ChildBelow
  <2> QED BY <2>1, NobodyBelow
<1>6. Children(p)' = children
  BY <1>2, <1>3, <1>5 DEF Children
<1>7. \A q \in DOMAIN frames \ {p} : Children(q)' = Children(q)
  BY <1>2, <1>3 DEF Children
<1>8. /\ Candidates(c)' = Candidates(c) /\ atHand' = atHand /\ c \notin atHand
      /\ \A s : Useful(s)' <=> Useful(s)
  BY <1>1, FrameFields, SameRecipes DEF FrameRecovers, FrameSound, Same
<1>9. Tried(p)' \subseteq Tried(p)
  BY <1>3, <1>8 DEF Tried
<1>10. FrameRecovers(p)'
  <2>1. frames[p].outcome = "open"
    BY <1>1, FrameFields DEF FrameSound
  <2>2. CategoriesAt(p)' = {} => \A s \in Tried(p)' : ~Useful(s)'
    BY <1>1, <1>4, <1>8, <1>9 DEF FrameRecovers
  <2>3. g.todo \subseteq Candidates(c)'
    BY <1>1, <1>8 DEF FrameRecovers
  <2>4. Children(p)' = {Child(p, d) : d \in g.trying.inputs}
    BY <1>6 DEF children
  <2> QED BY <1>3, <1>8, <2>1, <2>2, <2>3, <2>4 DEF FrameRecovers, Trying
<1>11. ASSUME NEW q \in children PROVE FrameRecovers(q)'
  <2>1. /\ NewFrame(depth).at = "resolving" /\ NewFrame(depth).outcome = "open"
        /\ NewFrame(depth).todo = {}
    BY DEF NewFrame
  <2> QED BY <1>3, <2>1 DEF FrameRecovers, Trying
<1>12. ASSUME NEW q \in DOMAIN frames \ {p} PROVE FrameRecovers(q)'
  BY <1>3, <1>4, <1>7, KeptFrame DEF AllRecover
<1> QED BY <1>3, <1>10, <1>11, <1>12 DEF AllRecover

\* A celljoin that is passed over had no definition at hand.
LEMMA TryRecipeRecovers ==
    ASSUME IndInv, Same, AllRecover, atHand \subseteq here,
           NEW p \in DOMAIN frames, TryRecipe(p)
    PROVE  AllRecover'
<1> DEFINE c == Last(p)
<1>1. /\ frames[p] \in Frame /\ frames[p].at = "choosing" /\ failures' = failures
      /\ FrameSound(p) /\ FrameRecovers(p)
  BY PathFacts DEF TryRecipe, IndInv, AllRecover
<1>2. PICK r \in Due(frames[p].todo) :
        LET todo == frames[p].todo \ {r}
            chosen == [frames EXCEPT ![p].todo = todo, ![p].trying = r]
            depth == NestedDepth(p, r)
        IN  IF ~Readable(r)
            THEN frames' = [frames EXCEPT ![p].todo = todo]
            ELSE IF r.kind = "transformation" \/ r.inputs = {}
            THEN frames' = [chosen EXCEPT ![p].at = "evaluating"]
            ELSE IF depth > RecursionLimit
            THEN Finish(p, "recursion")
            ELSE frames' = Opened({Child(p, d) : d \in r.inputs}, depth,
                                  [chosen EXCEPT ![p].at = "inputs"])
  BY Zenon DEF TryRecipe
<1>3. r \in frames[p].todo /\ r \in Candidates(c) /\ frames[p].todo \subseteq Candidates(c)
  BY <1>1 DEF Due, FrameRecovers
<1>4. r \in Recipe /\ r.inputs \subseteq Checksum
  BY <1>3, RecipeGives, RecipeAssumption DEF Candidates
<1> DEFINE todo == frames[p].todo \ {r}
           g(at, trying) == [frames[p] EXCEPT !.todo = todo, !.trying = trying, !.at = at]
<1>5. ASSUME NEW at \in {"choosing", "evaluating", "inputs"}, NEW trying \in Recipe \union {None}
      PROVE  /\ g(at, trying) \in Frame /\ g(at, trying).at = at
             /\ g(at, trying).outcome = frames[p].outcome
             /\ g(at, trying).todo = todo /\ g(at, trying).trying = trying
  BY <1>1, <1>4 DEF Frame
<1>6. frames[p].outcome = "open"
  BY <1>1, FrameFields DEF FrameSound
<1>7. /\ Candidates(c)' = Candidates(c) /\ atHand' = atHand /\ c \notin atHand
      /\ \A s : Useful(s)' <=> Useful(s)
  BY <1>1, <1>6, SameRecipes DEF FrameRecovers, Same
<1>8. CASE ~Readable(r) /\ frames' = [frames EXCEPT ![p].todo = todo]
  <2> DEFINE h == g("choosing", frames[p].trying)
  <2>1. frames' = [frames EXCEPT ![p] = h]
    BY <1>1, <1>8 DEF Frame
  <2>2. /\ h \in Frame /\ h.at = "choosing" /\ h.outcome = frames[p].outcome /\ h.todo = todo
    BY <1>1, <1>5, FrameFields
  <2> HIDE DEF h
  <2>3. Advance(p) /\ CategoriesAt(p)' = CategoriesAt(p) /\ frames'[p] = h
    BY <1>1, <2>1, <2>2, QuietAdvance
  <2>4. Tried(p)' \subseteq Tried(p) \union {r}
    BY <1>1, <1>7, <2>2, <2>3 DEF Tried
  <2>5. ~Useful(r)
    BY <1>8 DEF Readable, Useful, Usable
  <2>6. CategoriesAt(p)' = {} => \A s \in Tried(p)' : ~Useful(s)'
    BY <1>1, <1>7, <2>3, <2>4, <2>5 DEF FrameRecovers
  <2>7. FrameRecovers(p)'
    BY <1>3, <1>6, <1>7, <2>2, <2>3, <2>6 DEF FrameRecovers, Trying
  <2> QED BY <2>3, <2>7, AdvanceRecovers
<1>9. CASE frames' = [[frames EXCEPT ![p].todo = todo, ![p].trying = r] EXCEPT ![p].at = "evaluating"]
  <2> DEFINE h == g("evaluating", r)
  <2>1. frames' = [frames EXCEPT ![p] = h]
    BY <1>9
  <2>2. /\ h \in Frame /\ h.at = "evaluating" /\ h.outcome = frames[p].outcome
        /\ h.todo = todo /\ h.trying = r
    BY <1>4, <1>5
  <2> HIDE DEF h
  <2>3. Advance(p) /\ CategoriesAt(p)' = CategoriesAt(p) /\ frames'[p] = h
    BY <1>1, <2>1, <2>2, QuietAdvance
  <2>4. Tried(p)' \subseteq Tried(p)
    BY <1>1, <1>7, <2>2, <2>3 DEF Tried
  <2>5. CategoriesAt(p)' = {} => \A s \in Tried(p)' : ~Useful(s)'
    BY <1>1, <1>7, <2>3, <2>4 DEF FrameRecovers
  <2>6. FrameRecovers(p)'
    BY <1>3, <1>6, <1>7, <2>2, <2>3, <2>5 DEF FrameRecovers, Trying
  <2> QED BY <2>3, <2>6, AdvanceRecovers
<1>10. CASE Finish(p, "recursion")
  BY <1>1, <1>10, FinishRecovers
<1>11. CASE /\ r.kind # "transformation"
            /\ frames' = Opened({Child(p, d) : d \in r.inputs}, NestedDepth(p, r),
                 [[frames EXCEPT ![p].todo = todo, ![p].trying = r] EXCEPT ![p].at = "inputs"])
  <2> DEFINE h == g("inputs", r)
  <2>1. frames' = Opened({Child(p, d) : d \in r.inputs}, NestedDepth(p, r), [frames EXCEPT ![p] = h])
    BY <1>11
  <2>2. /\ h.at = "inputs" /\ h.outcome = frames[p].outcome
        /\ h.todo = frames[p].todo \ {r} /\ h.trying = r
    BY <1>4, <1>5
  <2> HIDE DEF h, g
  <2>3. PICK depth : depth = NestedDepth(p, r)
    OBVIOUS
  <2> QED BY <1>1, <1>3, <1>4, <1>11, <2>1, <2>2, <2>3, OpenedRecovers
<1> QED BY <1>2, <1>8, <1>9, <1>10, <1>11

\* The inputs of a recipe that did not come make it one of no use.
LEMMA InputsBackRecovers ==
    ASSUME IndInv, Same, AllRecover, NEW p \in DOMAIN frames, InputsBack(p)
    PROVE  AllRecover'
<1> DEFINE c == Last(p)
           missed == {q \in Children(p) : frames[q].outcome = "miss"}
           raised == {frames[q].outcome : q \in Children(p)} \ {"buffer", "miss"}
           r == frames[p].trying
<1>1. /\ frames[p].at = "inputs" /\ frames[p] \in Frame /\ FrameSound(p) /\ FrameRecovers(p)
      /\ p \in Paths /\ Len(p) \in Nat \ {0}
      /\ \A q \in Children(p) : frames[q].at = "done"
  BY PathFacts DEF InputsBack, IndInv, AllRecover
<1>2. /\ Below(p) = Children(p) /\ p \notin Below(p)
      /\ \A q \in Children(p) : /\ q \in DOMAIN frames /\ FrameSound(q) /\ FrameRecovers(q)
  BY <1>1, ChildrenOver DEF AllRecover
<1>3. /\ \A q \in DOMAIN frames \ (Below(p) \union {p}) : CategoriesAt(q)' = CategoriesAt(q)
      /\ CategoriesAt(p)' =
           CategoriesAt(p) \union UNION {CategoriesAt(q) : q \in Children(p)}
  BY <1>1, JoinedFailures
<1>4. frames[p].outcome = "open"
  BY <1>1 DEF FrameSound
<1>5. /\ r \in Candidates(c) /\ r.kind # "transformation" /\ r.inputs \subseteq Checksum
      /\ Children(p) = {Child(p, d) : d \in r.inputs}
      /\ frames[p].todo \subseteq Candidates(c)
  BY <1>1, RecipeGives, RecipeAssumption DEF FrameRecovers, Trying, Candidates
<1>6. \A d \in r.inputs : Child(p, d) \in Children(p) /\ Last(Child(p, d)) = d
  <2> SUFFICES ASSUME NEW d \in r.inputs PROVE Last(Child(p, d)) = d
    BY <1>5
  <2>1. d \in Checksum
    BY <1>5
  <2> QED BY <1>1, <2>1 DEF Last, Child, Paths
<1>7. /\ Candidates(c)' = Candidates(c) /\ atHand' = atHand /\ c \notin atHand
      /\ \A s : Useful(s)' <=> Useful(s)
  BY <1>1, <1>4, SameRecipes DEF FrameRecovers, Same
<1>8. /\ DOMAIN Joined(p) = DOMAIN frames \ Below(p)
      /\ \A q \in DOMAIN frames \ Below(p) : Joined(p)[q] = frames[q]
  BY DEF Joined, Restrict
<1>9. /\ DOMAIN frames' = DOMAIN frames \ Below(p)
      /\ \A q \in DOMAIN frames \ (Below(p) \union {p}) : frames'[q] = frames[q]
      /\ FrameRecovers(p)'
  <2>1. CASE raised # {}
    <3>1. PICK e \in raised :
            frames' = [Joined(p) EXCEPT ![p].at = "done", ![p].outcome = e,
                                        ![p].todo = {}, ![p].trying = None]
      BY <2>1 DEF InputsBack
    <3>2. e \notin {"buffer", "miss"}
      OBVIOUS
    <3>3. /\ DOMAIN frames' = DOMAIN frames \ Below(p)
          /\ \A q \in DOMAIN frames \ (Below(p) \union {p}) : frames'[q] = frames[q]
          /\ frames'[p] = [frames[p] EXCEPT !.at = "done", !.outcome = e, !.todo = {}, !.trying = None]
      BY <1>2, <1>8, <3>1
    <3>4. frames'[p].at = "done" /\ frames'[p].outcome = e /\ frames'[p].todo = {}
      BY <1>1, <3>3 DEF Frame
    <3>5. FrameRecovers(p)'
      BY <1>7, <3>2, <3>4 DEF FrameRecovers, Trying
    <3> QED BY <3>3, <3>5
  <2>2. CASE raised = {} /\ missed = {}
    <3>1. frames' = [Joined(p) EXCEPT ![p].at = "evaluating"]
      BY <2>2 DEF InputsBack
    <3>2. /\ DOMAIN frames' = DOMAIN frames \ Below(p)
          /\ \A q \in DOMAIN frames \ (Below(p) \union {p}) : frames'[q] = frames[q]
          /\ frames'[p] = [frames[p] EXCEPT !.at = "evaluating"]
      BY <1>2, <1>8, <3>1
    <3>3. /\ frames'[p].at = "evaluating" /\ frames'[p].outcome = "open"
          /\ frames'[p].todo = frames[p].todo /\ frames'[p].trying = r
      BY <1>1, <1>4, <3>2 DEF Frame
    <3>4. Tried(p)' \subseteq Tried(p)
      BY <1>7, <3>3 DEF Tried
    <3>5. CategoriesAt(p)' = {} => \A s \in Tried(p)' : ~Useful(s)'
      BY <1>1, <1>3, <1>7, <3>4 DEF FrameRecovers, Trying
    <3>6. FrameRecovers(p)'
      BY <1>5, <1>7, <3>3, <3>5 DEF FrameRecovers, Trying
    <3> QED BY <3>2, <3>6
  <2>3. CASE raised = {} /\ missed # {}
    <3> DEFINE top == Max({frames[p].category} \union {frames[q].category : q \in missed})
    <3>1. frames' = [Joined(p) EXCEPT ![p].at = "choosing", ![p].trying = None,
                       ![p].category = Max({@} \union {frames[q].category : q \in missed})]
      BY <2>3 DEF InputsBack
    <3>2. /\ DOMAIN frames' = DOMAIN frames \ Below(p)
          /\ \A q \in DOMAIN frames \ (Below(p) \union {p}) : frames'[q] = frames[q]
          /\ frames'[p] = [frames[p] EXCEPT !.at = "choosing", !.trying = None, !.category = top]
      BY <1>1, <1>2, <1>8, <3>1 DEF Frame
    <3> HIDE DEF top
    <3>3. /\ frames'[p].at = "choosing" /\ frames'[p].outcome = "open"
          /\ frames'[p].todo = frames[p].todo
      BY <1>1, <1>4, <3>2 DEF Frame
    <3>4. Tried(p)' \subseteq Tried(p) \union {r}
      BY <1>7, <3>3 DEF Tried
    <3>5. CategoriesAt(p)' = {} => ~Useful(r)
      <4> SUFFICES ASSUME CategoriesAt(p)' = {} PROVE ~Useful(r)
        OBVIOUS
      <4>1. PICK q \in Children(p) : frames[q].outcome = "miss"
        BY <2>3
      <4>2. PICK d \in r.inputs : q = Child(p, d)
        BY <1>5
      <4>3. CategoriesAt(q) = {}
        BY <1>3
      <4>4. d \notin Derivable
        BY <1>2, <1>6, <4>1, <4>2, <4>3 DEF FrameRecovers
      <4> QED BY <1>5, <4>4 DEF Useful, LeadsFrom
    <3>6. CategoriesAt(p)' = {} => \A s \in Tried(p)' : ~Useful(s)'
      <4>1. CategoriesAt(p)' = {} => CategoriesAt(p) = {}
        BY <1>3
      <4> QED BY <1>1, <1>7, <3>4, <3>5, <4>1 DEF FrameRecovers, Trying
    <3>7. FrameRecovers(p)'
      BY <1>5, <1>7, <3>3, <3>6 DEF FrameRecovers, Trying
    <3> QED BY <3>2, <3>7
  <2> QED BY <2>1, <2>2, <2>3
<1>10. ASSUME NEW q \in DOMAIN frames \ (Below(p) \union {p}) PROVE FrameRecovers(q)'
  <2>1. frames'[q] = frames[q] /\ CategoriesAt(q)' = CategoriesAt(q) /\ FrameRecovers(q)
    BY <1>3, <1>9 DEF AllRecover
  <2>2. Children(q)' = Children(q)
    <3>1. \A s \in Children(q) : s \notin Children(p)
      BY DEF Children
    <3> QED BY <1>2, <1>9, <3>1 DEF Children
  <2> QED BY <2>1, <2>2, KeptFrame
<1> QED BY <1>9, <1>10 DEF AllRecover

LEMMA EvaluateRecovers ==
    ASSUME IndInv, IndInv', Same, AllRecover, NEW p \in DOMAIN frames, Evaluate(p)
    PROVE  AllRecover'
<1> DEFINE c == Last(p)
           r == frames[p].trying
<1>1. /\ frames[p] \in Frame /\ frames[p].at = "evaluating" /\ FrameSound(p) /\ FrameRecovers(p)
  BY PathFacts DEF Evaluate, IndInv, AllRecover
<1>2. frames[p].outcome = "open"
  BY <1>1, FrameFields DEF FrameSound
<1>3. CASE frames' = [frames EXCEPT ![p].at = "confirming"] /\ failures' = failures
  <2> DEFINE g == [frames[p] EXCEPT !.at = "confirming"]
  <2>1. frames' = [frames EXCEPT ![p] = g]
    BY <1>3
  <2>2. /\ g \in Frame /\ g.at = "confirming" /\ g.outcome = "open"
        /\ g.todo = frames[p].todo /\ g.trying = r
    BY <1>1, <1>2 DEF Frame
  <2> HIDE DEF g
  <2>3. Advance(p) /\ CategoriesAt(p)' = CategoriesAt(p) /\ frames'[p] = g
    BY <1>1, <1>3, <2>1, <2>2, QuietAdvance
  <2>4. /\ Candidates(c)' = Candidates(c) /\ atHand' = atHand
        /\ \A s : Useful(s)' <=> Useful(s)
    BY SameRecipes DEF Same
  <2>5. Tried(p)' \subseteq Tried(p)
    BY <1>1, <2>2, <2>3, <2>4 DEF Tried
  <2>6. FrameRecovers(p)'
    BY <1>1, <1>2, <2>2, <2>3, <2>4, <2>5 DEF FrameRecovers, Trying
  <2> QED BY <2>3, <2>6, AdvanceRecovers
<1>4. ASSUME NEW k \in Category, RecipeFails(p, k) PROVE AllRecover'
  BY <1>1, <1>4, RecipeFailsRecovers
<1>5. CASE Finish(p, "error") /\ failures' = failures
  BY <1>1, <1>5, FinishRecovers
<1>6. \/ frames' = [frames EXCEPT ![p].at = "confirming"] /\ failures' = failures
      \/ \E event \in {"other", "raises", "miss"} :
            \E k \in CategoriesOf(r, event) : RecipeFails(p, k)
      \/ RecipeFails(p, Materialization)
      \/ Finish(p, "error") /\ failures' = failures
  BY DEF Evaluate
<1>7. Materialization \in Category
  BY DEF Category, Materialization, IrreproducibleExpression
<1> QED BY <1>3, <1>4, <1>5, <1>6, <1>7, CategoriesOfRecipes

LEMMA ConfirmRecovers ==
    ASSUME IndInv, IndInv', Same, AllRecover, NEW p \in DOMAIN frames, Confirm(p)
    PROVE  AllRecover'
<1>1. frames[p] \in Frame /\ frames[p].at = "confirming"
  BY PathFacts DEF Confirm
<1>2. CASE Last(p) \notin here
  <2>1. Materialization \in Category
    BY DEF Category, Materialization, IrreproducibleExpression
  <2> QED BY <1>1, <1>2, <2>1, RecipeFailsRecovers DEF Confirm
<1>3. CASE Last(p) \in here
  <2> DEFINE g == [frames[p] EXCEPT !.at = "done", !.outcome = "buffer", !.todo = {}, !.trying = None]
  <2>1. /\ frames' = [frames EXCEPT ![p] = g]
        /\ failures' = {f \in failures : ~IsPrefix(p, f[1])}
    BY <1>3 DEF Confirm, Finish
  <2>2. g \in Frame /\ g.at = "done" /\ g.outcome = "buffer" /\ g.todo = {}
    BY <1>1 DEF Frame
  <2> HIDE DEF g
  <2>3. /\ DOMAIN frames' = DOMAIN frames /\ frames'[p] = g
        /\ \A q \in DOMAIN frames \ {p} : frames'[q] = frames[q]
    BY <2>1
  <2>4. \A q \in DOMAIN frames : IsPrefix(p, q) => p = q
    BY <1>1, NobodyBelow
  <2>5. Advance(p)
    BY <1>1, <2>1, <2>2, <2>3, <2>4 DEF Advance, IndInv
  <2>6. FrameRecovers(p)'
    BY <2>2, <2>3 DEF FrameRecovers, Trying
  <2> QED BY <2>5, <2>6, AdvanceRecovers
<1> QED BY <1>2, <1>3

LEMMA GiveUpRecovers ==
    ASSUME IndInv, Same, AllRecover, NEW p \in DOMAIN frames, GiveUp(p)
    PROVE  AllRecover'
<1>1. frames[p].at = "choosing" /\ frames[p].todo = {} /\ failures' = failures
  BY DEF GiveUp
<1>2. Finish(p, "error") \/ Finish(p, "miss")
  BY DEF GiveUp
<1> QED BY <1>1, <1>2, FinishRecovers

LEMMA RecoveryNext ==
    ASSUME IndInv, IndInv', RecoveryInv, [Next]_vars
    PROVE  RecoveryInv'
<1> SUFFICES ASSUME lost' = 0 PROVE Recovers'
  BY DEF RecoveryInv
<1>1. ASSUME NEW p \in DOMAIN frames, Run(p) PROVE Recovers'
  <2>1. Same /\ lost = 0 /\ here \subseteq here'
    BY <1>1, RunSame
  <2>2. AllRecover /\ atHand \subseteq here
    BY <2>1 DEF RecoveryInv, Recovers, AllRecover
  <2>3. AllRecover'
    BY <1>1, <2>1, <2>2, ResolveRecovers, TryRecipeRecovers, InputsBackRecovers,
       EvaluateRecovers, ConfirmRecovers, GiveUpRecovers DEF Run
  <2> QED BY <2>1, <2>2, <2>3 DEF Recovers, AllRecover, Same
<1>2. ASSUME NEW c \in Checksum, Vanish(c) PROVE FALSE
  <2>1. lost \in Nat
    BY RecipeAssumption DEF IndInv, TypeOK
  <2> QED BY <1>2, <2>1 DEF Vanish
<1>3. CASE UNCHANGED vars
  <2>1. Same /\ lost = 0 /\ here' = here /\ atHand' = atHand
    BY <1>3 DEF vars, Same
  <2>2. \A q \in DOMAIN frames : /\ frames'[q] = frames[q] /\ CategoriesAt(q)' = CategoriesAt(q)
                                 /\ Children(q)' = Children(q)
    BY <1>3 DEF vars, CategoriesAt, Children
  <2>3. DOMAIN frames' = DOMAIN frames
    BY <1>3 DEF vars
  <2> QED BY <2>1, <2>2, <2>3, KeptFrame DEF RecoveryInv, Recovers
<1> QED BY <1>1, <1>2, <1>3 DEF Next

\* As long as no buffer vanishes, a caller that gets none, while nothing has
\* failed, could not have got it by any chain of recipes from what was at hand
\* when it asked.  Recipes may give anything, the definitions of celljoins too.
THEOREM RecoverableIsRecovered == Spec => []RecoverableRecovered
<1>1. Init => IndInv /\ RecoveryInv
  <2> SUFFICES ASSUME Init PROVE Recovers
    BY InitInv DEF RecoveryInv
  <2>1. /\ \A p \in DOMAIN frames : frames[p] = NewFrame(1)
        /\ atHand = here
    BY DEF Init
  <2>2. NewFrame(1).at = "resolving" /\ NewFrame(1).outcome = "open" /\ NewFrame(1).todo = {}
    BY DEF NewFrame
  <2> QED BY <2>1, <2>2 DEF Recovers, FrameRecovers, Trying
<1>2. IndInv /\ RecoveryInv /\ [Next]_vars => (IndInv /\ RecoveryInv)'
  BY NextInv, RecoveryNext
<1>3. ASSUME IndInv, RecoveryInv PROVE RecoverableRecovered
  <2> SUFFICES ASSUME NEW c \in Asked, Missed(c), failures = {}, lost = 0
               PROVE  c \notin Derivable
    BY DEF RecoverableRecovered
  <2>1. <<c>> \in DOMAIN frames /\ FrameRecovers(<<c>>) /\ frames[<<c>>].outcome = "miss"
    BY <1>3 DEF IndInv, RecoveryInv, Recovers, Missed
  <2>2. CategoriesAt(<<c>>) = {}
    BY DEF CategoriesAt
  <2>3. Last(<<c>>) = c
    BY DEF Last
  <2> QED BY <2>1, <2>2, <2>3 DEF FrameRecovers
<1> QED BY <1>1, <1>2, <1>3, PTL DEF Spec
=============================================================================
